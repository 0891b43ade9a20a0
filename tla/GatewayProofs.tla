--------------------------- MODULE GatewayProofs ---------------------------
(* What holds of Gateway for any number of requests and any length of the    *)
(* output: _parse_stream takes the first result line, and from it follow the *)
(* types, honest retry flags and the other promises.                         *)
EXTENDS Gateway, WellFoundedInduction, TLAPS

----------------------------------------------------------------------------
(* _parse_stream: the fold over the lines, by least counterexamples *)

\* The least-number principle, for sets of numbers.
LEMMA LeastNumber ==
  ASSUME NEW T \in SUBSET Nat, T # {}
  PROVE  \E x \in T : \A y \in T : x <= y
<1>1. PICK x \in T : \A y \in T : <<y, x>> \notin OpToRel(<, Nat)
  BY NatLessThanWellFounded, WFMin
<1>2. \A y \in T : ~(y < x)
  BY <1>1, Zenon DEF OpToRel
<1>. QED BY <1>2

Nothing == [result |-> NoResult, code |-> ""]

\* The functions that FoldLeft may have chosen: the outcome of reading the lines whose
\* numbers are in a set, the last of them last.
Reads(g, lines, n) ==
  g = [S \in SUBSET (1..n) |->
         IF S = {} THEN Nothing ELSE ReadLine(g[S \ {Max(S)}], lines[Max(S)])]

\* There is one for every number of lines: the least number without one has a predecessor
\* whose function can be extended.
LEMMA ReadsExists == ASSUME NEW lines, NEW n \in Nat PROVE \E g : Reads(g, lines, n)
<1>. DEFINE Bad == {k \in Nat : ~ \E g : Reads(g, lines, k)}
<1>. SUFFICES ASSUME Bad # {} PROVE FALSE
  OBVIOUS
<1>1. PICK k \in Bad : \A j \in Bad : k <= j
  BY LeastNumber
<1>2. CASE k = 0
  <2>. DEFINE g == [S \in SUBSET (1..0) |-> Nothing]
  <2>1. SUBSET (1..0) = {{}}
    OBVIOUS
  <2>2. Reads(g, lines, 0)
    BY <2>1 DEF Reads
  <2>. QED BY <1>1, <1>2, <2>2
<1>3. CASE k # 0
  <2>1. k - 1 \in Nat /\ k - 1 \notin Bad
    BY <1>1, <1>3
  <2>2. PICK g : Reads(g, lines, k - 1)
    BY <2>1
  <2>. DEFINE h == [S \in SUBSET (1..k) |->
                      IF k \in S THEN ReadLine(g[S \ {k}], lines[k]) ELSE g[S]]
  <2>3. ASSUME NEW S \in SUBSET (1..k)
        PROVE  h[S] = IF S = {} THEN Nothing ELSE ReadLine(h[S \ {Max(S)}], lines[Max(S)])
    <3>1. CASE k \in S
      <4>1. Max(S) = k
        <5>1. k \in S /\ \A y \in S : k >= y
          BY <1>1, <3>1
        <5>2. \A x \in S : (\A y \in S : x >= y) => x = k
          BY <1>1, <3>1
        <5>. QED BY <5>1, <5>2 DEF Max
      <4>2. S \ {k} \in SUBSET (1..k) /\ k \notin S \ {k}
        OBVIOUS
      <4>3. h[S \ {k}] = g[S \ {k}]
        BY <4>2
      <4>4. h[S] = ReadLine(g[S \ {k}], lines[k])
        BY <3>1
      <4>. QED BY <3>1, <4>1, <4>3, <4>4
    <3>2. CASE k \notin S
      <4>1. S \in SUBSET (1..(k - 1))
        BY <1>1, <3>2
      <4>2. g[S] = IF S = {} THEN Nothing ELSE ReadLine(g[S \ {Max(S)}], lines[Max(S)])
        BY <2>2, <4>1 DEF Reads
      <4>3. S \ {Max(S)} \in SUBSET (1..k) /\ k \notin S \ {Max(S)}
        BY <3>2
      <4>4. h[S \ {Max(S)}] = g[S \ {Max(S)}] /\ h[S] = g[S]
        BY <3>2, <4>3
      <4>. QED BY <4>2, <4>4
    <3>. QED BY <3>1, <3>2
  <2>4. Reads(h, lines, k)
    <3>. HIDE DEF h
    <3>. SUFFICES h = [S \in SUBSET (1..k) |->
                        IF S = {} THEN Nothing ELSE ReadLine(h[S \ {Max(S)}], lines[Max(S)])]
      BY DEF Reads
    <3>1. h = [S \in SUBSET (1..k) |-> h[S]]
      BY DEF h
    <3>. QED BY <2>3, <3>1
  <2>. QED BY <1>1, <2>4
<1>. QED BY <1>2, <1>3

\* What the reader knows after k of the lines.
LEMMA ParseReads ==
  ASSUME NEW lines, NEW n \in Nat, DOMAIN lines = 1..n
  PROVE  \E g : Reads(g, lines, n) /\ Parse(lines) = g[1..n]
<1>. DEFINE iter == CHOOSE g : Reads(g, lines, n)
<1>1. Reads(iter, lines, n)
  BY ReadsExists
<1>2. Parse(lines) = iter[1..n]
  BY DEF Parse, FoldLeft, MapThenFoldSet, Reads, Nothing
<1>. QED BY <1>1, <1>2

LEMMA ReadsSteps ==
  ASSUME NEW lines, NEW n \in Nat, NEW g, Reads(g, lines, n)
  PROVE  g[1..0] = Nothing /\ \A k \in 1..n : g[1..k] = ReadLine(g[1..(k - 1)], lines[k])
<1>1. g[1..0] = Nothing
  <2>1. 1..0 = {} /\ {} \in SUBSET (1..n)
    OBVIOUS
  <2>. QED BY <2>1 DEF Reads
<1>2. ASSUME NEW k \in 1..n PROVE g[1..k] = ReadLine(g[1..(k - 1)], lines[k])
  <2>1. Max(1..k) = k
    <3>1. k \in 1..k /\ \A y \in 1..k : k >= y
      OBVIOUS
    <3>2. \A x \in 1..k : (\A y \in 1..k : x >= y) => x = k
      OBVIOUS
    <3>. QED BY <3>1, <3>2 DEF Max
  <2>2. 1..k # {} /\ 1..k \in SUBSET (1..n) /\ (1..k) \ {k} = 1..(k - 1)
    OBVIOUS
  <2>3. g[1..k] = IF 1..k = {} THEN Nothing
                  ELSE ReadLine(g[(1..k) \ {Max(1..k)}], lines[Max(1..k)])
    BY <2>2 DEF Reads
  <2>. QED BY <2>1, <2>2, <2>3
<1>. QED BY <1>1, <1>2

\* One turn of the loop: it looks at the line only if there is no result yet.
LEMMA ReadLineTurn ==
  ASSUME NEW read, NEW line
  PROVE  /\ read.result # NoResult => ReadLine(read, line) = read
         /\ read.result = NoResult =>
              ReadLine(read, line).result = IF line.kind # "other" THEN line ELSE NoResult
BY DEF ReadLine

First(lines, i) == lines[i].kind # "other" /\ \A j \in 1..(i - 1) : lines[j].kind = "other"

\* A line that an output may have.
LEMMA LineKinds ==
  ASSUME NEW line \in Lines
  PROVE  line.kind \in {"other", "error", "success"} /\ line # NoResult
<1>1. line.kind \in {"other", "error", "success"}
  <2>1. CASE line \in {Line("other", code, NoStatus) : code \in {"", "authentication_failed", "api_error"}}
    <3>1. PICK code : line = Line("other", code, NoStatus)
      BY <2>1
    <3>. QED BY <3>1 DEF Line
  <2>2. CASE line \in {Line("error", "", status) : status \in {NoStatus, 401, 429, 500}}
    <3>1. PICK status : line = Line("error", "", status)
      BY <2>2
    <3>. QED BY <3>1 DEF Line
  <2>3. CASE line = Line("success", "", NoStatus)
    BY <2>3 DEF Line
  <2>. QED BY <2>1, <2>2, <2>3 DEF Lines
<1>2. NoResult.kind = "none"
  BY DEF NoResult, Line
<1>. QED BY <1>1, <1>2

LEMMA OutputLines ==
  ASSUME NEW lines \in Outputs
  PROVE  \E n \in Nat : DOMAIN lines = 1..n /\ \A i \in 1..n : lines[i] \in Lines
<1>1. PICK n \in 0..MaxLines : lines \in [1..n -> Lines]
  BY DEF Outputs
<1>. QED BY <1>1, GatewayAssumption

\* What _parse_stream reports is the first result line, if there is one.
LEMMA ParseFindsFirst ==
  ASSUME NEW lines \in Outputs
  PROVE  \/ /\ Parse(lines).result = NoResult
            /\ \A i \in DOMAIN lines : lines[i].kind = "other"
         \/ \E i \in DOMAIN lines : First(lines, i) /\ Parse(lines).result = lines[i]
<1>1. PICK n \in Nat : DOMAIN lines = 1..n /\ \A i \in 1..n : lines[i] \in Lines
  BY OutputLines
<1>2. PICK g : Reads(g, lines, n) /\ Parse(lines) = g[1..n]
  BY <1>1, ParseReads
<1>. DEFINE Found(k) ==
       \/ g[1..k].result = NoResult /\ \A i \in 1..k : lines[i].kind = "other"
       \/ \E i \in 1..k : First(lines, i) /\ g[1..k].result = lines[i]
            Bad == {k \in 0..n : ~Found(k)}
<1>3. Bad = {}
  <2>. SUFFICES ASSUME Bad # {} PROVE FALSE
    OBVIOUS
  <2>1. PICK k \in Bad : \A j \in Bad : k <= j
    <3>1. Bad \in SUBSET Nat
      OBVIOUS
    <3>. QED BY <3>1, LeastNumber
  <2>2. k # 0
    <3>1. g[1..0].result = NoResult
      <4>1. g[1..0] = Nothing
        BY <1>2, ReadsSteps
      <4>2. Nothing.result = NoResult
        BY DEF Nothing
      <4>. QED BY <4>1, <4>2, Zenon
    <3>. QED BY <2>1, <3>1
  <2>3. k - 1 \in 0..n /\ k \in 1..n /\ Found(k - 1)
    BY <2>1, <2>2
  <2>4. g[1..k] = ReadLine(g[1..(k - 1)], lines[k])
    BY <1>2, <2>3, ReadsSteps
  <2>5. lines[k] # NoResult /\ \A i \in 1..n : lines[i] # NoResult
    BY <1>1, <2>3, LineKinds
  <2>6. CASE g[1..(k - 1)].result = NoResult /\ \A i \in 1..(k - 1) : lines[i].kind = "other"
    <3>1. g[1..k].result = IF lines[k].kind # "other" THEN lines[k] ELSE NoResult
      BY <2>4, <2>6, ReadLineTurn
    <3>2. Found(k)
      BY <2>3, <2>6, <3>1 DEF First
    <3>. QED BY <2>1, <3>2
  <2>7. CASE \E i \in 1..(k - 1) : First(lines, i) /\ g[1..(k - 1)].result = lines[i]
    <3>1. g[1..k] = g[1..(k - 1)]
      <4>1. PICK i \in 1..(k - 1) : g[1..(k - 1)].result = lines[i]
        BY <2>7
      <4>2. i \in 1..n
        BY <2>3
      <4>. QED BY <2>4, <2>5, <4>1, <4>2, ReadLineTurn
    <3>2. Found(k)
      BY <2>3, <2>7, <3>1
    <3>. QED BY <2>1, <3>2
  <2>. QED BY <2>3, <2>6, <2>7
<1>4. Found(n)
  BY <1>3
<1>. QED BY <1>1, <1>2, <1>4

\* The verdict on an output says "rate limited" exactly if its first result line does.
LEMMA VerdictIsHonest ==
  ASSUME NEW lines \in Outputs
  PROVE  /\ Verdict(lines) \in {Success, WorkerFailed, NotLoggedIn, RateLimited}
         /\ Verdict(lines) = RateLimited <=> LimitedByApi(lines)
         /\ ~HasResult(lines) => Verdict(lines) = WorkerFailed
<1>. USE DEF Success, WorkerFailed, NotLoggedIn, RateLimited, Failure, Classify, HasResult
<1>1. PICK n \in Nat : DOMAIN lines = 1..n /\ \A i \in 1..n : lines[i] \in Lines
  BY OutputLines
<1>2. CASE /\ Parse(lines).result = NoResult
           /\ \A i \in DOMAIN lines : lines[i].kind = "other"
  <2>1. Verdict(lines) = WorkerFailed /\ ~LimitedByApi(lines)
    <3>1. Verdict(lines) = WorkerFailed
      <4>1. NoResult.kind # "success"
        BY DEF NoResult, Line
      <4>. QED BY <1>2, <4>1 DEF Verdict
    <3>. QED BY <1>2, <3>1 DEF LimitedByApi
  <2>. QED BY <2>1, <1>2
<1>3. CASE \E i \in DOMAIN lines : First(lines, i) /\ Parse(lines).result = lines[i]
  <2>1. PICK i \in 1..n : First(lines, i) /\ Parse(lines).result = lines[i]
    BY <1>1, <1>3
  <2>2. lines[i].kind \in {"error", "success"} /\ lines[i] # NoResult
    BY <1>1, <2>1, LineKinds DEF First
  <2>3. Verdict(lines) = IF lines[i].kind = "success" THEN Success
                         ELSE Classify(lines[i].status, Parse(lines).code)
    BY <2>1, <2>2 DEF Verdict
  <2>4. LimitedByApi(lines) <=> lines[i].kind = "error" /\ lines[i].status \in {429, 529}
    <3>1. ASSUME NEW j \in 1..n, First(lines, j) PROVE j = i
      BY <2>1, <3>1 DEF First
    <3>2. LimitedByApi(lines) <=>
            \E j \in 1..n : First(lines, j) /\ lines[j].kind = "error" /\ lines[j].status \in {429, 529}
      BY <1>1 DEF LimitedByApi, First
    <3>. QED BY <2>1, <3>1, <3>2
  <2>. QED BY <2>1, <2>2, <2>3, <2>4 DEF Classify
<1>. QED BY <1>2, <1>3, ParseFindsFirst

\* A worker that prints nothing has no result.
LEMMA NoOutput == <<>> \in Outputs /\ ~HasResult(<<>>) /\ ~LimitedByApi(<<>>)
<1>1. <<>> \in Outputs
  BY GatewayAssumption DEF Outputs
<1>2. DOMAIN <<>> = {}
  OBVIOUS
<1>. QED BY <1>1, <1>2, ParseFindsFirst DEF HasResult, LimitedByApi

----------------------------------------------------------------------------
(* What is known of a request's outcome *)

\* What execute() returns or raises, and what the door answers.
Verdicts == {Success, WorkerFailed, NotLoggedIn, RateLimited}
Ran      == Verdicts \cup {PoolUnavailable, TimedOut, Unexpected}
Denials  == {ForbiddenHost, BadRequest, Unexpected}

\* An outcome is the verdict on the request's own output, or one that needs none.
Unreported == \A r \in Requests :
  phase[r] \in {"new", "acquire", "run"} => outcome[r] = Pending /\ output[r] = <<>>
AfterRun   == \A r \in Requests : phase[r] \in {"release", "told"} => outcome[r] \in Ran
AtTheDoor  == \A r \in Requests : phase[r] = "denied" => outcome[r] \in Denials
OwnVerdict == \A r \in Requests :
  \/ outcome[r] = Verdict(output[r])
  \/ /\ output[r] = <<>>
     /\ outcome[r] \in {Pending, PoolUnavailable, TimedOut} \cup Denials

GateInv == TypeOK /\ Unreported /\ AfterRun /\ AtTheDoor /\ OwnVerdict

\* What the outcomes tell.
LEMMA Kinds ==
  /\ Success.kind = "none" /\ Pending.kind = "pending"
  /\ WorkerFailed.kind = "worker_failed" /\ NotLoggedIn.kind = "not_authenticated"
  /\ RateLimited.kind = "rate_limited" /\ PoolUnavailable.kind = "pool_unavailable"
  /\ TimedOut.kind = "timeout" /\ ForbiddenHost.kind = "forbidden_host"
  /\ BadRequest.kind = "" /\ Unexpected.kind = ""
BY DEF Success, WorkerFailed, NotLoggedIn, RateLimited, PoolUnavailable, TimedOut,
   ForbiddenHost, BadRequest, Unexpected, Pending, Failure

LEMMA Retries ==
  /\ \A o \in {RateLimited, PoolUnavailable, TimedOut} : o.retryable = TRUE
  /\ \A o \in {WorkerFailed, NotLoggedIn, ForbiddenHost} : o.retryable = FALSE
BY DEF WorkerFailed, NotLoggedIn, RateLimited, PoolUnavailable, TimedOut, ForbiddenHost, Failure

LEMMA Hints ==
  /\ RateLimited.retryAfter # NoHint
  /\ \A o \in {PoolUnavailable, TimedOut, WorkerFailed, NotLoggedIn, ForbiddenHost} : o.retryAfter = NoHint
BY DEF WorkerFailed, NotLoggedIn, RateLimited, PoolUnavailable, TimedOut, ForbiddenHost, Failure, NoHint, DefaultRetryAfter

\* The outcomes are told apart.
LEMMA VerdictsDiffer ==
  /\ Verdicts \cap ({Pending, PoolUnavailable, TimedOut} \cup Denials) = {}
  /\ Success \notin {WorkerFailed, NotLoggedIn, RateLimited, PoolUnavailable, TimedOut} \cup Denials
  /\ Unexpected \notin Verdicts \cup {PoolUnavailable, TimedOut}
  /\ {RateLimited, PoolUnavailable, TimedOut} \cap ({Success, WorkerFailed, NotLoggedIn} \cup Denials) = {}
  <1>1. ASSUME NEW o \in Verdicts PROVE o.kind \in {"none", "worker_failed", "not_authenticated", "rate_limited"}
  BY Kinds DEF Verdicts
<1>2. ASSUME NEW o \in {Pending, PoolUnavailable, TimedOut} \cup Denials
      PROVE o.kind \in {"pending", "pool_unavailable", "timeout", "forbidden_host", ""}
  BY Kinds DEF Denials
<1>3. ASSUME NEW o \in {WorkerFailed, NotLoggedIn, RateLimited, PoolUnavailable, TimedOut} \cup Denials
      PROVE o.kind # "none"
  BY Kinds DEF Denials
<1>4. ASSUME NEW o \in Verdicts \cup {PoolUnavailable, TimedOut} PROVE o.kind # ""
  BY Kinds DEF Verdicts
<1>5. ASSUME NEW o \in {Success, WorkerFailed, NotLoggedIn} \cup Denials
      PROVE o.kind \notin {"rate_limited", "pool_unavailable", "timeout"}
  BY Kinds DEF Denials
<1>6. RateLimited.kind = "rate_limited" /\ PoolUnavailable.kind = "pool_unavailable"
      /\ TimedOut.kind = "timeout" /\ Success.kind = "none" /\ Unexpected.kind = ""
  BY Kinds
<1>7. Verdicts \cap ({Pending, PoolUnavailable, TimedOut} \cup Denials) = {}
  BY <1>1, <1>2
<1>8. Success \notin {WorkerFailed, NotLoggedIn, RateLimited, PoolUnavailable, TimedOut} \cup Denials
  BY <1>3, <1>6
<1>9. Unexpected \notin Verdicts \cup {PoolUnavailable, TimedOut}
  BY <1>4, <1>6
<1>10. {RateLimited, PoolUnavailable, TimedOut} \cap ({Success, WorkerFailed, NotLoggedIn} \cup Denials) = {}
  BY <1>5, <1>6
<1>. QED BY <1>6, <1>7, <1>8, <1>9, <1>10

LEMMA GateInit == Init => GateInv
BY NoOutput DEF Init, GateInv, TypeOK, Unreported, AfterRun, AtTheDoor, OwnVerdict

\* A step of request r, from and to known phases.
LEMMA GateMoves ==
  ASSUME GateInv, NEW r \in Requests, NEW p, NEW o, NEW lines \in Outputs,
         phase' = [phase EXCEPT ![r] = p],
         outcome' = [outcome EXCEPT ![r] = o],
         output' = [output EXCEPT ![r] = lines],
         lastError' \in Requests \cup {NoError},
         \/ p \in {"acquire", "run"} /\ o = Pending /\ lines = <<>>
         \/ p \in {"release", "told"} /\ o \in Ran
         \/ p = "denied" /\ o \in Denials
         \/ p = "gone" /\ o \in Outcomes \cup {Pending},
         \/ o = Verdict(lines)
         \/ lines = <<>> /\ o \in {Pending, PoolUnavailable, TimedOut} \cup Denials
  PROVE  GateInv'
<1>. USE DEF GateInv
<1>1. Ran \subseteq Outcomes /\ Denials \subseteq Outcomes
  BY DEF Ran, Denials, Verdicts, Outcomes
<1>2. TypeOK'
  BY <1>1 DEF TypeOK
<1>3. Unreported' /\ AfterRun' /\ AtTheDoor'
  BY DEF TypeOK, Unreported, AfterRun, AtTheDoor
<1>4. OwnVerdict'
  BY DEF TypeOK, OwnVerdict
<1>. QED BY <1>2, <1>3, <1>4

LEMMA GateNext == GateInv /\ [Next]_vars => GateInv'
<1>. SUFFICES ASSUME GateInv, [Next]_vars PROVE GateInv'
  OBVIOUS
<1>1. CASE UNCHANGED vars
  BY <1>1 DEF vars, GateInv, TypeOK, Unreported, AfterRun, AtTheDoor, OwnVerdict
<1>2. CASE Finished
  BY <1>1, <1>2 DEF Finished
<1>3. ASSUME NEW r \in Requests,
             \/ Submit(r) \/ \E host \in Hosts, body \in Bodies : Deny(r, host, body)
             \/ Acquired(r) \/ Refused(r) \/ TimesOut(r) \/ Raises(r)
             \/ \E lines \in Outputs : Prints(r, lines)
             \/ Released(r) \/ Cancelled(r)
      PROVE  GateInv'
  <2>. USE DEF Goto, Returns, GateInv, Ran
  <2>1. /\ phase = [phase EXCEPT ![r] = phase[r]] /\ outcome = [outcome EXCEPT ![r] = outcome[r]]
        /\ output = [output EXCEPT ![r] = output[r]]
        /\ output[r] \in Outputs /\ outcome[r] \in Outcomes \cup {Pending}
        /\ \/ outcome[r] = Verdict(output[r])
           \/ output[r] = <<>> /\ outcome[r] \in {Pending, PoolUnavailable, TimedOut} \cup Denials
    <3>. DEFINE Phases == {"new", "acquire", "run", "release", "told", "denied", "gone"}
    <3>1. phase = [phase EXCEPT ![r] = phase[r]] /\ outcome = [outcome EXCEPT ![r] = outcome[r]]
      <4>1. phase \in [Requests -> Phases] /\ outcome \in [Requests -> Outcomes \cup {Pending}]
        BY DEF TypeOK
      <4>. HIDE DEF Phases
      <4>. QED BY <4>1
    <3>2. output = [output EXCEPT ![r] = output[r]] /\ output[r] \in Outputs
      BY DEF TypeOK
    <3>3. outcome[r] \in Outcomes \cup {Pending}
      BY DEF TypeOK
    <3>. QED BY <3>1, <3>2, <3>3 DEF OwnVerdict
  <2>2. CASE Submit(r) \/ Acquired(r)
    BY <2>1, <2>2, GateMoves DEF Submit, Acquired, Unreported, TypeOK
  <2>3. CASE \E host \in Hosts, body \in Bodies : Deny(r, host, body)
    <3>1. PICK o \in Denials :
            /\ phase[r] = "new" /\ phase' = [phase EXCEPT ![r] = "denied"]
            /\ outcome' = [outcome EXCEPT ![r] = o] /\ UNCHANGED <<output, lastError>>
      BY <2>3 DEF Deny, Denial, Denials
    <3>2. output[r] = <<>>
      BY <3>1 DEF Unreported
    <3>. QED BY <2>1, <3>1, <3>2, GateMoves DEF TypeOK
  <2>4. CASE Refused(r) \/ TimesOut(r) \/ Raises(r)
    <3>1. PICK p \in {"told", "release"}, o \in {PoolUnavailable, TimedOut, Unexpected} :
            /\ phase[r] \in {"acquire", "run"} /\ phase' = [phase EXCEPT ![r] = p]
            /\ outcome' = [outcome EXCEPT ![r] = o] /\ UNCHANGED output
            /\ lastError' \in {r, lastError}
      BY <2>4 DEF Refused, TimesOut, Raises
    <3>2. output[r] = <<>>
      BY <3>1 DEF Unreported
    <3>3. output' = [output EXCEPT ![r] = <<>>] /\ <<>> \in Outputs
      BY <2>1, <3>1, <3>2
    <3>4. lastError' \in Requests \cup {NoError}
      BY <3>1 DEF TypeOK
    <3>5. o \in Ran /\ o \in {Pending, PoolUnavailable, TimedOut} \cup Denials
      BY DEF Denials
    <3>. QED BY <3>1, <3>3, <3>4, <3>5, GateMoves
  <2>5. CASE \E lines \in Outputs : Prints(r, lines)
    <3>1. PICK lines \in Outputs : Prints(r, lines)
      BY <2>5
    <3>. QED BY <3>1, VerdictIsHonest, GateMoves DEF Prints, TypeOK, Verdicts
  <2>6. CASE Released(r)
    <3>1. outcome[r] \in Ran /\ lastError' \in {NoError, r, lastError}
      BY <2>6 DEF Released, Noted, AfterRun
    <3>2. lastError' \in Requests \cup {NoError}
      BY <3>1 DEF TypeOK
    <3>3. /\ phase' = [phase EXCEPT ![r] = "told"]
          /\ outcome' = [outcome EXCEPT ![r] = outcome[r]]
          /\ output' = [output EXCEPT ![r] = output[r]]
      BY <2>1, <2>6 DEF Released
    <3>. QED BY <2>1, <3>1, <3>2, <3>3, GateMoves
  <2>7. CASE Cancelled(r)
    <3>1. /\ phase' = [phase EXCEPT ![r] = "gone"]
          /\ outcome' = [outcome EXCEPT ![r] = outcome[r]]
          /\ output' = [output EXCEPT ![r] = output[r]]
          /\ lastError' \in Requests \cup {NoError}
      BY <2>1, <2>7 DEF Cancelled, TypeOK
    <3>. QED BY <2>1, <3>1, GateMoves
  <2>. QED BY <1>3, <2>2, <2>3, <2>4, <2>5, <2>6, <2>7
<1>. QED BY <1>1, <1>2, <1>3 DEF Next

LEMMA GateAlways == Spec => []GateInv
BY GateInit, GateNext, PTL DEF Spec

\* Whoever is past its run or was turned away has an outcome; a line of output never makes
\* one that is not among those the code answers with.
THEOREM TypeCorrect == Spec => []TypeOK
<1>1. GateInv => TypeOK
  BY DEF GateInv
<1>. QED BY <1>1, GateAlways, PTL

----------------------------------------------------------------------------
(* What a caller is told *)

LEMMA JobsEnd ==
  ASSUME GateInv, NEW r \in Requests
  PROVE  /\ JobStatus(r) = "failed" <=> phase[r] = "told" /\ outcome[r] # Success
         /\ JobStatus(r) = "cancelled" <=> phase[r] = "gone"
BY DEF JobStatus

\* The client's exception for an outcome, by a response.
LEMMA ResponseTells ==
  ASSUME NEW o \in Ran \cup Denials, o # Success
  PROVE  LET error == ErrorFrom(FailureResponse(o))
         IN  /\ error.retryable <=> o \in {RateLimited, PoolUnavailable, TimedOut}
             /\ error.retryAfter # NoHint <=> o = RateLimited
<1>0. o \in {WorkerFailed, NotLoggedIn, RateLimited, PoolUnavailable, TimedOut} \cup Denials
  BY DEF Ran, Verdicts, Denials
<1>1. CASE o \in {BadRequest, Unexpected}
  <2>0. o.kind = ""
    BY <1>1, Kinds
  <2>1. ErrorFrom(FailureResponse(o)) = Raised("unknown", FALSE, NoHint)
    BY <2>0 DEF ErrorFrom, FailureResponse
  <2>2. o \notin {RateLimited, PoolUnavailable, TimedOut}
    BY <1>1, VerdictsDiffer DEF Denials
  <2>. QED BY <2>1, <2>2 DEF Raised
<1>4. ASSUME o.kind # "" 
      PROVE  /\ ErrorFrom(FailureResponse(o)).retryable = o.retryable
             /\ ErrorFrom(FailureResponse(o)).retryAfter = o.retryAfter
  <2>1. o # Unexpected
    BY <1>4, Kinds
  <2>2. ErrorFrom(FailureResponse(o)) = Raised(o.kind, o.retryable, o.retryAfter)
    BY <1>4, <2>1 DEF ErrorFrom, FailureResponse
  <2>. QED BY <2>2 DEF Raised
<1>2. CASE o \in {WorkerFailed, NotLoggedIn, ForbiddenHost}
  <2>1. o.kind # ""
    BY <1>2, Kinds
  <2>2. o.retryable = FALSE /\ o.retryAfter = NoHint
    BY <1>2, Retries, Hints
  <2>3. o \notin {RateLimited, PoolUnavailable, TimedOut}
    BY <1>2, VerdictsDiffer DEF Denials
  <2>. QED BY <1>4, <2>1, <2>2, <2>3, Hints, Zenon
<1>3. CASE o \in {RateLimited, PoolUnavailable, TimedOut}
  <2>1. o.kind # ""
    BY <1>3, Kinds
  <2>2. o.retryable = TRUE 
    BY <1>3, Retries
  <2>3. o.retryAfter # NoHint <=> o = RateLimited
    BY <1>3, Hints
  <2>. QED BY <1>3, <1>4, <2>1, <2>2, <2>3, Zenon
<1>. QED BY <1>0, <1>1, <1>2, <1>3 DEF Denials

\* And by a job's record.
LEMMA RecordTells ==
  ASSUME NEW r \in Requests, outcome[r] \in Ran, JobStatus(r) = "failed", outcome[r] # Success
  PROVE  LET error == WaitError(Record(r)) IN
         /\ error.retryable <=> outcome[r] \in {RateLimited, PoolUnavailable, TimedOut}
         /\ error.retryAfter # NoHint <=> outcome[r] = RateLimited
         /\ outcome[r] # Unexpected => error = ErrorFrom(FailureResponse(outcome[r]))
<1>1. ASSUME NEW f, JobFailure(outcome[r]) = f, f.kind # ""
      PROVE  WaitError(Record(r)) = Raised(f.kind, f.retryable, f.retryAfter)
  BY <1>1 DEF WaitError, Record
<1>2. CASE outcome[r] = Unexpected
  <2>1. WaitError(Record(r)) = Raised(WorkerFailed.kind, WorkerFailed.retryable, WorkerFailed.retryAfter)
    BY <1>1, <1>2, Kinds DEF JobFailure
  <2>2. WorkerFailed.retryable = FALSE /\ WorkerFailed.retryAfter = NoHint
    BY Retries, Hints
  <2>3. outcome[r] \notin {RateLimited, PoolUnavailable, TimedOut}
    BY <1>2, VerdictsDiffer DEF Denials
  <2>. QED BY <1>2, <2>1, <2>2, <2>3 DEF Raised
<1>3. CASE outcome[r] # Unexpected
  <2>1. outcome[r] \in {WorkerFailed, NotLoggedIn, RateLimited, PoolUnavailable, TimedOut}
    BY <1>3 DEF Ran, Verdicts
  <2>2. JobFailure(outcome[r]) = outcome[r]
    BY <1>3 DEF JobFailure
  <2>3. outcome[r].kind # ""
    BY <2>1, Kinds
  <2>4. WaitError(Record(r)) = Raised(outcome[r].kind, outcome[r].retryable, outcome[r].retryAfter)
    BY <1>1, <2>2, <2>3
  <2>5. WaitError(Record(r)) = ErrorFrom(FailureResponse(outcome[r]))
    BY <1>3, <2>3, <2>4 DEF ErrorFrom, FailureResponse
  <2>6. outcome[r] \in Ran \cup Denials
    OBVIOUS
  <2>. QED BY <2>5, <2>6, ResponseTells, Zenon
<1>. QED BY <1>2, <1>3

\* RateLimited is told exactly to those whose output says so.
LEMMA LimitIsEvident ==
  ASSUME GateInv, NEW r \in Requests
  PROVE  outcome[r] = RateLimited <=> LimitedByApi(output[r])
<1>1. output[r] \in Outputs
  BY DEF GateInv, TypeOK
<1>2. CASE outcome[r] = Verdict(output[r])
  BY <1>1, <1>2, VerdictIsHonest
<1>3. CASE /\ output[r] = <<>>
           /\ outcome[r] \in {Pending, PoolUnavailable, TimedOut} \cup Denials
  BY <1>3, NoOutput, VerdictsDiffer DEF Verdicts
<1>. QED BY <1>2, <1>3 DEF GateInv, OwnVerdict

\* A retry is offered for what passes by itself and for nothing else, by a response and by a
\* record, whatever the CLI printed and however many lines of it.
THEOREM RetriesAreHonest == Spec => []RetryIsHonest
<1>1. ASSUME GateInv PROVE RetryIsHonest
  <2>. SUFFICES ASSUME NEW r \in Requests, NEW error \in Errors(r)
                PROVE  LET limited == Told(r) /\ LimitedByApi(output[r])
                       IN  /\ error.retryable <=>
                                limited \/ (Told(r) /\ outcome[r] \in {PoolUnavailable, TimedOut})
                           /\ error.retryAfter # NoHint <=> limited
    BY DEF RetryIsHonest
  <2>1. outcome[r] = RateLimited <=> LimitedByApi(output[r])
    BY <1>1, LimitIsEvident
  <2>2. CASE AnsweredOverHttp(r) /\ error = ErrorFrom(FailureResponse(outcome[r]))
    <3>1. CASE phase[r] = "told"
      BY <1>1, <2>1, <2>2, <3>1, ResponseTells DEF GateInv, AfterRun, AnsweredOverHttp, Told
    <3>2. CASE phase[r] = "denied"
      <4>1. outcome[r] \in Denials /\ outcome[r] # Success
        BY <1>1, <2>2, <3>2 DEF GateInv, AtTheDoor, AnsweredOverHttp
      <4>2. outcome[r] \notin {RateLimited, PoolUnavailable, TimedOut}
        BY <4>1, VerdictsDiffer
      <4>. QED BY <2>2, <3>2, <4>1, <4>2, ResponseTells DEF Told
    <3>. QED BY <2>2, <3>1, <3>2 DEF AnsweredOverHttp
  <2>3. CASE JobStatus(r) = "failed" /\ error = WaitError(Record(r))
    <3>1. phase[r] = "told" /\ outcome[r] # Success /\ outcome[r] \in Ran
      BY <1>1, <2>3, JobsEnd DEF GateInv, AfterRun
    <3>. QED BY <2>1, <2>3, <3>1, RecordTells DEF Told
  <2>4. CASE JobStatus(r) = "cancelled" /\ error = WaitError(Record(r))
    <3>1. ~Told(r)
      BY <1>1, <2>4, JobsEnd DEF Told
    <3>2. error.retryable = FALSE /\ error.retryAfter = NoHint
      BY <2>4 DEF WaitError, Record, Raised
    <3>. QED BY <3>1, <3>2
  <2>. QED BY <2>2, <2>3, <2>4 DEF Errors
<1>. QED BY <1>1, GateAlways, PTL

\* wait() raises what generate() would have, hint included.
THEOREM BothWaysFailAlike == Spec => []SameErrorEitherWay
<1>1. ASSUME GateInv PROVE SameErrorEitherWay
  <2>. SUFFICES ASSUME NEW r \in Requests, JobStatus(r) = "failed", outcome[r] # Unexpected
                PROVE  ErrorFrom(FailureResponse(outcome[r])) = WaitError(Record(r))
    BY DEF SameErrorEitherWay
  <2>1. outcome[r] # Success /\ outcome[r] \in Ran
    BY <1>1, JobsEnd DEF GateInv, AfterRun
  <2>. QED BY <2>1, RecordTells
<1>. QED BY <1>1, GateAlways, PTL

\* Every failure a response or a record names is in the table the daemon documents.
THEOREM DocsAreComplete == Spec => []DocsListEveryFailure
<1>1. ASSUME NEW o \in Ran \cup Denials, o # Success, o.kind # ""
      PROVE  Entry(o.kind, o.status, o.retryable) \in FailureKinds
  <2>1. o \in {WorkerFailed, NotLoggedIn, RateLimited, PoolUnavailable, TimedOut, ForbiddenHost}
    BY <1>1, Kinds DEF Ran, Verdicts, Denials
  <2>. DEFINE Listed(e) == Entry(e.kind, e.status, e.retryable) \in FailureKinds
  <2>2. Listed(WorkerFailed) /\ Listed(NotLoggedIn)
    BY DEF WorkerFailed, NotLoggedIn, Failure, FailureKinds
  <2>3. Listed(RateLimited) /\ Listed(PoolUnavailable)
    BY DEF RateLimited, PoolUnavailable, Failure, FailureKinds
  <2>4. Listed(TimedOut) /\ Listed(ForbiddenHost)
    BY DEF TimedOut, ForbiddenHost, Failure, FailureKinds
  <2>. QED BY <2>1, <2>2, <2>3, <2>4, Zenon
<1>2. ASSUME NEW o \in Ran, o # Success
      PROVE  \E f \in FailureKinds : f.kind = JobFailure(o).kind /\ f.retryable = JobFailure(o).retryable
  <2>1. JobFailure(o) \in {WorkerFailed, NotLoggedIn, RateLimited, PoolUnavailable, TimedOut}
    BY <1>2 DEF Ran, Verdicts, JobFailure
  <2>2. JobFailure(o).kind # ""
    BY <2>1, Kinds
  <2>3. JobFailure(o) \in Ran /\ JobFailure(o) # Success
    BY <2>1, VerdictsDiffer DEF Ran, Verdicts
  <2>4. Entry(JobFailure(o).kind, JobFailure(o).status, JobFailure(o).retryable) \in FailureKinds
    BY <1>1, <2>2, <2>3
  <2>. DEFINE f == Entry(JobFailure(o).kind, JobFailure(o).status, JobFailure(o).retryable)
  <2>5. f.kind = JobFailure(o).kind
    BY DEF Entry
  <2>6. f.retryable = JobFailure(o).retryable
    BY DEF Entry
  <2>7. f \in FailureKinds
    BY <2>4
  <2>. HIDE DEF f
  <2>. QED BY <2>5, <2>6, <2>7, Zenon
<1>3. ASSUME GateInv PROVE DocsListEveryFailure
  <2>. SUFFICES ASSUME NEW r \in Requests
                PROVE  /\ AnsweredOverHttp(r) /\ outcome[r].kind # "" =>
                            Entry(outcome[r].kind, outcome[r].status, outcome[r].retryable) \in FailureKinds
                       /\ JobStatus(r) = "failed" =>
                            \E f \in FailureKinds :
                              f.kind = Record(r).kind /\ f.retryable = Record(r).retryable
    BY Zenon DEF DocsListEveryFailure
  <2>1. AnsweredOverHttp(r) => outcome[r] \in Ran \cup Denials /\ outcome[r] # Success
    BY <1>3 DEF AnsweredOverHttp, GateInv, AfterRun, AtTheDoor
  <2>2. JobStatus(r) = "failed" => outcome[r] \in Ran /\ outcome[r] # Success
    BY <1>3, JobsEnd DEF GateInv, AfterRun
  <2>3. JobStatus(r) = "failed" =>
          /\ Record(r).kind = JobFailure(outcome[r]).kind
          /\ Record(r).retryable = JobFailure(outcome[r]).retryable
    BY DEF Record
  <2>4. AnsweredOverHttp(r) /\ outcome[r].kind # "" =>
          Entry(outcome[r].kind, outcome[r].status, outcome[r].retryable) \in FailureKinds
    BY <1>1, <2>1
  <2>5. JobStatus(r) = "failed" =>
          \E f \in FailureKinds : f.kind = Record(r).kind /\ f.retryable = Record(r).retryable
    BY <1>2, <2>2, <2>3
  <2>. QED BY <2>4, <2>5
<1>. QED BY <1>3, GateAlways, PTL

----------------------------------------------------------------------------
(* What /health explains *)

Classified(o) == o \notin {Pending, Success, Unexpected}

\* A failure that is noted already, or is going to be by nobody: told, or on its way from
\* one of the first two except clauses of execute().
Due(r) ==
  /\ Classified(outcome[r])
  /\ phase[r] = "told" \/ (phase[r] = "release" /\ ~HasResult(output[r]))

\* last_error is a classified failure, of a run that has ended.
NotedFailure ==
  lastError # NoError =>
    /\ phase[lastError] \in {"release", "told", "gone"}
    /\ Classified(outcome[lastError])

\* Only a success that was told clears it.
Explained ==
  (\E r \in Requests : Due(r)) =>
    lastError # NoError \/ \E r \in Requests : phase[r] = "told" /\ outcome[r] = Success

HealthInv == NotedFailure /\ Explained

\* Every outcome but Success and what no except clause knows is classified.
LEMMA VerdictIsClassified ==
  ASSUME GateInv, NEW r \in Requests
  PROVE  /\ HasResult(output[r]) => outcome[r] \in Verdicts
         /\ outcome[r] \in Ran => (Classified(outcome[r]) <=> outcome[r] \notin {Success, Unexpected})
<1>1. output[r] \in Outputs
  BY DEF GateInv, TypeOK
<1>2. HasResult(output[r]) => outcome[r] = Verdict(output[r])
  BY NoOutput DEF GateInv, OwnVerdict
<1>3. Pending \notin Ran
  BY Kinds DEF Ran, Verdicts
<1>. QED BY <1>1, <1>2, <1>3, VerdictIsHonest DEF Verdicts, Classified

LEMMA HealthInit == Init => HealthInv
BY Kinds DEF Init, HealthInv, NotedFailure, Explained, Due, Classified

\* A step of r either leaves last_error alone, notes r's failure or reports r's success.
LEMMA HealthMoves ==
  ASSUME HealthInv, NEW r \in Requests, phase[r] # "told",
         lastError \in Requests \cup {NoError},
         \A q \in Requests : q # r =>
           phase'[q] = phase[q] /\ outcome'[q] = outcome[q] /\ output'[q] = output[q],
         \/ /\ lastError' = lastError
            /\ Due(r)' => Due(r)
            /\ lastError = r => /\ phase'[r] \in {"release", "told", "gone"}
                                /\ outcome'[r] = outcome[r]
         \/ lastError' = r /\ phase'[r] \in {"release", "told"} /\ Classified(outcome'[r])
         \/ lastError' = NoError /\ phase'[r] = "told" /\ outcome'[r] = Success
  PROVE  HealthInv'
<1>1. NotedFailure'
  BY DEF HealthInv, NotedFailure, Classified
<1>2. Explained'
  <2>. SUFFICES ASSUME NEW q \in Requests, Due(q)', lastError' = NoError
                PROVE  \E s \in Requests : phase'[s] = "told" /\ outcome'[s] = Success
    BY DEF Explained
  <2>1. CASE lastError' = r
    BY <2>1, GatewayAssumption
  <2>2. CASE phase'[r] = "told" /\ outcome'[r] = Success
    BY <2>2
  <2>3. CASE lastError' = lastError /\ (Due(r)' => Due(r))
    <3>1. Due(q)
      BY <2>3 DEF Due, Classified
    <3>2. PICK s \in Requests : phase[s] = "told" /\ outcome[s] = Success
      BY <2>3, <3>1 DEF HealthInv, Explained
    <3>. QED BY <3>2
  <2>. QED BY <2>1, <2>2, <2>3
<1>. QED BY <1>1, <1>2 DEF HealthInv

LEMMA HealthNext == GateInv /\ HealthInv /\ [Next]_vars => HealthInv'
<1>. SUFFICES ASSUME GateInv, HealthInv, [Next]_vars PROVE HealthInv'
  OBVIOUS
<1>0. lastError \in Requests \cup {NoError}
  BY DEF GateInv, TypeOK
<1>1. CASE UNCHANGED vars
  BY <1>1 DEF vars, HealthInv, NotedFailure, Explained, Due, Classified
<1>2. CASE Finished
  BY <1>1, <1>2 DEF Finished
<1>3. ASSUME NEW r \in Requests,
             \/ Submit(r) \/ \E host \in Hosts, body \in Bodies : Deny(r, host, body)
             \/ Acquired(r) \/ Refused(r) \/ TimesOut(r) \/ Raises(r)
             \/ \E lines \in Outputs : Prints(r, lines)
             \/ Released(r) \/ Cancelled(r)
      PROVE  HealthInv'
  <2>. USE DEF Goto, Returns
  <2>0. lastError = r => phase[r] \in {"release", "told", "gone"} /\ Classified(outcome[r])
    BY GatewayAssumption DEF HealthInv, NotedFailure
  <2>1. DOMAIN phase = Requests /\ DOMAIN outcome = Requests /\ DOMAIN output = Requests
    BY DEF GateInv, TypeOK
  <2>2. CASE Submit(r) \/ Acquired(r)
    <3>1. PICK p \in {"acquire", "run"} :
            /\ phase[r] \in {"new", "acquire"} /\ phase' = [phase EXCEPT ![r] = p]
            /\ UNCHANGED <<output, outcome, lastError>>
      BY <2>2 DEF Submit, Acquired
    <3>2. phase'[r] = p /\ \A q \in Requests : q # r =>
            phase'[q] = phase[q] /\ outcome'[q] = outcome[q] /\ output'[q] = output[q]
      BY <2>1, <3>1
    <3>3. ~Due(r)'
      BY <3>2 DEF Due
    <3>. QED BY <1>0, <2>0, <3>1, <3>2, <3>3, HealthMoves
  <2>3. CASE \E host \in Hosts, body \in Bodies : Deny(r, host, body)
    <3>1. PICK o :
            /\ phase[r] = "new" /\ phase' = [phase EXCEPT ![r] = "denied"]
            /\ outcome' = [outcome EXCEPT ![r] = o] /\ UNCHANGED <<output, lastError>>
      BY <2>3 DEF Deny
    <3>2. phase'[r] = "denied" /\ \A q \in Requests : q # r =>
            phase'[q] = phase[q] /\ outcome'[q] = outcome[q] /\ output'[q] = output[q]
      BY <2>1, <3>1
    <3>3. ~Due(r)'
      BY <3>2 DEF Due
    <3>. QED BY <1>0, <2>0, <3>1, <3>2, <3>3, HealthMoves
  <2>4. CASE Refused(r) \/ TimesOut(r)
    <3>1. PICK p \in {"told", "release"}, o \in {PoolUnavailable, TimedOut} :
            /\ phase[r] \in {"acquire", "run"} /\ phase' = [phase EXCEPT ![r] = p]
            /\ outcome' = [outcome EXCEPT ![r] = o] /\ UNCHANGED output /\ lastError' = r
      BY <2>4 DEF Refused, TimesOut
    <3>2. phase'[r] = p /\ outcome'[r] = o /\ \A q \in Requests : q # r =>
            phase'[q] = phase[q] /\ outcome'[q] = outcome[q] /\ output'[q] = output[q]
      BY <2>1, <3>1
    <3>3. Classified(o)
      BY Kinds DEF Classified
    <3>. QED BY <1>0, <3>1, <3>2, <3>3, HealthMoves
  <2>5. CASE Raises(r)
    <3>1. phase'[r] = "release" /\ outcome'[r] = Unexpected /\ \A q \in Requests : q # r =>
            phase'[q] = phase[q] /\ outcome'[q] = outcome[q] /\ output'[q] = output[q]
      BY <2>1, <2>5 DEF Raises
    <3>2. ~Due(r)'
      BY <3>1 DEF Due, Classified
    <3>. QED BY <1>0, <2>0, <2>5, <3>1, <3>2, HealthMoves DEF Raises
  <2>6. CASE \E lines \in Outputs : Prints(r, lines)
    <3>1. PICK lines \in Outputs : Prints(r, lines)
      BY <2>6
    <3>2. /\ phase'[r] = "release" /\ outcome'[r] = Verdict(lines) /\ output'[r] = lines
          /\ \A q \in Requests : q # r =>
               phase'[q] = phase[q] /\ outcome'[q] = outcome[q] /\ output'[q] = output[q]
      BY <2>1, <3>1 DEF Prints
    <3>3. CASE HasResult(lines)
      <4>1. ~Due(r)'
        BY <3>2, <3>3 DEF Due
      <4>. QED BY <1>0, <2>0, <3>1, <3>2, <3>3, <4>1, HealthMoves DEF Prints
    <3>4. CASE ~HasResult(lines)
      <4>1. Classified(Verdict(lines))
        BY <3>4, VerdictIsHonest, Kinds DEF Classified
      <4>. QED BY <1>0, <3>1, <3>2, <3>4, <4>1, HealthMoves DEF Prints
    <3>. QED BY <3>3, <3>4
  <2>7. CASE Released(r)
    <3>1. /\ phase'[r] = "told" /\ outcome'[r] = outcome[r] /\ output'[r] = output[r]
          /\ phase[r] = "release"
          /\ \A q \in Requests : q # r =>
               phase'[q] = phase[q] /\ outcome'[q] = outcome[q] /\ output'[q] = output[q]
      BY <2>1, <2>7 DEF Released
    <3>2. CASE outcome[r] = Success
      BY <1>0, <2>7, <3>1, <3>2, HealthMoves DEF Released, Noted
    <3>3. CASE outcome[r] # Success /\ HasResult(output[r])
      <4>1. Classified(outcome[r])
        BY <3>3, VerdictIsClassified, VerdictsDiffer DEF Ran
      <4>. QED BY <1>0, <2>7, <3>1, <3>3, <4>1, HealthMoves DEF Released, Noted
    <3>4. CASE outcome[r] # Success /\ ~HasResult(output[r])
      <4>1. Due(r)' => Due(r)
        BY <3>1, <3>4 DEF Due, Classified
      <4>. QED BY <1>0, <2>7, <3>1, <3>4, <4>1, HealthMoves DEF Released, Noted
    <3>. QED BY <3>2, <3>3, <3>4
  <2>8. CASE Cancelled(r)
    <3>1. /\ phase'[r] = "gone" /\ outcome'[r] = outcome[r] /\ phase[r] # "told"
          /\ lastError' = lastError
          /\ \A q \in Requests : q # r =>
               phase'[q] = phase[q] /\ outcome'[q] = outcome[q] /\ output'[q] = output[q]
      BY <2>1, <2>8 DEF Cancelled
    <3>2. ~Due(r)'
      BY <3>1 DEF Due
    <3>. QED BY <1>0, <3>1, <3>2, HealthMoves
  <2>. QED BY <1>3, <2>2, <2>3, <2>4, <2>5, <2>6, <2>7, <2>8
<1>. QED BY <1>1, <1>2, <1>3 DEF Next

\* While nobody has been told a success, /health has a reason that is a classified failure
\* of a run that ended, whoever was cancelled or turned away in between.
THEOREM HealthHasTheReason == Spec => []HealthExplainsFailure
<1>1. GateInv /\ HealthInv => HealthExplainsFailure
  <2>. SUFFICES ASSUME GateInv, HealthInv, NEW r \in Requests, Told(r),
                       outcome[r] \notin {Success, Unexpected},
                       \A q \in Requests : ~(Told(q) /\ outcome[q] = Success)
                PROVE  /\ lastError # NoError /\ phase[lastError] # "denied"
                       /\ outcome[lastError] \notin {Pending, Success, Unexpected}
    BY DEF HealthExplainsFailure
  <2>1. Due(r)
    BY VerdictIsClassified DEF Due, Told, GateInv, AfterRun
  <2>2. lastError # NoError
    BY <2>1 DEF HealthInv, Explained, Told
  <2>. QED BY <2>2 DEF HealthInv, NotedFailure, Classified
<1>2. Spec => []HealthInv
  BY HealthInit, GateAlways, HealthNext, PTL DEF Spec
<1>. QED BY <1>1, <1>2, GateAlways, PTL
=============================================================================
