----------------------------- MODULE Gateway ------------------------------
(* From a request and the lines the CLI prints to what a caller is told: the *)
(* host check, the reading of the body and the HTTP answer (server.py),      *)
(* Worker.run and _parse_stream (worker.py), classify (errors.py), execute   *)
(* and _note (runner.py), the job record (jobs.py), the client's exception   *)
(* (client.py) and the failures the daemon documents (apidocs.py).           *)
(*                                                                           *)
(* A request is a POST /generate or a POST /jobs; which one decides only how *)
(* its outcome is reported.  The pool (module Pool) is reduced to its answers. *)
(* An error message is its request's own, so `lastError` is a request.       *)
(* Message texts, durations and the completion itself are left out.          *)
EXTENDS Integers, Sequences, FiniteSets, SequencesExt

CONSTANTS
  Requests,
  NoError,
  MaxLines   \* bound: lines of output that are told apart

ASSUME GatewayAssumption == NoError \notin Requests /\ MaxLines \in Nat

VARIABLES
  phase,      \* where the request is: "denied" at the door, "told" after execute()
              \* has returned, "gone" when it was cancelled
  output,     \* the lines the worker printed
  outcome,    \* what execute() returns, or the reason of the denial
  lastError   \* pool._last_error

vars == <<phase, output, outcome, lastError>>

----------------------------------------------------------------------------
(* Lines of stream-json, reduced to what _parse_stream and classify read; a  *)
(* line that is no JSON or of another type is the one with no code.          *)

NoStatus == 0    \* api_error_status is null
Line(kind, code, status) == [kind |-> kind, code |-> code, status |-> status]

Lines ==
  {Line("other", code, NoStatus) : code \in {"", "authentication_failed", "api_error"}}
    \cup {Line("error", "", status) : status \in {NoStatus, 401, 429, 500}}
    \cup {Line("success", "", NoStatus)}

Outputs == UNION {[1..n -> Lines] : n \in 0..MaxLines}

NoResult == Line("none", "", NoStatus)

\* Mutant: the loop does not break at the result line.
ReadOn(read, line) ==
  [result |-> IF line.kind # "other" THEN line ELSE read.result,
   code |-> IF line.code # "" THEN line.code ELSE read.code]

\* One turn of the loop of _parse_stream, which breaks at the first result line.
ReadLine(read, line) ==
  IF read.result # NoResult THEN read
  ELSE [result |-> IF line.kind # "other" THEN line ELSE NoResult,
        code |-> IF line.code # "" THEN line.code ELSE read.code]

Parse(lines) == FoldLeft(ReadLine, [result |-> NoResult, code |-> ""], lines)

HasResult(lines) == Parse(lines).result # NoResult

----------------------------------------------------------------------------
(* errors.classify and the other failures *)

NoHint == 0
DefaultRetryAfter == 60

Failure(kind, status, retryable, retryAfter) ==
  [kind |-> kind, status |-> status, retryable |-> retryable, retryAfter |-> retryAfter]

WorkerFailed    == Failure("worker_failed", 502, FALSE, NoHint)
NotLoggedIn     == Failure("not_authenticated", 503, FALSE, NoHint)

\* Mutant: answered like the other failures a wait is good for.
RateLimited503  == Failure("rate_limited", 503, TRUE, DefaultRetryAfter)

RateLimited     == Failure("rate_limited", 429, TRUE, DefaultRetryAfter)
PoolUnavailable == Failure("pool_unavailable", 503, TRUE, NoHint)
TimedOut        == Failure("timeout", 504, TRUE, NoHint)
Success         == Failure("none", 200, FALSE, NoHint)
ForbiddenHost   == Failure("forbidden_host", 403, FALSE, NoHint)

\* The bodies of these two have no kind.
BadRequest      == Failure("", 400, FALSE, NoHint)
Unexpected      == Failure("", 500, FALSE, NoHint)

Pending         == Failure("pending", 0, FALSE, NoHint)

\* FAILURE_KINDS: what the daemon documents.
Entry(kind, status, retryable) == [kind |-> kind, status |-> status, retryable |-> retryable]

FailureKinds ==
  {Entry("pool_unavailable", 503, TRUE), Entry("rate_limited", 429, TRUE),
   Entry("timeout", 504, TRUE), Entry("not_authenticated", 503, FALSE),
   Entry("worker_failed", 502, FALSE), Entry("forbidden_host", 403, FALSE)}

\* Mutant: no return for what is neither a rate limit nor a login.
ClassifyKnown(status, code) ==
  IF status \in {429, 529} THEN RateLimited
  ELSE IF status \in {401, 403} \/ code = "authentication_failed" THEN NotLoggedIn
  ELSE Pending

Classify(status, code) ==
  IF status \in {429, 529} THEN RateLimited
  ELSE IF status \in {401, 403} \/ code = "authentication_failed" THEN NotLoggedIn
  ELSE WorkerFailed

\* run() and execute() on the output of a worker that ended by itself.
Verdict(lines) ==
  LET read == Parse(lines)
  IN  CASE read.result = NoResult -> WorkerFailed
        [] read.result.kind = "success" -> Success
        [] OTHER -> Classify(read.result.status, read.code)

----------------------------------------------------------------------------
(* The door *)

Hosts == {"loopback", "foreign"}

\* "malformed": no JSON, no object, no prompt or a timeout that is no number;
\* "unreadable": what request.json() or float() fails on in any other way.
Bodies == {"prompt", "malformed", "unreadable"}

Accepted(host, body) == host = "loopback" /\ body = "prompt"

\* The middleware looks at the host first.
Denial(host, body) ==
  IF host = "foreign" THEN ForbiddenHost
  ELSE IF body = "malformed" THEN BadRequest
  ELSE Unexpected

----------------------------------------------------------------------------
(* execute *)

Goto(r, p) == phase' = [phase EXCEPT ![r] = p]
Returns(r, o) == outcome' = [outcome EXCEPT ![r] = o]

\* Accepted at the door; a job's id is answered now, its record shows it running.
Submit(r) ==
  /\ phase[r] = "new"
  /\ Goto(r, "acquire")
  /\ UNCHANGED <<output, outcome, lastError>>

\* Turned away before execute(): no worker, no job, nothing noted.
Deny(r, host, body) ==
  /\ phase[r] = "new" /\ ~Accepted(host, body)
  /\ Goto(r, "denied") /\ Returns(r, Denial(host, body))
  /\ UNCHANGED <<output, lastError>>

Acquired(r) ==
  /\ phase[r] = "acquire"
  /\ Goto(r, "run")
  /\ UNCHANGED <<output, outcome, lastError>>

\* Reported without a release: there is no worker.
Refused(r) ==
  /\ phase[r] = "acquire"
  /\ Goto(r, "told") /\ Returns(r, PoolUnavailable)
  /\ lastError' = r
  /\ UNCHANGED output

\* Noted first, released second: `return _note(...)` is evaluated before the finally.
TimesOut(r) ==
  /\ phase[r] = "run"
  /\ Goto(r, "release") /\ Returns(r, TimedOut)
  /\ lastError' = r
  /\ UNCHANGED output

\* Without a result line run() raises WorkerError, noted like a timeout; with one
\* the outcome is noted after the release.
Prints(r, lines) ==
  /\ phase[r] = "run"
  /\ Goto(r, "release") /\ Returns(r, Verdict(lines))
  /\ output' = [output EXCEPT ![r] = lines]
  /\ lastError' = IF HasResult(lines) THEN lastError ELSE r

\* run() raises anything else, for example on a line that is JSON but no object.
Raises(r) ==
  /\ phase[r] = "run"
  /\ Goto(r, "release") /\ Returns(r, Unexpected)
  /\ UNCHANGED <<output, lastError>>

\* Mutant: only what run() raises is noted.
NotedSuccess(r) == lastError' = IF outcome[r] = Success THEN NoError ELSE lastError

\* _note after the release; what the first two except clauses return is noted by now.
Noted(r) ==
  lastError' = IF outcome[r] = Success THEN NoError
               ELSE IF HasResult(output[r]) THEN r
               ELSE lastError

Released(r) ==
  /\ phase[r] = "release"
  /\ Goto(r, "told")
  /\ Noted(r)
  /\ UNCHANGED <<output, outcome>>

\* A cancelled caller is told nothing, and nothing more is noted.
Cancelled(r) ==
  /\ phase[r] \in {"acquire", "run", "release"}
  /\ Goto(r, "gone")
  /\ UNCHANGED <<output, outcome, lastError>>

----------------------------------------------------------------------------
(* What the client raises *)

Raised(kind, retryable, retryAfter) ==
  [kind |-> kind, retryable |-> retryable, retryAfter |-> retryAfter]

\* _failure_response, and what answers a denied request; aiohttp answers an exception
\* with a page that is no JSON.
FailureResponse(o) ==
  [json |-> o # Unexpected, kind |-> o.kind, retryable |-> o.retryable,
   header |-> o.retryAfter]

\* _error_from: this daemon never puts the hint into the body of a response.
ErrorFrom(response) ==
  IF response.json /\ response.kind # ""
    THEN Raised(response.kind, response.retryable, response.header)
    ELSE Raised("unknown", FALSE, NoHint)

\* _run: an exception lands on the job.
JobFailure(o) == IF o = Unexpected THEN WorkerFailed ELSE o

\* Until the release is over, the job is running.
JobStatus(r) ==
  IF phase[r] = "gone" THEN "cancelled"
  ELSE IF phase[r] # "told" THEN "running"
  ELSE IF outcome[r] = Success THEN "succeeded" ELSE "failed"

\* Job.to_dict: only a failed job has the fields of its failure.
Record(r) ==
  IF JobStatus(r) # "failed"
    THEN [status |-> JobStatus(r), kind |-> "", retryable |-> FALSE, retryAfter |-> NoHint]
    ELSE LET o == JobFailure(outcome[r])
         IN  [status |-> "failed", kind |-> o.kind, retryable |-> o.retryable,
              retryAfter |-> o.retryAfter]

\* Mutant: the hint is looked for in a header, which a record does not have.
WaitErrorBare(job) ==
  Raised(IF job.kind = "" THEN job.status ELSE job.kind, job.retryable, NoHint)

\* wait() raises what the record says, the status in the place of a missing kind.
WaitError(job) ==
  Raised(IF job.kind = "" THEN job.status ELSE job.kind, job.retryable, job.retryAfter)

----------------------------------------------------------------------------
(* Specification *)

Init ==
  /\ phase = [r \in Requests |-> "new"]
  /\ output = [r \in Requests |-> <<>>]
  /\ outcome = [r \in Requests |-> Pending]
  /\ lastError = NoError

\* Nothing more to do: not a deadlock.
Finished ==
  /\ \A r \in Requests : phase[r] \in {"told", "denied", "gone"}
  /\ UNCHANGED vars

Next ==
  \/ \E r \in Requests :
       \/ Submit(r) \/ \E host \in Hosts, body \in Bodies : Deny(r, host, body)
       \/ Acquired(r) \/ Refused(r) \/ TimesOut(r) \/ Raises(r)
       \/ \E lines \in Outputs : Prints(r, lines)
       \/ Released(r) \/ Cancelled(r)
  \/ Finished

Spec == Init /\ [][Next]_vars

----------------------------------------------------------------------------
(* Properties *)

Outcomes ==
  {Success, WorkerFailed, NotLoggedIn, RateLimited, PoolUnavailable, TimedOut,
   ForbiddenHost, BadRequest, Unexpected}

\* Everything keeps its type, and whoever is past its run or was denied has an outcome.
TypeOK ==
  /\ phase \in [Requests -> {"new", "acquire", "run", "release", "told", "denied", "gone"}]
  /\ output \in [Requests -> Outputs]
  /\ outcome \in [Requests -> Outcomes \cup {Pending}]
  /\ lastError \in Requests \cup {NoError}
  /\ \A r \in Requests : phase[r] \in {"release", "told", "denied"} => outcome[r] \in Outcomes

Told(r) == phase[r] = "told"
AnsweredOverHttp(r) == phase[r] \in {"told", "denied"} /\ outcome[r] # Success

\* What the client raises about r, by generate() or submit() and by wait().
Errors(r) ==
  (IF AnsweredOverHttp(r) THEN {ErrorFrom(FailureResponse(outcome[r]))} ELSE {})
    \cup (IF JobStatus(r) \in {"failed", "cancelled"} THEN {WaitError(Record(r))} ELSE {})

\* The evidence of a rate limit: the first result line carries 429 or 529.
LimitedByApi(lines) ==
  \E i \in DOMAIN lines :
    /\ lines[i].kind = "error" /\ lines[i].status \in {429, 529}
    /\ \A j \in 1..(i - 1) : lines[j].kind = "other"

\* errors.py:3-6, README.md:298-303: "retryable" is told for what passes by itself - no
\* worker, a timeout, a rate limit - and for nothing else, whatever other lines and
\* codes the CLI printed, over HTTP and through a job; only a rate limit has a hint.
RetryIsHonest ==
  \A r \in Requests : \A error \in Errors(r) :
    LET limited == Told(r) /\ LimitedByApi(output[r])
    IN  /\ error.retryable <=> limited \/ (Told(r) /\ outcome[r] \in {PoolUnavailable, TimedOut})
        /\ error.retryAfter # NoHint <=> limited

\* client.py:152-153: wait() "fails the same way generate() does", for every failure
\* the daemon classifies: the hint arrives by header or by body.
SameErrorEitherWay ==
  \A r \in Requests : JobStatus(r) = "failed" /\ outcome[r] # Unexpected =>
    ErrorFrom(FailureResponse(outcome[r])) = WaitError(Record(r))

\* runner.py:38-39: /health explains a daemon that does not answer.  As long as nobody
\* has been told a success, a classified failure that was told is in last_error or has
\* been replaced by one whose run ended too; neither a cancelled caller nor one who was
\* denied leaves a gap or covers it.
HealthExplainsFailure ==
  (\E r \in Requests : Told(r) /\ outcome[r] \notin {Success, Unexpected})
    /\ (\A r \in Requests : ~(Told(r) /\ outcome[r] = Success))
  => /\ lastError # NoError /\ phase[lastError] # "denied"
     /\ outcome[lastError] \notin {Pending, Success, Unexpected}

\* apidocs.py:29-30: the documented failures mirror the classifier.  A failure that
\* names its kind, in a response or in a job's record, is documented with that retry
\* flag, and as a response with that status.
DocsListEveryFailure ==
  \A r \in Requests :
    /\ AnsweredOverHttp(r) /\ outcome[r].kind # "" =>
         Entry(outcome[r].kind, outcome[r].status, outcome[r].retryable) \in FailureKinds
    /\ JobStatus(r) = "failed" =>
         \E f \in FailureKinds : f.kind = Record(r).kind /\ f.retryable = Record(r).retryable
=============================================================================
