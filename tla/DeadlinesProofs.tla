-------------------------- MODULE DeadlinesProofs --------------------------
(* Which lengths make Deadlines safe, for all lengths and numbers of tries.  *)
EXTENDS Deadlines, TLAPS

\* A try that has not begun has no trace.
Fresh == \A t \in Tries :
  call[t] = "unmade" => run[t] = "none" /\ age[t] = 0 /\ spent[t] = 0

TypeInv == TypeOK /\ Fresh

\* A result is kept longer than it takes to poll again.
RetentionFits == PollInterval + Latency <= Retention

\* What a generate() has waited is accounted for by the daemon's stages.
AgeAccounted == \A t \in Tries : Blocked(t) =>
  /\ InDaemon(t)
  /\ run[t] = "acquire" => age[t] <= spent[t]
  /\ run[t] = "run" => age[t] <= AcquireTimeout + spent[t]
  /\ run[t] = "release" => age[t] <= AcquireTimeout + RunTimeout(way[t]) + spent[t]

\* The poller has looked before the deadline and will look again soon; a result it has
\* not seen is not older than its last look.
PollsInTime == \A t \in Tries : Polling(t) =>
  /\ nap[t] <= PollInterval + Latency
  /\ age[t] <= WaitTimeout + nap[t]
  /\ run[t] = "over" => spent[t] <= nap[t]

\* One try at a time is made; what goes on in the daemon without its caller is abandoned.
OneByOne ==
  /\ \A t, u \in Tries : t < u /\ call[u] # "unmade" => call[t] \notin {"unmade", "waiting"}
  /\ \A t \in Tries : InDaemon(t) /\ call[t] # "waiting" => Abandoned(t)

USE DEF Tries

LEMMA Lengths ==
  /\ AcquireTimeout \in Nat /\ LockTime \in Nat /\ ReleaseTime \in Nat /\ Grace \in Nat
  /\ PollInterval \in Nat /\ Latency \in Nat
  /\ WaitTimeout \in Nat /\ Retention \in Nat /\ MaxTries \in Nat
  BY DeadlinesAssumption

LEMMA RunLengths ==
  ASSUME NEW w \in Ways
  PROVE  RunTimeout(w) \in Nat /\ ClientTimeout(w) \in Nat
  BY DeadlinesAssumption DEF RunTimeout, ClientTimeout

LEMMA StageLengths ==
  ASSUME way \in [Tries -> Ways]
  PROVE  \A t \in Tries : Allowed(t) \in Nat
  BY Lengths, RunLengths DEF Allowed

LEMMA StageLengthsNext ==
  ASSUME way' \in [Tries -> Ways]
  PROVE  \A t \in Tries : Allowed(t)' \in Nat
  BY Lengths, RunLengths DEF Allowed

LEMMA TypeInit == Init => TypeInv
  BY DEF Init, TypeInv, TypeOK, Fresh, InDaemon, Ways

\* Every step keeps types and stage times.
LEMMA TypeStep == TypeInv /\ [Next]_vars => TypeInv'
  <1> SUFFICES ASSUME TypeInv, [Next]_vars PROVE TypeInv'
    OBVIOUS
  <1> USE DEF TypeInv, TypeOK, Fresh, InDaemon
  <1>1. ASSUME NEW t \in Tries, NEW w \in Ways, Begin(t, w) PROVE TypeInv'
    <2>1. way' \in [Tries -> Ways]
      BY <1>1 DEF Begin
    <2>2. \A u \in Tries : u # t => Allowed(u)' = Allowed(u)
      BY <1>1 DEF Begin, Allowed
    <2>3. \A u \in Tries : Allowed(u)' \in Nat
      BY <2>1, StageLengthsNext
    <2>4. /\ call' \in [Tries -> {"unmade", "waiting", "answered", "broke", "gave_up", "lost"}]
          /\ run' \in [Tries -> {"none", "acquire", "run", "release", "over", "gone"}]
          /\ UNCHANGED <<age, spent>>
          /\ call[t] = "unmade" /\ call'[t] = "waiting"
          /\ \A u \in Tries : u # t => call'[u] = call[u] /\ run'[u] = run[u]
      BY <1>1 DEF Begin
    <2>5. nap' \in [Tries -> Nat]
      BY <1>1, Lengths DEF Begin
    <2>6. \A u \in Tries : InDaemon(u)' => spent'[u] <= Allowed(u)'
      <3>1. spent[t] = 0
        BY <2>4
      <3> QED
        BY <2>2, <2>3, <2>4, <3>1
    <2>7. Fresh'
      BY <2>4
    <2> QED
      BY <2>1, <2>4, <2>5, <2>6, <2>7
  <1>2. ASSUME NEW t \in Tries, Breaks(t) \/ Poll(t) \/ Reaped(t) PROVE TypeInv'
    <2>1. /\ call' \in [Tries -> {"unmade", "waiting", "answered", "broke", "gave_up", "lost"}]
          /\ \A u \in Tries : call'[u] = "unmade" => call[u] = "unmade"
      <3>1. CASE Breaks(t)
        BY <3>1 DEF Breaks
      <3>2. CASE Poll(t)
        BY <3>2 DEF Poll, Blocked, Polling
      <3>3. CASE Reaped(t)
        BY <3>3 DEF Reaped
      <3> QED
        BY <1>2, <3>1, <3>2, <3>3
    <2>2. /\ run' \in [Tries -> {"none", "acquire", "run", "release", "over", "gone"}]
          /\ \A u \in Tries : InDaemon(u)' => InDaemon(u) /\ Allowed(u)' = Allowed(u)
          /\ \A u \in Tries : run[u] = "none" => run'[u] = "none"
      BY <1>2 DEF Breaks, Poll, Reaped, Allowed
    <2>3. nap' \in [Tries -> Nat] /\ UNCHANGED <<way, age, spent>>
      BY <1>2 DEF Breaks, Poll, Reaped
    <2> QED
      BY <2>1, <2>2, <2>3
  <1>3. ASSUME NEW t \in Tries, Acquired(t) \/ RunEnds(t) PROVE TypeInv'
    <2>1. PICK stage \in {"run", "release"} :
            /\ run' = [run EXCEPT ![t] = stage] /\ spent' = [spent EXCEPT ![t] = 0]
            /\ run[t] \in {"acquire", "run"}
            /\ UNCHANGED <<way, call, age, nap>>
      BY <1>3 DEF Acquired, RunEnds, Enters
    <2>2. run' \in [Tries -> {"none", "acquire", "run", "release", "over", "gone"}]
      BY <2>1
    <2>3. spent' \in [Tries -> Nat]
      BY <2>1
    <2>4. \A u \in Tries : InDaemon(u)' => spent'[u] <= Allowed(u)'
      <3>1. \A u \in Tries : Allowed(u)' \in Nat /\ (u # t => Allowed(u)' = Allowed(u))
        BY <2>1, StageLengthsNext DEF Allowed
      <3> QED
        BY <2>1, <3>1
    <2>5. Fresh'
      BY <2>1
    <2> QED
      BY <2>1, <2>2, <2>3, <2>4, <2>5
  <1>4. ASSUME NEW t \in Tries, Refused(t) \/ Released(t) PROVE TypeInv'
    <2>1. Ends(t) /\ run[t] \in {"acquire", "release"} /\ UNCHANGED <<way, age, nap>>
      BY <1>4 DEF Refused, Released
    <2>2. /\ call' \in [Tries -> {"unmade", "waiting", "answered", "broke", "gave_up", "lost"}]
          /\ \A u \in Tries : call'[u] = "unmade" => call[u] = "unmade"
      BY <2>1 DEF Ends, Blocked, Polling
    <2>3. /\ run' \in [Tries -> {"none", "acquire", "run", "release", "over", "gone"}]
          /\ spent' \in [Tries -> Nat]
      BY <2>1 DEF Ends, Enters
    <2>4. \A u \in Tries : u # t => run'[u] = run[u] /\ spent'[u] = spent[u]
      BY <2>1 DEF Ends, Enters
    <2>5. run'[t] = "over"
      BY <2>1 DEF Ends, Enters
    <2>6. call[t] # "unmade"
      BY <2>1
    <2>7. Fresh'
      BY <2>1, <2>2, <2>4, <2>6
    <2>8. \A u \in Tries : u # t => (Allowed(u)' = Allowed(u))
      BY <2>1, <2>4 DEF Allowed
    <2> QED
      BY <2>1, <2>2, <2>3, <2>4, <2>5, <2>7, <2>8
  <1>5. CASE Tick
    <2>1. age' \in [Tries -> Nat] /\ nap' \in [Tries -> Nat] /\ spent' \in [Tries -> Nat]
      <3>1. age' \in [Tries -> Nat]
        BY <1>5 DEF Tick
      <3>2. nap' \in [Tries -> Nat]
        BY <1>5 DEF Tick
      <3>3. spent' \in [Tries -> Nat]
        BY <1>5 DEF Tick
      <3> QED
        BY <3>1, <3>2, <3>3
    <2>2. UNCHANGED <<way, call, run>>
      BY <1>5 DEF Tick
    <2>3. ASSUME NEW u \in Tries
          PROVE  /\ InDaemon(u) => spent[u] < Allowed(u) /\ spent'[u] = spent[u] + 1
                 /\ call[u] = "unmade" => age'[u] = age[u] /\ spent'[u] = spent[u]
      BY <1>5 DEF Tick, MayPass
    <2>4. \A u \in Tries : Allowed(u) \in Nat /\ Allowed(u)' = Allowed(u)
      BY <2>2, StageLengths DEF Allowed
    <2>5. \A u \in Tries : InDaemon(u)' => spent'[u] <= Allowed(u)'
      BY <2>1, <2>2, <2>3, <2>4
    <2> QED
      BY <2>1, <2>2, <2>3, <2>5
  <1>6. CASE Finished \/ UNCHANGED vars
    BY <1>6 DEF Finished, vars, Allowed
  <1> QED
    BY <1>1, <1>2, <1>3, <1>4, <1>5, <1>6 DEF Next, Step

\* Whatever the lengths, nothing in the daemon exceeds its time.
THEOREM TypeCorrect == Spec => []TypeOK
  <1>1. Spec => []TypeInv
    BY TypeInit, TypeStep, PTL DEF Spec
  <1> QED
    BY <1>1, PTL DEF TypeInv

----------------------------------------------------------------------------
(* What one step does, try by try *)

\* Tick, seen from one try.
Passes(t) ==
  /\ UNCHANGED <<way, call, run>>
  /\ MayPass(t)
  /\ call[t] = "waiting" => age'[t] = age[t] + 1 /\ nap'[t] = nap[t] + 1
  /\ call[t] # "waiting" => age'[t] = age[t] /\ nap'[t] = nap[t]
  /\ InDaemon(t) => spent'[t] = spent[t] + 1
  /\ run[t] = "over" => spent'[t] \in {spent[t], spent[t] + 1}

\* Another try's step.
Rests(t) ==
  /\ way'[t] = way[t] /\ call'[t] = call[t] /\ run'[t] = run[t]
  /\ age'[t] = age[t] /\ spent'[t] = spent[t] /\ nap'[t] = nap[t]

LEMMA TickPasses ==
  ASSUME TypeInv, Tick, NEW t \in Tries
  PROVE  Passes(t)
  BY DEF TypeInv, TypeOK, Tick, Passes

LEMMA OthersRest ==
  ASSUME TypeInv, NEW t \in Tries, Step(t), NEW u \in Tries, u # t
  PROVE  Rests(u)
  <1> USE DEF TypeInv, TypeOK
  <1>1. CASE \E w \in Ways : Begin(t, w)
    BY <1>1 DEF Begin, Rests
  <1>2. CASE Breaks(t) \/ Poll(t) \/ Reaped(t)
    BY <1>2 DEF Breaks, Poll, Reaped, Rests
  <1>3. CASE Acquired(t) \/ RunEnds(t)
    BY <1>3 DEF Acquired, RunEnds, Enters, Rests
  <1>4. CASE Refused(t) \/ Released(t)
    BY <1>4 DEF Refused, Released, Ends, Enters, Rests
  <1> QED
    BY <1>1, <1>2, <1>3, <1>4 DEF Step

----------------------------------------------------------------------------
(* generate() hears the daemon *)

LEMMA AgeStep ==
  ASSUME TypeInv, TypeInv', AgeAccounted, [Next]_vars
  PROVE  AgeAccounted'
  <1> USE Lengths DEF AgeAccounted, Blocked, Polling, InDaemon
  <1>1. ASSUME NEW t \in Tries, Step(t) PROVE AgeAccounted'
    <2>1. ASSUME NEW u \in Tries, u # t, Blocked(u)'
          PROVE  /\ InDaemon(u)'
                 /\ run'[u] = "acquire" => age'[u] <= spent'[u]
                 /\ run'[u] = "run" => age'[u] <= AcquireTimeout + spent'[u]
                 /\ run'[u] = "release" => age'[u] <= AcquireTimeout + RunTimeout(way'[u]) + spent'[u]
      BY <1>1, <2>1, OthersRest DEF Rests
    <2>2. ASSUME Blocked(t)'
          PROVE  /\ InDaemon(t)'
                 /\ run'[t] = "acquire" => age'[t] <= spent'[t]
                 /\ run'[t] = "run" => age'[t] <= AcquireTimeout + spent'[t]
                 /\ run'[t] = "release" => age'[t] <= AcquireTimeout + RunTimeout(way'[t]) + spent'[t]
      <3> USE <2>2 DEF TypeInv, TypeOK, Allowed
      <3>1. CASE \E w \in Ways : Begin(t, w)
        BY <3>1 DEF Begin, Fresh
      <3>2. CASE Breaks(t) \/ Poll(t) \/ Reaped(t)
        BY <3>2 DEF Breaks, Poll, Reaped
      <3>3. CASE Acquired(t)
        BY <3>3 DEF Acquired, Enters
      <3>4. CASE RunEnds(t)
        <4>1. RunTimeout(way[t]) \in Nat
          BY RunLengths
        <4>2. /\ way' = way /\ age' = age /\ call' = call
              /\ run[t] = "run" /\ run'[t] = "release" /\ spent'[t] = 0
          BY <3>4 DEF RunEnds, Enters
        <4>3. age[t] <= AcquireTimeout + spent[t] /\ spent[t] <= RunTimeout(way[t])
          BY <4>2
        <4> QED
          BY <4>1, <4>2, <4>3
      <3>5. CASE Refused(t) \/ Released(t)
        BY <3>5 DEF Refused, Released, Ends
      <3> QED
        BY <1>1, <3>1, <3>2, <3>3, <3>4, <3>5 DEF Step
    <2> QED
      BY <2>1, <2>2
  <1>2. CASE Tick
    <2>1. ASSUME NEW u \in Tries, Blocked(u)'
          PROVE  /\ InDaemon(u)'
                 /\ run'[u] = "acquire" => age'[u] <= spent'[u]
                 /\ run'[u] = "run" => age'[u] <= AcquireTimeout + spent'[u]
                 /\ run'[u] = "release" => age'[u] <= AcquireTimeout + RunTimeout(way'[u]) + spent'[u]
      <3>1. Passes(u) /\ Blocked(u)
        BY <1>2, <2>1, TickPasses DEF Passes
      <3>2. /\ age'[u] = age[u] + 1 /\ spent'[u] = spent[u] + 1 /\ run'[u] = run[u]
            /\ age[u] \in Nat /\ spent[u] \in Nat /\ way'[u] = way[u] /\ way[u] \in Ways
        BY <3>1 DEF Passes, TypeInv, TypeOK
      <3>3. RunTimeout(way[u]) \in Nat
        BY <3>2, RunLengths
      <3> QED
        BY <3>1, <3>2, <3>3
    <2> QED
      BY <2>1
  <1>3. CASE Finished \/ UNCHANGED vars
    BY <1>3 DEF Finished, vars
  <1> QED
    BY <1>1, <1>2, <1>3 DEF Next

LEMMA HeardStep ==
  ASSUME TypeInv, AgeAccounted, HeardIfGraceFits, [Next]_vars
  PROVE  HeardIfGraceFits'
  <1> USE Lengths DEF HeardIfGraceFits
  <1>1. ASSUME NEW t \in Tries, Step(t) PROVE HeardIfGraceFits'
    <2>1. \A u \in Tries : u # t => call'[u] = call[u] /\ way'[u] = way[u]
      BY <1>1, OthersRest DEF Rests
    <2>2. CASE Breaks(t)
      <3>1. /\ call'[t] = "broke" /\ way' = way
            /\ Blocked(t) /\ age[t] >= RequestTimeout(way[t])
        BY <2>2 DEF Breaks, TypeInv, TypeOK
      <3>2. /\ age[t] \in Nat /\ spent[t] \in Nat /\ way[t] \in Ways
            /\ InDaemon(t) /\ spent[t] <= Allowed(t)
        BY <3>1 DEF TypeInv, TypeOK, AgeAccounted
      <3>3. RunTimeout(way[t]) \in Nat /\ ClientTimeout(way[t]) \in Nat
        BY <3>2, RunLengths
      <3>4. \/ age[t] <= AcquireTimeout + LockTime
            \/ age[t] <= AcquireTimeout + RunTimeout(way[t]) + ReleaseTime
        <4>1. CASE run[t] = "acquire"
          BY <3>1, <3>2, <3>3, <4>1 DEF AgeAccounted, Allowed
        <4>2. CASE run[t] = "run"
          BY <3>1, <3>2, <3>3, <4>2 DEF AgeAccounted, Allowed
        <4>3. CASE run[t] = "release"
          BY <3>1, <3>2, <3>3, <4>3 DEF AgeAccounted, Allowed
        <4> QED
          BY <3>2, <4>1, <4>2, <4>3 DEF InDaemon
      <3>5. ~GraceFits(way[t])
        BY <3>1, <3>2, <3>3, <3>4 DEF GraceFits, RequestTimeout
      <3> QED
        BY <2>1, <3>1, <3>5
    <2>3. CASE ~Breaks(t)
      <3> USE DEF TypeInv, TypeOK
      <3>1. CASE \E w \in Ways : Begin(t, w)
        BY <2>1, <3>1 DEF Begin
      <3>2. CASE Poll(t)
        BY <2>1, <3>2 DEF Poll
      <3>3. CASE Reaped(t) \/ Acquired(t) \/ RunEnds(t)
        BY <2>1, <3>3 DEF Reaped, Acquired, RunEnds
      <3>4. CASE Refused(t) \/ Released(t)
        BY <2>1, <3>4 DEF Refused, Released, Ends
      <3> QED
        BY <1>1, <2>3, <3>1, <3>2, <3>3, <3>4 DEF Step
    <2> QED
      BY <2>2, <2>3
  <1>2. CASE Tick \/ Finished \/ UNCHANGED vars
    BY <1>2 DEF Tick, Finished, vars
  <1> QED
    BY <1>1, <1>2 DEF Next

\* Whatever the lengths, a call breaks only where the grace does not cover the wait for a
\* worker, the run and the release.
THEOREM GraceCoversTheDaemon == Spec => []HeardIfGraceFits
  <1>1. Init => TypeInv /\ AgeAccounted /\ HeardIfGraceFits
    BY TypeInit DEF Init, AgeAccounted, HeardIfGraceFits, Blocked, Polling
  <1>2. TypeInv /\ AgeAccounted /\ HeardIfGraceFits /\ [Next]_vars
        => (TypeInv /\ AgeAccounted /\ HeardIfGraceFits)'
    BY TypeStep, AgeStep, HeardStep
  <1> QED
    BY <1>1, <1>2, PTL DEF Spec

\* So the comment at client.py:116 is true of every call for a grace that fits.
THEOREM GraceMakesTheCommentTrue ==
  ASSUME \A w \in Ways : GraceFits(w)
  PROVE  Spec => []HearsTheDaemon
  <1>1. TypeOK /\ HeardIfGraceFits => HearsTheDaemon
    BY DEF TypeOK, HeardIfGraceFits, HearsTheDaemon
  <1> QED
    BY <1>1, TypeCorrect, GraceCoversTheDaemon, PTL

----------------------------------------------------------------------------
(* wait() *)

LEMMA PollsStep ==
  ASSUME TypeInv, TypeInv', PollsInTime, [Next]_vars
  PROVE  PollsInTime'
  <1> USE Lengths DEF PollsInTime, Blocked, Polling
  <1>1. ASSUME NEW t \in Tries, Step(t) PROVE PollsInTime'
    <2>1. ASSUME NEW u \in Tries, u # t, Polling(u)'
          PROVE  /\ nap'[u] <= PollInterval + Latency
                 /\ age'[u] <= WaitTimeout + nap'[u]
                 /\ run'[u] = "over" => spent'[u] <= nap'[u]
      BY <1>1, <2>1, OthersRest DEF Rests
    <2>2. ASSUME Polling(t)'
          PROVE  /\ nap'[t] <= PollInterval + Latency
                 /\ age'[t] <= WaitTimeout + nap'[t]
                 /\ run'[t] = "over" => spent'[t] <= nap'[t]
      <3> USE <2>2 DEF TypeInv, TypeOK
      <3>1. CASE \E w \in Ways : Begin(t, w)
        BY <3>1 DEF Begin, Fresh
      <3>2. CASE Breaks(t) \/ Reaped(t)
        BY <3>2 DEF Breaks, Reaped
      <3>3. CASE Poll(t)
        BY <3>3 DEF Poll, Overdue
      <3>4. CASE Acquired(t) \/ RunEnds(t)
        BY <3>4 DEF Acquired, RunEnds, Enters
      <3>5. CASE Refused(t) \/ Released(t)
        BY <3>5 DEF Refused, Released, Ends, Enters
      <3> QED
        BY <1>1, <3>1, <3>2, <3>3, <3>4, <3>5 DEF Step
    <2> QED
      BY <2>1, <2>2
  <1>2. CASE Tick
    <2>1. ASSUME NEW u \in Tries, Polling(u)'
          PROVE  /\ nap'[u] <= PollInterval + Latency
                 /\ age'[u] <= WaitTimeout + nap'[u]
                 /\ run'[u] = "over" => spent'[u] <= nap'[u]
      <3>1. Passes(u) /\ Polling(u)
        BY <1>2, <2>1, TickPasses DEF Passes
      <3>2. /\ age'[u] = age[u] + 1 /\ nap'[u] = nap[u] + 1 /\ nap[u] < PollInterval + Latency
            /\ run'[u] = run[u] /\ (run[u] = "over" => spent'[u] \in {spent[u], spent[u] + 1})
            /\ age[u] \in Nat /\ nap[u] \in Nat /\ spent[u] \in Nat
        BY <3>1 DEF Passes, MayPass, TypeInv, TypeOK
      <3> QED
        BY <3>1, <3>2
    <2> QED
      BY <2>1
  <1>3. CASE Finished \/ UNCHANGED vars
    BY <1>3 DEF Finished, vars
  <1> QED
    BY <1>1, <1>2, <1>3 DEF Next

LEMMA WaitStep ==
  ASSUME TypeInv, TypeInv', PollsInTime, PollsInTime', WaitEndsInTime, [Next]_vars
  PROVE  WaitEndsInTime'
  <1> USE Lengths DEF WaitEndsInTime
  <1>1. ASSUME NEW u \in Tries, way'[u] = "job", call'[u] # "waiting"
        PROVE  age'[u] <= WaitTimeout + PollInterval + Latency
    <2>1. ASSUME NEW t \in Tries, Step(t) PROVE age'[u] = age[u] /\ way'[u] = way[u]
      <3>1. CASE u = t
        BY <1>1, <2>1, <3>1 DEF Step, Begin, Breaks, Poll, Acquired, Refused, RunEnds,
                                Released, Reaped, TypeInv, TypeOK
      <3>2. CASE u # t
        BY <2>1, <3>2, OthersRest DEF Rests
      <3> QED
        BY <3>1, <3>2
    <2>2. CASE Tick
      BY <1>1, <2>2, TickPasses DEF Passes
    <2>3. CASE Finished \/ UNCHANGED vars
      BY <1>1, <2>3 DEF Finished, vars
    <2> QED
      BY <1>1, <2>1, <2>2, <2>3 DEF Next
  <1>2. ASSUME NEW u \in Tries, way'[u] = "job", call'[u] = "waiting"
        PROVE  age'[u] <= WaitTimeout + PollInterval + Latency
    BY <1>2 DEF PollsInTime, Blocked, Polling, TypeInv, TypeOK
  <1> QED
    BY <1>1, <1>2

LEMMA PollsInvariant == Spec => [](TypeInv /\ PollsInTime /\ WaitEndsInTime)
  <1>1. Init => TypeInv /\ PollsInTime /\ WaitEndsInTime
    BY TypeInit DEF Init, PollsInTime, WaitEndsInTime, Blocked, Polling
  <1>2. TypeInv /\ PollsInTime /\ WaitEndsInTime /\ [Next]_vars
        => (TypeInv /\ PollsInTime /\ WaitEndsInTime)'
    BY TypeStep, PollsStep, WaitStep
  <1> QED
    BY <1>1, <1>2, PTL DEF Spec

\* wait() is late by one poll at most, whatever the lengths.
THEOREM WaitsEndInTime == Spec => []WaitEndsInTime
  BY PollsInvariant, PTL

\* The job of a wait() is not reaped, and none was.
Collected ==
  ResultIsCollected /\ \A t \in Tries : Polling(t) => run[t] # "gone"

LEMMA CollectedStep ==
  ASSUME RetentionFits, TypeInv, PollsInTime, Collected, [Next]_vars
  PROVE  Collected'
  <1> USE Lengths DEF Collected, ResultIsCollected, Blocked, Polling
  <1>1. ASSUME NEW t \in Tries, Step(t) PROVE Collected'
    <2>1. \A u \in Tries : u # t => call'[u] = call[u] /\ run'[u] = run[u] /\ way'[u] = way[u]
      BY <1>1, OthersRest DEF Rests
    <2>2. call'[t] # "lost" /\ (Polling(t)' => run'[t] # "gone")
      <3> USE DEF TypeInv, TypeOK
      <3>1. CASE \E w \in Ways : Begin(t, w)
        BY <3>1 DEF Begin
      <3>2. CASE Breaks(t)
        BY <3>2 DEF Breaks
      <3>3. CASE Poll(t)
        BY <3>3 DEF Poll
      <3>4. CASE Acquired(t) \/ RunEnds(t)
        BY <3>4 DEF Acquired, RunEnds, Enters
      <3>5. CASE Refused(t) \/ Released(t)
        BY <3>5 DEF Refused, Released, Ends, Enters
      <3>6. CASE Reaped(t)
        <4>1. ~Polling(t)
          BY <3>6 DEF Reaped, Expired, PollsInTime, RetentionFits
        <4> QED
          BY <3>6, <4>1 DEF Reaped
      <3> QED
        BY <1>1, <3>1, <3>2, <3>3, <3>4, <3>5, <3>6 DEF Step
    <2> QED
      BY <2>1, <2>2
  <1>2. CASE Tick \/ Finished \/ UNCHANGED vars
    BY <1>2 DEF Tick, Finished, vars
  <1> QED
    BY <1>1, <1>2 DEF Next

\* A retention that is longer than a poll takes keeps every result for its caller.
THEOREM ResultsAreCollected ==
  ASSUME RetentionFits
  PROVE  Spec => []ResultIsCollected
  <1>1. Init => Collected
    BY DEF Init, Collected, ResultIsCollected, Blocked, Polling
  <1>2. TypeInv /\ PollsInTime /\ Collected /\ [Next]_vars => Collected'
    BY RetentionFits, CollectedStep
  <1>3. Collected => ResultIsCollected
    BY DEF Collected
  <1> QED
    BY <1>1, <1>2, <1>3, PollsInvariant, PTL DEF Spec

----------------------------------------------------------------------------
(* Trying again *)

LEMMA OneByOneStep ==
  ASSUME TypeInv, OneByOne, HeardIfGraceFits', [Next]_vars
  PROVE  OneByOne'
  <1> USE DEF OneByOne, InDaemon, Blocked, Polling, Abandoned
  <1>1. ASSUME NEW t \in Tries, NEW w \in Ways, Begin(t, w) PROVE OneByOne'
    <2>1. /\ call'[t] = "waiting" /\ run'[t] = "acquire"
          /\ \A u \in Tries : u < t => call[u] \notin {"unmade", "waiting"}
          /\ \A u \in Tries : u # t => call'[u] = call[u] /\ run'[u] = run[u] /\ way'[u] = way[u]
          /\ call[t] = "unmade"
      BY <1>1 DEF Begin, TypeInv, TypeOK
    <2> QED
      BY <2>1, Lengths
  <1>2. ASSUME NEW t \in Tries, Step(t), \A w \in Ways : ~Begin(t, w)
        PROVE  OneByOne'
    <2>1. \A u \in Tries : u # t => call'[u] = call[u] /\ run'[u] = run[u] /\ way'[u] = way[u]
      BY <1>2, OthersRest DEF Rests
    <2>2. /\ call'[t] = "waiting" => call[t] = "waiting"
          /\ call[t] # "unmade" /\ call'[t] # "unmade"
          /\ InDaemon(t)' /\ call'[t] # "waiting" => Abandoned(t)'
      <3> USE DEF TypeInv, TypeOK
      <3>1. CASE Breaks(t)
        BY <3>1 DEF Breaks, HeardIfGraceFits
      <3>2. CASE Poll(t)
        BY <3>2 DEF Poll
      <3>3. CASE Acquired(t) \/ RunEnds(t)
        BY <3>3 DEF Acquired, RunEnds, Enters, Fresh
      <3>4. CASE Refused(t) \/ Released(t)
        BY <3>4 DEF Refused, Released, Ends, Enters, Fresh
      <3>5. CASE Reaped(t)
        BY <3>5 DEF Reaped, Fresh
      <3> QED
        BY <1>2, <3>1, <3>2, <3>3, <3>4, <3>5 DEF Step
    <2>3. \A u \in Tries : call'[u] # "unmade" => call[u] # "unmade"
      BY <2>1, <2>2
    <2>4. \A u \in Tries : call[u] \notin {"unmade", "waiting"} => call'[u] \notin {"unmade", "waiting"}
      BY <2>1, <2>2
    <2> QED
      BY <2>1, <2>2, <2>3, <2>4
  <1>3. CASE Tick \/ Finished \/ UNCHANGED vars
    BY <1>3 DEF Tick, Finished, vars
  <1> QED
    BY <1>1, <1>2, <1>3 DEF Next

\* Whatever the lengths, a caller that tries again has two prompts at work only if it has
\* abandoned one of them.
THEOREM RetriesRunAlone == Spec => []RetryRunsAlone
  <1>1. Init => OneByOne
    BY DEF Init, OneByOne, InDaemon
  <1>2. Spec => []TypeInv
    BY TypeInit, TypeStep, PTL DEF Spec
  <1>3. TypeInv /\ OneByOne /\ HeardIfGraceFits' /\ [Next]_vars => OneByOne'
    BY OneByOneStep
  <1>4. TypeInv /\ OneByOne => RetryRunsAlone
    <2> SUFFICES ASSUME TypeInv, OneByOne, NEW t \in Tries, NEW u \in Tries, t < u,
                        Working(t), Working(u)
                 PROVE  Abandoned(t)
      BY Lengths DEF RetryRunsAlone
    <2>1. call[u] # "unmade"
      BY DEF TypeInv, Fresh, Working
    <2>2. call[t] # "waiting"
      BY <2>1 DEF OneByOne
    <2> QED
      BY <2>2 DEF OneByOne, Working, InDaemon
  <1> QED
    BY <1>1, <1>2, <1>3, <1>4, GraceCoversTheDaemon, PTL DEF Spec
=============================================================================
