---------------------------- MODULE Deadlines ----------------------------
(* The timeouts that have to fit each other: generate()'s socket timeout and *)
(* wait()'s polling (src/claude_pool/client.py) against the daemon's waits   *)
(* for a worker, a run and a release (pool.py, worker.py, runner.py) and the *)
(* retention of finished jobs (jobs.py).                                     *)
(*                                                                           *)
(* One caller tries the same prompt several times, each time by generate(),  *)
(* with or without a timeout, or by submit() and wait().  Time passes in     *)
(* Tick, which waits for whatever is due.  aiohttp does not cancel a handler *)
(* whose client has gone, so the daemon's side of a try goes on without its  *)
(* caller.                                                                   *)
EXTENDS Integers

CONSTANTS
  MaxTries,        \* bound: tries of the caller
  AcquireTimeout,  \* config.acquire_timeout_sec
  LockTime,        \* bound: until a waiter that timed out has the pool's lock back
  TimeoutSec,      \* a timeout_sec that is passed, which both sides know
  DefaultTimeout,  \* config.default_timeout_sec, the daemon's when none is passed
  ClientDefault,   \* 120, the client's when none is passed
  ReleaseTime,     \* bound: kill, lock and replacement spawn of one release
  Grace,           \* the five seconds generate() adds
  PollInterval,    \* wait()'s poll_interval_sec
  Latency,         \* bound: from a poll being due to its answer
  WaitTimeout,     \* wait()'s timeout_sec
  Retention        \* config.job_retention_sec

ASSUME DeadlinesAssumption ==
  {MaxTries, AcquireTimeout, LockTime, TimeoutSec, DefaultTimeout, ClientDefault,
   ReleaseTime, Grace, PollInterval, Latency, WaitTimeout, Retention} \subseteq Nat

VARIABLES
  way,    \* how a try is made
  call,   \* the caller's side of it
  run,    \* the daemon's side; "gone" once the job has been reaped
  age,    \* since the call began
  spent,  \* since the daemon's side entered its stage
  nap     \* since the last poll

vars == <<way, call, run, age, spent, nap>>

Tries == 1..MaxTries

\* generate() with a timeout, generate() without, submit() and wait().
Ways == {"timed", "default", "job"}

Blocked(t) == call[t] = "waiting" /\ way[t] # "job"
Polling(t) == call[t] = "waiting" /\ way[t] = "job"

----------------------------------------------------------------------------
(* The caller *)

\* timeout_sec or 120.0, where 0 is no timeout either.
ClientTimeout(w) == IF w = "default" \/ TimeoutSec = 0 THEN ClientDefault ELSE TimeoutSec

\* Mutant: the socket timeout is the run's own.
RequestTimeoutBare(w) == ClientTimeout(w)

\* generate(): "outlive the daemon's own timeout".
RequestTimeout(w) == ClientTimeout(w) + Grace

\* A try begins when the one before has been given up or answered, perhaps with a
\* failure that may be retried.  wait() polls at once.
Begin(t, w) ==
  /\ call[t] = "unmade"
  /\ \A u \in Tries : u < t => call[u] \notin {"unmade", "waiting"}
  /\ way' = [way EXCEPT ![t] = w]
  /\ call' = [call EXCEPT ![t] = "waiting"]
  /\ run' = [run EXCEPT ![t] = "acquire"]
  /\ nap' = [nap EXCEPT ![t] = PollInterval]
  /\ UNCHANGED <<age, spent>>

\* The socket timeout of generate(): a TimeoutError, not a ClaudePoolError.
Breaks(t) ==
  /\ Blocked(t) /\ age[t] >= RequestTimeout(way[t])
  /\ call' = [call EXCEPT ![t] = "broke"]
  /\ UNCHANGED <<way, run, age, spent, nap>>

\* Mutant: the deadline is forgotten.
DeadlineNever(t) == FALSE

Overdue(t) == age[t] >= WaitTimeout

\* One turn of wait()'s loop: read the job, then look at the clock, then sleep.
Poll(t) ==
  /\ Polling(t) /\ nap[t] >= PollInterval
  /\ call' = [call EXCEPT ![t] =
                CASE run[t] = "over" -> "answered"
                  [] run[t] = "gone" -> "lost"
                  [] OTHER -> IF Overdue(t) THEN "gave_up" ELSE "waiting"]
  /\ nap' = [nap EXCEPT ![t] = 0]
  /\ UNCHANGED <<way, run, age, spent>>

----------------------------------------------------------------------------
(* The daemon *)

Enters(t, stage) ==
  /\ run' = [run EXCEPT ![t] = stage]
  /\ spent' = [spent EXCEPT ![t] = 0]

\* The end of the daemon's side, which a generate() that still waits hears of.
Ends(t) ==
  /\ Enters(t, "over")
  /\ call' = [call EXCEPT ![t] = IF Blocked(t) THEN "answered" ELSE @]

\* Not after the timeout: a wait that is being cancelled gets no worker any more.
Acquired(t) ==
  /\ run[t] = "acquire" /\ spent[t] <= AcquireTimeout
  /\ Enters(t, "run")
  /\ UNCHANGED <<way, call, age, nap>>

\* acquire() timed out, and wait() had to get the lock back, which may be held across a
\* spawn; or the pool has given up before.
Refused(t) ==
  /\ run[t] = "acquire"
  /\ Ends(t)
  /\ UNCHANGED <<way, age, nap>>

\* Mutant: the release is not awaited.
RunEndsAnswered(t) ==
  /\ run[t] = "run"
  /\ Enters(t, "release")
  /\ call' = [call EXCEPT ![t] = IF Blocked(t) THEN "answered" ELSE @]
  /\ UNCHANGED <<way, age, nap>>

\* The run is over or its time is.
RunEnds(t) ==
  /\ run[t] = "run"
  /\ Enters(t, "release")
  /\ UNCHANGED <<way, call, age, nap>>

\* The worker is dead and counted out: the outcome is returned.
Released(t) ==
  /\ run[t] = "release"
  /\ Ends(t)
  /\ UNCHANGED <<way, age, nap>>

\* Mutant: a job is kept from its submission on.
ExpiredByAge(t) == age[t] > Retention

\* _reap: strictly older than the retention.
Expired(t) == spent[t] > Retention

\* Somebody submits or lists, which drops what has expired.  That the same function
\* drops the oldest results beyond max_jobs is left out: it depends on other callers
\* (module JobStore has it), not on a length.
Reaped(t) ==
  /\ way[t] = "job" /\ run[t] = "over" /\ Expired(t)
  /\ run' = [run EXCEPT ![t] = "gone"]
  /\ UNCHANGED <<way, call, age, spent, nap>>

----------------------------------------------------------------------------
(* Time *)

\* _read_prompt_request: the run's timeout.
RunTimeout(w) == IF w = "default" THEN DefaultTimeout ELSE TimeoutSec

\* How long the daemon's side may stay where it is.
Allowed(t) ==
  CASE run[t] = "acquire" -> AcquireTimeout + LockTime
    [] run[t] = "run" -> RunTimeout(way[t])
    [] OTHER -> ReleaseTime

InDaemon(t) == run[t] \in {"acquire", "run", "release"}

\* Mutant: no timeout in the daemon.
MayPassAny(t) == Blocked(t) => age[t] < RequestTimeout(way[t])

\* Time stands still when something is due.
MayPass(t) ==
  /\ InDaemon(t) => spent[t] < Allowed(t)
  /\ Blocked(t) => age[t] < RequestTimeout(way[t])
  /\ Polling(t) => nap[t] < PollInterval + Latency

\* A finished job's clock stops when it has expired, as does that of a call that is over.
Tick ==
  /\ \E t \in Tries : InDaemon(t) \/ call[t] = "waiting"
                      \/ (way[t] = "job" /\ run[t] = "over" /\ ~Expired(t))
  /\ \A t \in Tries : MayPass(t)
  /\ age' = [t \in Tries |-> IF call[t] = "waiting" THEN age[t] + 1 ELSE age[t]]
  /\ nap' = [t \in Tries |-> IF call[t] = "waiting" THEN nap[t] + 1 ELSE nap[t]]
  /\ spent' = [t \in Tries |->
                 IF InDaemon(t) \/ (run[t] = "over" /\ ~Expired(t))
                   THEN spent[t] + 1 ELSE spent[t]]
  /\ UNCHANGED <<way, call, run>>

Finished ==
  /\ \A t \in Tries : ~InDaemon(t) /\ call[t] \notin {"unmade", "waiting"}
  /\ UNCHANGED vars

----------------------------------------------------------------------------
(* Specification *)

Init ==
  /\ way = [t \in Tries |-> "timed"]
  /\ call = [t \in Tries |-> "unmade"]
  /\ run = [t \in Tries |-> "none"]
  /\ age = [t \in Tries |-> 0] /\ spent = [t \in Tries |-> 0] /\ nap = [t \in Tries |-> 0]

Step(t) ==
  \/ \E w \in Ways : Begin(t, w)
  \/ Breaks(t) \/ Poll(t)
  \/ Acquired(t) \/ Refused(t) \/ RunEnds(t) \/ Released(t) \/ Reaped(t)

Next == (\E t \in Tries : Step(t)) \/ Tick \/ Finished

Spec == Init /\ [][Next]_vars

----------------------------------------------------------------------------
(* Properties *)

\* Everything keeps its type, and nothing in the daemon takes longer than it may.
TypeOK ==
  /\ way \in [Tries -> Ways]
  /\ call \in [Tries -> {"unmade", "waiting", "answered", "broke", "gave_up", "lost"}]
  /\ run \in [Tries -> {"none", "acquire", "run", "release", "over", "gone"}]
  /\ age \in [Tries -> Nat] /\ spent \in [Tries -> Nat] /\ nap \in [Tries -> Nat]
  /\ \A t \in Tries : InDaemon(t) => spent[t] <= Allowed(t)

\* client.py:116-117: a slow completion surfaces as the daemon's answer, never as a
\* socket timeout.
HearsTheDaemon == \A t \in Tries : call[t] # "broke"

\* The grace covers what the daemon does besides, and what it takes for the timeout.
GraceFits(w) ==
  /\ AcquireTimeout + LockTime < ClientTimeout(w) + Grace
  /\ AcquireTimeout + RunTimeout(w) + ReleaseTime < ClientTimeout(w) + Grace

\* HearsTheDaemon as far as the lengths allow it: a call breaks only where the grace is
\* too short for the wait for a worker, the release and the other side's default.
HeardIfGraceFits == \A t \in Tries : call[t] = "broke" => ~GraceFits(way[t])

Working(t) == run[t] \in {"run", "release"}

\* Its prompt goes on without the caller, who was told of a timeout.
Abandoned(t) ==
  IF way[t] = "job" THEN call[t] = "gave_up" ELSE call[t] = "broke" /\ ~GraceFits(way[t])

\* A caller that tries again does not meet its own earlier try at work: that one's worker
\* is gone before its answer.  But for two cases: wait() that gives up on a job tells of
\* a timeout that may be retried, and the job goes on (client.py:168-173), as does the
\* prompt of a call that breaks.
RetryRunsAlone ==
  \A t, u \in Tries : t # u /\ Working(t) /\ Working(u) => Abandoned(t) \/ Abandoned(u)

\* wait() returns at most one poll after its deadline, whatever the job does.
WaitEndsInTime ==
  \A t \in Tries : way[t] = "job" => age[t] <= WaitTimeout + PollInterval + Latency

\* A job that is polled more often than it is kept is never reaped before its caller has
\* read the result (config.py:37-39; the cap on the number of jobs apart).
ResultIsCollected == \A t \in Tries : call[t] # "lost"
=============================================================================
