------------------------------- MODULE Pool -------------------------------
(* WorkerPool (src/claude_pool/pool.py) together with the part of Worker     *)
(* (worker.py) and of execute (runner.py) that touches it.                   *)
(*                                                                           *)
(* The daemon is one asyncio loop, so a step is the code between two awaits  *)
(* that can suspend.  `self._cond` is held across a suspension only while a  *)
(* worker is being spawned; `lock` says by whom.  Any other section under    *)
(* the lock is a single step, guarded by lock = "free".                      *)
(*                                                                           *)
(* Abstractions: the idle deque and the condition's waiters are sets (the    *)
(* choice of an element stands for any order); clocks are nondeterministic   *)
(* (a timeout may expire at any step, an idle worker may be expired at any   *)
(* sweep); prompts and results are left out.                                 *)
EXTENDS Integers, FiniteSets

CONSTANTS
  Requests,         \* concurrent callers of execute()
  Workers,          \* identities of workers; recycled once nothing refers to them
  NoWorker,
  MinWorkers,       \* config.min_workers
  MaxWorkers,       \* config.max_workers
  IdleScaleToZero,  \* config.idle_scale_to_zero_sec > 0
  SpawnMayFail,     \* create_subprocess_exec may raise
  RenotifyOnCancel, \* Condition.wait() passes on a wake-up when it is cancelled
                    \* (Python 3.13); FALSE is Python 3.11 and 3.12
  GrowBound         \* bound: no request arrives while this many grows wait for the
                    \* lock (it is FIFO, so grows scheduled before run before)

\* PoolConfig does not validate min <= max (config.py:46-64): the pool's bound
\* only means something for the configurations that respect it.
ASSUME PoolAssumption ==
  /\ MinWorkers \in Nat /\ MaxWorkers \in Nat /\ MinWorkers <= MaxWorkers
  /\ IsFiniteSet(Workers) /\ NoWorker \notin Workers
  /\ {IdleScaleToZero, SpawnMayFail, RenotifyOnCancel} \subseteq BOOLEAN
  /\ GrowBound \in Nat

VARIABLES
  proc,         \* the worker's process: "exiting" has ended but is not yet reaped
  idle,         \* _idle
  total,        \* _total
  waiting,      \* _waiting
  pendingGrows, \* _pending_grows: grow tasks not yet finished
  spawnError,   \* _last_spawn_error is not None
  lock,         \* which coroutine is suspended while holding _cond
  pc,           \* where each request is suspended
  worker,       \* the worker a request has acquired
  releasing,    \* workers whose release() has sent the kill and not yet counted it
  life,         \* start(), serving, and the stages of stop()
  toKill,       \* the sweep's to_kill, after the current victim
  victim,       \* the worker whose kill() the sweep, later stop(), is awaiting
  doomed,       \* stop()'s doomed, after the current victim
  snapshot      \* the releases among the background tasks stop() waits for

vars == <<proc, idle, total, waiting, pendingGrows, spawnError, lock, pc, worker,
          releasing, life, toKill, victim, doomed, snapshot>>

counters == <<total, waiting, pendingGrows, spawnError>>
shutdown == <<life, toKill, victim, doomed, snapshot>>

Processes == {"none", "starting", "alive", "exiting", "dead"}
Holders   == {"free", "start", "grow", "release"}
Places    == {"out", "enter", "parked", "woken", "unwind", "run", "release", "respawn"}
Lives     == {"starting", "up", "stopping", "draining", "locking", "dying", "done"}

TypeOK ==
  /\ proc \in [Workers -> Processes]
  /\ idle \subseteq Workers /\ releasing \subseteq Workers
  /\ toKill \subseteq Workers /\ doomed \subseteq Workers /\ snapshot \subseteq Workers
  /\ victim \in Workers \cup {NoWorker}
  /\ total \in Int /\ waiting \in Int /\ pendingGrows \in Nat
  /\ spawnError \in BOOLEAN
  /\ lock \in Holders /\ life \in Lives
  /\ pc \in [Requests -> Places]
  /\ worker \in [Requests -> Workers \cup {NoWorker}]

----------------------------------------------------------------------------
(* Processes *)

\* Worker.is_alive: an ended process reports alive until asyncio has reaped it.
IsAlive(w) == proc[w] \in {"alive", "exiting"}

\* Worker.kill, up to its await: SIGKILL unless returncode is already known.
Killed(w) == [proc EXCEPT ![w] = IF @ = "alive" THEN "exiting" ELSE @]

\* Mutant: kill() does not wait for the process.
KillReturnsAtOnce(w) == TRUE

\* Worker.kill, after its await.
KillReturns(w) == proc[w] = "dead"

\* A worker object nothing refers to any more.
Dropped(S) == [w \in Workers |-> IF w \in S THEN "none" ELSE proc[w]]

\* The CLI ends, by itself or because its one turn is over.
Exit(w) ==
  /\ proc[w] = "alive"
  /\ proc' = [proc EXCEPT ![w] = "exiting"]
  /\ UNCHANGED <<idle, counters, lock, pc, worker, releasing, shutdown>>

\* asyncio learns the exit status: returncode is set.
Reap(w) ==
  /\ proc[w] = "exiting"
  /\ proc' = [proc EXCEPT ![w] = "dead"]
  /\ UNCHANGED <<idle, counters, lock, pc, worker, releasing, shutdown>>

----------------------------------------------------------------------------
(* The condition variable *)

Stopped == life \notin {"starting", "up"}
Parked  == {r \in Requests : pc[r] = "parked"}
Waiters == {r \in Requests : pc[r] \in {"parked", "woken", "unwind"}}

\* Condition.notify(): one waiter, when there is one.
Notify == IF Parked = {} THEN {{}} ELSE {{r} : r \in Parked}

Wakeup(S) == [r \in Requests |-> IF r \in S THEN "woken" ELSE pc[r]]

----------------------------------------------------------------------------
(* Spawning: _spawn_and_add_idle_locked and _try_spawn_and_add_idle_locked *)

\* Suspend in Worker.start() with the lock held; p is the processes so far.
StartSpawn(holder, p) ==
  /\ lock' = holder
  /\ \E w \in Workers : p[w] = "none" /\ proc' = [p EXCEPT ![w] = "starting"]

\* Mutant: every spawner settles a grow.
GrowsLeftAlways == pendingGrows - 1

\* _grow_by_one's finally.
GrowsLeft == IF lock = "grow" THEN pendingGrows - 1 ELSE pendingGrows

\* The spawner goes on: the lock is released, a grow task ends in its finally,
\* and a release task ends, which answers the request awaiting it.
Landed(woken) ==
  /\ lock' = "free"
  /\ pendingGrows' = GrowsLeft
  /\ pc' = [r \in Requests |-> IF pc[r] = "respawn" THEN "out" ELSE Wakeup(woken)[r]]

\* Mutant: a spawn that succeeds leaves the error of an earlier one recorded.
SpawnOkStale(w) ==
  /\ proc[w] = "starting"
  /\ proc' = [proc EXCEPT ![w] = "alive"]
  /\ idle' = idle \cup {w}
  /\ total' = total + 1
  /\ UNCHANGED spawnError
  /\ \E woken \in Notify : Landed(woken)
  /\ UNCHANGED <<waiting, worker, releasing, shutdown>>

SpawnOk(w) ==
  /\ proc[w] = "starting"
  /\ proc' = [proc EXCEPT ![w] = "alive"]
  /\ idle' = idle \cup {w}
  /\ total' = total + 1
  /\ spawnError' = FALSE
  /\ \E woken \in Notify : Landed(woken)
  /\ UNCHANGED <<waiting, worker, releasing, shutdown>>

\* In start() the error propagates and run_daemon's finally calls stop();
\* elsewhere it is recorded and one waiter is notified.
SpawnFail(w) ==
  /\ SpawnMayFail
  /\ proc[w] = "starting"
  /\ proc' = [proc EXCEPT ![w] = "none"]
  /\ IF lock = "start"
       THEN life' = "stopping" /\ UNCHANGED spawnError /\ Landed({})
       ELSE spawnError' = TRUE /\ UNCHANGED life /\ \E woken \in Notify : Landed(woken)
  /\ UNCHANGED <<idle, total, waiting, worker, releasing, toKill, victim, doomed, snapshot>>

\* start(): min_workers spawns one after the other, then the sweep task.
Start ==
  /\ life = "starting" /\ lock = "free"
  /\ IF total < MinWorkers
       THEN StartSpawn("start", proc) /\ UNCHANGED life
       ELSE life' = "up" /\ UNCHANGED <<proc, lock>>
  /\ UNCHANGED <<idle, counters, pc, worker, releasing, toKill, victim, doomed, snapshot>>

\* Mutant: the bound is not checked again under the lock.
MayGrowUnchecked == ~Stopped

\* _grow_by_one looks again: the pool may have grown or stopped since.
MayGrow == total < MaxWorkers /\ ~Stopped

\* _grow_by_one, once it has the lock.
Grow ==
  /\ pendingGrows > 0 /\ lock = "free"
  /\ IF MayGrow
       THEN StartSpawn("grow", proc) /\ UNCHANGED pendingGrows
       ELSE pendingGrows' = pendingGrows - 1 /\ UNCHANGED <<proc, lock>>
  /\ UNCHANGED <<idle, total, waiting, spawnError, pc, worker, releasing, shutdown>>

----------------------------------------------------------------------------
(* acquire *)

Arrive(r) ==
  /\ life = "up" /\ pc[r] = "out" /\ pendingGrows < GrowBound
  /\ pc' = [pc EXCEPT ![r] = "enter"]
  /\ UNCHANGED <<proc, idle, counters, lock, worker, releasing, shutdown>>

\* Mutant: the dropped workers stay counted.
DropUncounted(dead) == proc' = Dropped(dead) /\ UNCHANGED total

\* Idle workers already known to be dead leave the pool.
Drop(dead) == proc' = Dropped(dead) /\ total' = total - Cardinality(dead)

\* One turn of _acquire's loop, entered with n waiters counted: refuse, hand
\* out a worker not known to be dead, or park.  Known-dead idle workers met on
\* the way are dropped, all of them when none is alive.
Turn(r, n) ==
  \/ /\ Stopped
     /\ pc' = [pc EXCEPT ![r] = "out"]
     /\ waiting' = n
     /\ UNCHANGED <<proc, idle, total, pendingGrows, worker>>
  \/ /\ ~Stopped
     /\ \E w \in idle, dead \in SUBSET {v \in idle : ~IsAlive(v)} :
          /\ IsAlive(w)
          /\ Drop(dead)
          /\ idle' = idle \ (dead \cup {w})
          /\ worker' = [worker EXCEPT ![r] = w]
     /\ pc' = [pc EXCEPT ![r] = "run"]
     /\ waiting' = n
     /\ UNCHANGED pendingGrows
  \/ /\ ~Stopped
     /\ \A w \in idle : ~IsAlive(w)
     /\ Drop(idle)
     /\ idle' = {}
     /\ pendingGrows' = IF total' < MaxWorkers THEN pendingGrows + 1 ELSE pendingGrows
     /\ pc' = [pc EXCEPT ![r] = "parked"]
     /\ waiting' = n + 1
     /\ UNCHANGED worker

Enter(r) ==
  /\ pc[r] = "enter" /\ lock = "free"
  /\ Turn(r, waiting)
  /\ UNCHANGED <<spawnError, lock, releasing, shutdown>>

\* Mutant: the decrement is not in a finally.
LeftWaitUncounted == waiting

\* _acquire's finally around wait().
LeftWait == waiting - 1

\* Give up only when no spawn is in flight that could still serve the request.
SpawnHopeless == idle = {} /\ pendingGrows = 0 /\ spawnError

\* A notified waiter has the lock again.
Wake(r) ==
  /\ pc[r] = "woken" /\ lock = "free"
  /\ IF SpawnHopeless
       THEN /\ pc' = [pc EXCEPT ![r] = "out"]
            /\ waiting' = LeftWait
            /\ UNCHANGED <<proc, idle, total, pendingGrows, worker>>
       ELSE Turn(r, LeftWait)
  /\ UNCHANGED <<spawnError, lock, releasing, shutdown>>

\* wait_for's timeout in acquire(), or the caller is cancelled: a waiter must
\* first get the lock back (Unwind).
GiveUp(r) ==
  /\ \/ pc[r] = "enter" /\ pc' = [pc EXCEPT ![r] = "out"]
     \/ pc[r] \in {"parked", "woken"} /\ pc' = [pc EXCEPT ![r] = "unwind"]
  /\ UNCHANGED <<proc, idle, counters, lock, worker, releasing, shutdown>>

Unwind(r) ==
  /\ pc[r] = "unwind" /\ lock = "free"
  /\ waiting' = LeftWait
  /\ \E woken \in IF RenotifyOnCancel THEN Notify ELSE {{}} :
       pc' = [Wakeup(woken) EXCEPT ![r] = "out"]
  /\ UNCHANGED <<proc, idle, total, pendingGrows, spawnError, lock, worker, releasing, shutdown>>

----------------------------------------------------------------------------
(* execute: run the prompt, then release in the background *)

\* Mutant: run() has no timeout.
RunForever(r) == pc[r] = "run" /\ FALSE /\ UNCHANGED vars

\* worker.run outlived timeout_sec and kills its process.
RunTimeout(r) ==
  /\ pc[r] = "run"
  /\ proc[worker[r]] = "alive"
  /\ proc' = Killed(worker[r])
  /\ UNCHANGED <<idle, counters, lock, pc, worker, releasing, shutdown>>

\* Mutant: the release is not in a finally.
ReleaseSkipped(r) ==
  /\ pc' = [pc EXCEPT ![r] = "out"]
  /\ worker' = [worker EXCEPT ![r] = NoWorker]
  /\ UNCHANGED <<proc, releasing>>

\* The finally of execute: release_in_background, whose first step is kill().
BeginRelease(r) ==
  /\ proc' = Killed(worker[r])
  /\ releasing' = releasing \cup {worker[r]}
  /\ pc' = [pc EXCEPT ![r] = "release"]
  /\ UNCHANGED worker

\* run() returns or raises once the process is reaped.
RunEnds(r) ==
  /\ pc[r] = "run" /\ proc[worker[r]] = "dead"
  /\ BeginRelease(r)
  /\ UNCHANGED <<idle, counters, lock, shutdown>>

\* The caller is cancelled: mid-run the release still runs; a second time, the
\* shield keeps the release going without its caller.
Cancel(r) ==
  /\ \/ pc[r] = "run" /\ BeginRelease(r)
     \/ /\ pc[r] \in {"release", "respawn"}
        /\ pc' = [pc EXCEPT ![r] = "out"]
        /\ worker' = [worker EXCEPT ![r] = NoWorker]
        /\ UNCHANGED <<proc, releasing>>
  /\ UNCHANGED <<idle, counters, lock, shutdown>>

\* Mutant: no refill for queued demand.
MayRefillFloor(n) == n < MinWorkers /\ ~Stopped

\* Mutant: a stopped pool refills.
MayRefillStopped(n) == n < MinWorkers \/ (waiting > 0 /\ n < MaxWorkers)

\* Whether release() spawns a replacement, with n workers left.
MayRefill(n) ==
  /\ n < MinWorkers \/ (waiting > 0 /\ n < MaxWorkers)
  /\ ~Stopped

Answered(w, place) ==
  /\ pc' = [r \in Requests |-> IF pc[r] = "release" /\ worker[r] = w THEN place ELSE pc[r]]
  /\ worker' = [r \in Requests |-> IF pc[r] = "release" /\ worker[r] = w
                                     THEN NoWorker ELSE worker[r]]

\* release() after its kill: uncount the worker, then finish or spawn another.
Release(w) ==
  /\ w \in releasing /\ KillReturns(w) /\ lock = "free"
  /\ total' = total - 1
  /\ releasing' = releasing \ {w}
  /\ snapshot' = snapshot \ {w}
  /\ IF MayRefill(total')
       THEN StartSpawn("release", Dropped({w})) /\ Answered(w, "respawn")
       ELSE proc' = Dropped({w}) /\ UNCHANGED lock /\ Answered(w, "out")
  /\ UNCHANGED <<idle, waiting, pendingGrows, spawnError, life, toKill, victim, doomed>>

----------------------------------------------------------------------------
(* _scale_down_loop *)

\* Mutant: a busy pool drains.
MayDrainBusy == IdleScaleToZero

\* Nothing is out: with the clock's consent every idle worker may go.
MayDrain == IdleScaleToZero /\ total = Cardinality(idle)

\* What one sweep may choose to kill: everything when it drains, otherwise
\* expired workers in excess of min_workers.
Sweepable ==
  {S \in SUBSET idle :
     \/ Cardinality(idle) - Cardinality(S) >= MinWorkers
     \/ MayDrain /\ S = idle}

\* Mutant: the swept workers stay in the deque.
SurvivorsAll(S) == idle

Survivors(S) == idle \ S

\* Mutant: the victim is awaited but not killed.
NextVictimSpared(S, p) ==
  IF S = {} THEN victim' = NoWorker /\ proc' = p
            ELSE victim' \in S /\ proc' = p

\* kill() the next victim among S; no victim when S is empty.
NextVictim(S, p) ==
  IF S = {}
    THEN victim' = NoWorker /\ proc' = p
    ELSE \E w \in S :
           /\ victim' = w
           /\ proc' = [p EXCEPT ![w] = IF @ = "alive" THEN "exiting" ELSE @]

Sweep ==
  /\ life = "up" /\ victim = NoWorker /\ lock = "free"
  /\ \E S \in Sweepable \ {{}} :
       /\ idle' = Survivors(S)
       /\ NextVictim(S, proc)
       /\ toKill' = S \ {victim'}
  /\ UNCHANGED <<counters, lock, pc, worker, releasing, life, doomed, snapshot>>

\* The victim is dead: count it out, without a notify, and take the next one.
SweepNext ==
  /\ life = "up" /\ victim # NoWorker
  /\ KillReturns(victim) /\ lock = "free"
  /\ total' = total - 1
  /\ NextVictim(toKill, Dropped({victim}))
  /\ toKill' = toKill \ {victim'}
  /\ UNCHANGED <<idle, waiting, pendingGrows, spawnError, lock, pc, worker, releasing,
                 life, doomed, snapshot>>

----------------------------------------------------------------------------
(* stop *)

\* _stopped is set and the sweep cancelled at its await: its to_kill is gone.
Stop ==
  /\ life = "up"
  /\ life' = "stopping"
  /\ toKill' = {} /\ victim' = NoWorker
  /\ UNCHANGED <<proc, idle, counters, lock, pc, worker, releasing, doomed, snapshot>>

\* pending = list(_background_tasks): these releases and every grow.
Snapshot ==
  /\ life = "stopping"
  /\ life' = "draining"
  /\ snapshot' = releasing
  /\ UNCHANGED <<proc, idle, counters, lock, pc, worker, releasing, toKill, victim, doomed>>

Drained == snapshot = {} /\ pendingGrows = 0 /\ lock = "free"

DrainDone ==
  /\ life = "draining" /\ Drained
  /\ life' = "locking"
  /\ UNCHANGED <<proc, idle, counters, lock, pc, worker, releasing, toKill, victim, doomed,
                 snapshot>>

\* STOP_DRAIN_TIMEOUT_SEC is over: what is left is cancelled.  A cancelled
\* release is never counted out; asyncio kills a process it was starting.
DrainTimeout ==
  /\ life = "draining" /\ ~Drained
  /\ life' = "locking"
  /\ releasing' = releasing \ snapshot
  /\ snapshot' = {}
  /\ pendingGrows' = 0
  /\ lock' = "free"
  /\ proc' = Dropped({w \in Workers : proc[w] = "starting"})
  /\ pc' = [r \in Requests |->
              IF pc[r] = "respawn" \/ (pc[r] = "release" /\ worker[r] \in snapshot)
                THEN "out" ELSE pc[r]]
  /\ worker' = [r \in Requests |-> IF pc[r] = "release" /\ worker[r] \in snapshot
                                     THEN NoWorker ELSE worker[r]]
  /\ UNCHANGED <<idle, total, waiting, spawnError, toKill, victim, doomed>>

\* Under the lock: doomed = list(_idle), _idle.clear(), notify_all().
TakeIdle ==
  /\ life = "locking" /\ lock = "free"
  /\ life' = "dying"
  /\ doomed' = idle
  /\ idle' = {}
  /\ pc' = Wakeup(Parked)
  /\ UNCHANGED <<proc, counters, lock, worker, releasing, toKill, victim, snapshot>>

StopKill ==
  /\ life = "dying" /\ victim = NoWorker
  /\ IF doomed = {}
       THEN life' = "done" /\ UNCHANGED <<proc, victim, doomed>>
       ELSE NextVictim(doomed, proc) /\ doomed' = doomed \ {victim'} /\ UNCHANGED life
  /\ UNCHANGED <<idle, counters, lock, pc, worker, releasing, toKill, snapshot>>

StopNext ==
  /\ life = "dying" /\ victim # NoWorker
  /\ KillReturns(victim) /\ lock = "free"
  /\ total' = total - 1
  /\ victim' = NoWorker
  /\ proc' = Dropped({victim})
  /\ UNCHANGED <<idle, waiting, pendingGrows, spawnError, lock, pc, worker, releasing,
                 life, toKill, doomed, snapshot>>

\* The pool is stopped and every request has been answered.
Finished ==
  /\ life = "done" /\ \A r \in Requests : pc[r] = "out"
  /\ UNCHANGED vars

----------------------------------------------------------------------------
(* Specification *)

\* start() is running, holding nothing yet.
Init ==
  /\ proc = [w \in Workers |-> "none"]
  /\ idle = {} /\ releasing = {} /\ toKill = {} /\ doomed = {} /\ snapshot = {}
  /\ total = 0 /\ waiting = 0 /\ pendingGrows = 0 /\ spawnError = FALSE
  /\ lock = "free" /\ life = "starting" /\ victim = NoWorker
  /\ pc = [r \in Requests |-> "out"]
  /\ worker = [r \in Requests |-> NoWorker]

RequestStep(r) ==
  \/ Arrive(r) \/ Enter(r) \/ Wake(r) \/ GiveUp(r) \/ Unwind(r)
  \/ RunTimeout(r) \/ RunEnds(r) \/ Cancel(r)

WorkerStep(w) == Exit(w) \/ Reap(w) \/ SpawnOk(w) \/ SpawnFail(w) \/ Release(w)

StopStep ==
  Stop \/ Snapshot \/ DrainDone \/ DrainTimeout \/ TakeIdle \/ StopKill \/ StopNext

Next ==
  \/ \E r \in Requests : RequestStep(r)
  \/ \E w \in Workers : WorkerStep(w)
  \/ Start \/ Grow \/ Sweep \/ SweepNext
  \/ StopStep
  \/ Finished

Spec == Init /\ [][Next]_vars

\* The event loop runs every ready callback, the kernel ends a killed process
\* and asyncio reaps it, and the two timeouts expire.  The lock's waiters are
\* served in order, so one that keeps finding the lock free gets it.
Fairness ==
  /\ \A w \in Workers :
       /\ WF_vars(Reap(w)) /\ WF_vars(SpawnOk(w) \/ SpawnFail(w)) /\ SF_vars(Release(w))
  /\ \A r \in Requests :
       /\ SF_vars(Enter(r)) /\ SF_vars(Wake(r)) /\ SF_vars(Unwind(r))
       /\ WF_vars(GiveUp(r)) /\ WF_vars(RunTimeout(r)) /\ WF_vars(RunEnds(r))
  /\ WF_vars(Start) /\ SF_vars(Grow) /\ SF_vars(SweepNext)
  /\ WF_vars(Snapshot) /\ WF_vars(DrainDone \/ DrainTimeout)
  /\ SF_vars(TakeIdle) /\ WF_vars(StopKill) /\ SF_vars(StopNext)

FairSpec == Spec /\ Fairness

----------------------------------------------------------------------------
(* Properties *)

Held     == {worker[r] : r \in {q \in Requests : pc[q] = "run"}}
Victim   == {victim} \ {NoWorker}
Counted  == idle \cup Held \cup releasing \cup toKill \cup Victim
Running  == {w \in Workers : proc[w] \in {"starting", "alive", "exiting"}}
Serving  == life \in {"starting", "up"}

\* The machine never runs more than max_workers CLI processes, whatever grows,
\* releases, sweeps and failures overlap (pool.py:154, 177, 200).
ProcessesWithinMax == Cardinality(Running) <= MaxWorkers

\* _total, the number every decision of the pool is based on, is the number of
\* workers that are idle, in a request's hand, being released or being swept;
\* so /health's busy = total - idle never counts a worker nobody has.
CountIsExact == Serving => total = Cardinality(Counted)

\* A worker is in one place only: no two requests share one and nobody kills a
\* worker another request was given (one prompt, one worker).
SoleOwner ==
  /\ \A q, r \in Requests :
       q # r /\ pc[q] = "run" /\ pc[r] = "run" => worker[q] # worker[r]
  /\ LET place == <<idle, Held, releasing, toKill, Victim, doomed>>
     IN  \A i, j \in 1..6 : i < j => place[i] \cap place[j] = {}

\* While the pool serves, every process it started is reachable from something
\* that will hand it out or kill it: a cancelled, timed out or disconnected
\* request leaves no orphan (pool.py:191-195, runner.py:59-63).
NoOrphan == Serving => \A w \in Workers : proc[w] \in {"none", "starting"} \/ w \in Counted

\* _waiting is the number of coroutines inside Condition.wait(), through every
\* timeout and cancellation; release() takes it for queued demand.
WaitingIsExact == waiting = Cardinality(Waiters)

\* No acquire() waiter is left blocked with nothing to wake it: something in flight
\* will notify, be it a spawn, a request or release that ends, a waiter already
\* notified that takes the lock or passes its turn on, or stop().  pool.py:97-101
\* promises it after a failed spawn too; it holds only where spawns succeed.
NoStrandedWaiter ==
  Parked # {} =>
    \/ \E r \in Requests : pc[r] \in {"woken", "run"} \/ (pc[r] = "unwind" /\ RenotifyOnCancel)
    \/ pendingGrows > 0 \/ lock # "free" \/ releasing # {}
    \/ life \in {"stopping", "draining", "locking"}

\* Once stop() has taken the idle workers no spawn still in flight adds one and
\* no waiter parks again, so a stopped pool has neither (pool.py:66-80).
StoppedIsEmpty == life \in {"dying", "done"} => idle = {} /\ Parked = {}

\* test_stop_kills_idle_workers, pool.py:52-55: after stop() only workers that
\* belong to requests in flight may still be running.
StopKillsTheRest ==
  life = "done" => \A w \in Workers : proc[w] = "alive" => w \in Held

\* README.md:237: while the pool drains, call it as usual.  A caller waiting at an
\* empty pool has a spawn on the way, or a notification that leads to one.
DrainedPoolServes ==
  life = "up" /\ total = 0 /\ Parked # {}
    => pendingGrows > 0 \/ lock # "free" \/ \E r \in Requests : pc[r] = "woken"

\* A sweep takes the pool below min_workers idle workers only by draining it,
\* and only when no request holds a worker (README.md:238, AC-004, AC-006).
SweepSparesTheBusyPool ==
  [][Sweep /\ Cardinality(idle') < MinWorkers => IdleScaleToZero /\ Held = {} /\ idle' = {}]_vars

\* The worker's stage, as module WorkerLease sees it.
Stage(w) ==
  IF proc[w] \in {"none", "starting"} THEN "absent"
  ELSE IF w \in idle THEN "ready"
  ELSE IF w \in Held THEN "lent"
  ELSE "retired"

stageMap   == [w \in Workers |-> Stage(w)]
runningMap == {w \in Workers : IsAlive(w)}
leaseMap   == [r \in Requests |-> IF pc[r] = "run" THEN worker[r] ELSE NoWorker]

Lease == INSTANCE WorkerLease WITH
  Borrowers <- Requests, Limit <- MaxWorkers,
  stage <- stageMap, running <- runningMap, lease <- leaseMap

\* The pool keeps the promise of module WorkerLease: whatever the tasks, counters and
\* timeouts do, a worker is added to fewer than max_workers only, each serves one
\* request at most and is forgotten only when its process has ended.
KeepsLease == Lease!LeaseSpec

\* Every request is answered, refused or given up: nobody waits forever, not
\* even for a worker that died or a spawn that failed.
EveryRequestAnswered == \A r \in Requests : pc[r] = "enter" ~> pc[r] = "out"

\* A worker handed out is never used again: its process ends, also when its
\* caller is gone or the pool is stopped meanwhile (pool.py:191-195).
HandedOutWorkerDies ==
  \A w \in Workers : (w \in Held) ~> (proc[w] \in {"dead", "none"})

\* stop() returns.
StopReturns == (life = "stopping") ~> (life = "done")
=============================================================================
