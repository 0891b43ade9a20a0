----------------------------- MODULE PoolWaits -----------------------------
(* Waiters, sweeps and stop(): what the counts and the owners of PoolProofs  *)
(* mean for the callers of acquire() and for what is left of a stopped pool. *)
EXTENDS PoolProofs, PoolRefusals

USE DEF Processes, Holders, Places, Lives

----------------------------------------------------------------------------
(* _waiting: the coroutines inside Condition.wait() *)

\* There are finitely many at any time, however many callers there may be.
WaitInv == IsFiniteSet(Waiters) /\ waiting = Cardinality(Waiters)

LEMMA WaitInit == Init => WaitInv
<1> SUFFICES ASSUME Init PROVE WaitInv
  OBVIOUS
<1>1. Waiters = {}
  BY DEF Init, Waiters
<1>. QED BY <1>1, FS_EmptySet DEF Init, WaitInv

\* Nobody starts or stops waiting.
LEMMA WaitUnmoved ==
  ASSUME WaitInv, waiting' = waiting,
         \A r \in Requests : pc'[r] \in {"parked", "woken", "unwind"}
                               <=> pc[r] \in {"parked", "woken", "unwind"}
  PROVE  WaitInv'
<1>1. Waiters' = Waiters
  BY DEF Waiters
<1>. QED BY <1>1 DEF WaitInv

\* A step that moves only r.
LEMMA WaitMoves ==
  ASSUME WaitInv, NEW r \in Requests,
         \A q \in Requests \ {r} : pc'[q] \in {"parked", "woken", "unwind"}
                                     <=> pc[q] \in {"parked", "woken", "unwind"},
         \/ r \in Waiters /\ r \in Waiters' /\ waiting' = waiting
         \/ r \in Waiters /\ r \notin Waiters' /\ waiting' = waiting - 1
         \/ r \notin Waiters /\ r \in Waiters' /\ waiting' = waiting + 1
         \/ r \notin Waiters /\ r \notin Waiters' /\ waiting' = waiting
  PROVE  WaitInv'
<1>1. Waiters' \subseteq Waiters \cup {r} /\ Waiters \subseteq Waiters' \cup {r}
  BY DEF Waiters
<1>2. CASE r \in Waiters <=> r \in Waiters'
  BY <1>1, <1>2 DEF WaitInv
<1>3. CASE r \in Waiters /\ r \notin Waiters'
  <2>1. Waiters' = Waiters \ {r}
    BY <1>1, <1>3
  <2>. QED BY <1>3, <2>1, FS_RemoveElement DEF WaitInv
<1>4. CASE r \notin Waiters /\ r \in Waiters'
  <2>1. Waiters' = Waiters \cup {r}
    BY <1>1, <1>4
  <2>. QED BY <1>4, <2>1, FS_AddElement DEF WaitInv
<1>. QED BY <1>2, <1>3, <1>4

\* One turn of the loop counts its request in exactly when it parks.
LEMMA WaitTurn ==
  ASSUME TypeInv, WaitInv, NEW r \in Requests, NEW n, Turn(r, n),
         \/ pc[r] = "enter" /\ n = waiting
         \/ pc[r] = "woken" /\ n = waiting - 1
  PROVE  WaitInv'
<1> USE DEF TypeInv, TypeOK
<1>1. PICK place \in {"out", "run", "parked"} :
        /\ pc' = [pc EXCEPT ![r] = place]
        /\ waiting' = IF place = "parked" THEN n + 1 ELSE n
  BY Zenon DEF Turn
<1>2. pc'[r] = place /\ \A q \in Requests \ {r} : pc'[q] = pc[q]
  BY <1>1
<1>3. /\ r \in Waiters <=> pc[r] = "woken"
      /\ r \in Waiters' <=> place = "parked"
  BY <1>1, <1>2 DEF Waiters
<1>. QED BY <1>1, <1>2, <1>3, WaitMoves

LEMMA WaitRequestStep ==
  ASSUME TypeInv, WaitInv, NEW r \in Requests, RequestStep(r)
  PROVE  WaitInv'
<1> USE DEF TypeInv, TypeOK, counters, shutdown
<1>1. CASE Arrive(r)
  BY <1>1, WaitUnmoved DEF Arrive
<1>2. CASE Enter(r)
  BY <1>2, WaitTurn DEF Enter
<1>3. CASE Wake(r)
  <2>1. CASE SpawnHopeless
    <3>1. pc[r] = "woken" /\ pc' = [pc EXCEPT ![r] = "out"] /\ waiting' = waiting - 1
      BY <1>3, <2>1 DEF Wake, LeftWait
    <3>. QED BY <3>1, WaitMoves DEF Waiters
  <2>2. CASE ~SpawnHopeless
    BY <1>3, <2>2, WaitTurn DEF Wake, LeftWait
  <2>. QED BY <2>1, <2>2
<1>4. CASE GiveUp(r)
  BY <1>4, WaitUnmoved DEF GiveUp
<1>5. CASE Unwind(r)
  <2>1. PICK S \in SUBSET Parked : pc' = [Wakeup(S) EXCEPT ![r] = "out"]
    BY <1>5, NotifyParked DEF Unwind
  <2>2. pc[r] = "unwind" /\ waiting' = waiting - 1
    BY <1>5 DEF Unwind, LeftWait
  <2>. QED BY <2>1, <2>2, WaitMoves DEF Waiters, Wakeup, Parked
<1>6. CASE RunTimeout(r) \/ RunEnds(r) \/ Cancel(r)
  BY <1>6, WaitUnmoved DEF RunTimeout, RunEnds, Cancel, BeginRelease
<1>. QED BY <1>1, <1>2, <1>3, <1>4, <1>5, <1>6 DEF RequestStep

\* A spawn that ends notifies waiters; they go on waiting for the lock.
LEMMA WaitLanded ==
  ASSUME TypeInv, WaitInv, NEW S \in SUBSET Parked, Landed(S), waiting' = waiting
  PROVE  WaitInv'
BY WaitUnmoved DEF Landed, Wakeup, Parked, TypeInv, TypeOK

LEMMA WaitWorkerStep ==
  ASSUME TypeInv, WaitInv, NEW w \in Workers, WorkerStep(w)
  PROVE  WaitInv'
<1> USE DEF counters, shutdown
<1>1. CASE Exit(w) \/ Reap(w)
  BY <1>1, WaitUnmoved DEF Exit, Reap
<1>2. CASE SpawnOk(w)
  <2>1. PICK S \in SUBSET Parked : Landed(S)
    BY <1>2, NotifyParked DEF SpawnOk
  <2>. QED BY <1>2, <2>1, WaitLanded DEF SpawnOk
<1>3. CASE SpawnFail(w)
  <2>1. PICK S \in SUBSET Parked : Landed(S)
    BY <1>3, NotifyParked DEF SpawnFail
  <2>. QED BY <1>3, <2>1, WaitLanded DEF SpawnFail
<1>4. CASE Release(w)
  <2>1. PICK place \in {"out", "respawn"} : Answered(w, place)
    BY <1>4 DEF Release
  <2>. QED BY <1>4, <2>1, WaitUnmoved DEF Release, Answered, TypeInv, TypeOK
<1>. QED BY <1>1, <1>2, <1>3, <1>4 DEF WorkerStep

LEMMA WaitNext == TypeInv /\ WaitInv /\ [Next]_vars => WaitInv'
<1> SUFFICES ASSUME TypeInv, WaitInv, [Next]_vars PROVE WaitInv'
  OBVIOUS
<1> USE DEF counters, shutdown
<1>1. CASE \E r \in Requests : RequestStep(r)
  BY <1>1, WaitRequestStep
<1>2. CASE \E w \in Workers : WorkerStep(w)
  BY <1>2, WaitWorkerStep
<1>3. CASE Start \/ Grow \/ Sweep \/ SweepNext
  BY <1>3, WaitUnmoved DEF Start, Grow, Sweep, SweepNext
<1>4. CASE StopStep
  <2>1. CASE DrainTimeout
    BY <2>1, WaitUnmoved DEF DrainTimeout, TypeInv, TypeOK
  <2>2. CASE TakeIdle
    BY <2>2, WaitUnmoved DEF TakeIdle, Wakeup, Parked, TypeInv, TypeOK
  <2>3. CASE Stop \/ Snapshot \/ DrainDone \/ StopKill \/ StopNext
    BY <2>3, WaitUnmoved DEF Stop, Snapshot, DrainDone, StopKill, StopNext
  <2>. QED BY <1>4, <2>1, <2>2, <2>3 DEF StopStep
<1>5. CASE Finished \/ UNCHANGED vars
  BY <1>5, WaitUnmoved DEF Finished, vars
<1>. QED BY <1>1, <1>2, <1>3, <1>4, <1>5 DEF Next

LEMMA WaitAlways == Spec => [](TypeInv /\ OwnInv /\ CountInv /\ WaitInv)
<1>1. Init => WaitInv
  BY WaitInit
<1>2. TypeInv /\ WaitInv /\ [Next]_vars => WaitInv'
  BY WaitNext
<1>. QED BY <1>1, <1>2, CountAlways, PTL DEF Spec

\* release() decides on a replacement by the queued demand there really is: no timeout,
\* refusal, cancellation or notification leaves _waiting out of step with the waiters.
THEOREM WaitersAreCounted == Spec => []WaitingIsExact
<1>1. WaitInv => WaitingIsExact
  BY DEF WaitInv, WaitingIsExact
<1>. QED BY <1>1, WaitAlways, PTL

----------------------------------------------------------------------------
(* stop() *)

\* From the moment stop() asks for the lock nothing is being spawned and no grow
\* is left; and only stop() itself still has workers to kill.
QuietStop   == life \in {"locking", "dying", "done"} => lock = "free" /\ pendingGrows = 0
DoomedDying == doomed # {} => life = "dying"

StopInv == QuietStop /\ DoomedDying /\ StoppedIsEmpty

LEMMA StopInit == Init => StopInv
BY DEF Init, StopInv, QuietStop, DoomedDying, StoppedIsEmpty

\* A step that leaves the stage, starts no spawn and no wait, and adds nothing idle.
LEMMA StopUnmoved ==
  ASSUME StopInv, UNCHANGED <<life, doomed>>,
         Stopped => /\ lock' = lock /\ pendingGrows' \in {pendingGrows, 0}
                    /\ idle' \subseteq idle /\ Parked' \subseteq Parked
  PROVE  StopInv'
BY DEF StopInv, QuietStop, DoomedDying, StoppedIsEmpty, Stopped

LEMMA StopRequestStep ==
  ASSUME TypeInv, StopInv, NEW r \in Requests, RequestStep(r)
  PROVE  StopInv'
<1> USE DEF TypeInv, TypeOK, counters, shutdown
<1>1. CASE Arrive(r) \/ GiveUp(r)
  BY <1>1, StopUnmoved DEF Arrive, GiveUp, Parked
<1>2. ASSUME NEW n, Turn(r, n), UNCHANGED <<lock, shutdown>> PROVE StopInv'
  <2>1. Stopped => /\ UNCHANGED <<idle, pendingGrows>> /\ pc' = [pc EXCEPT ![r] = "out"]
    BY <1>2 DEF Turn
  <2>. QED BY <1>2, <2>1, StopUnmoved DEF Parked
<1>3. CASE Enter(r)
  BY <1>2, <1>3 DEF Enter
<1>4. CASE Wake(r)
  <2>1. CASE SpawnHopeless
    BY <1>4, <2>1, StopUnmoved DEF Wake, Parked
  <2>2. CASE ~SpawnHopeless
    BY <1>2, <1>4, <2>2 DEF Wake
  <2>. QED BY <2>1, <2>2
<1>5. CASE Unwind(r)
  <2>1. PICK S : pc' = [Wakeup(S) EXCEPT ![r] = "out"]
    BY <1>5 DEF Unwind
  <2>. QED BY <1>5, <2>1, StopUnmoved DEF Unwind, Wakeup, Parked
<1>6. CASE RunTimeout(r) \/ RunEnds(r) \/ Cancel(r)
  BY <1>6, StopUnmoved DEF RunTimeout, RunEnds, Cancel, BeginRelease, Parked
<1>. QED BY <1>1, <1>3, <1>4, <1>5, <1>6 DEF RequestStep

LEMMA StopWorkerStep ==
  ASSUME TypeInv, CountInv, StopInv, NEW w \in Workers, WorkerStep(w)
  PROVE  StopInv'
<1> USE DEF TypeInv, TypeOK, counters, shutdown
<1>1. CASE Exit(w) \/ Reap(w)
  BY <1>1, StopUnmoved DEF Exit, Reap, Parked
<1>2. CASE SpawnOk(w) \/ SpawnFail(w)
  <2>1. lock # "free"
    BY <1>2 DEF SpawnOk, SpawnFail, CountInv, SpawnLocked
  <2>2. life' \notin {"locking", "dying", "done"} /\ doomed' = {}
    BY <1>2, <2>1 DEF SpawnOk, SpawnFail, StopInv, QuietStop, DoomedDying
  <2>. QED BY <2>2 DEF StopInv, QuietStop, DoomedDying, StoppedIsEmpty
<1>3. CASE Release(w)
  <2>1. PICK place \in {"out", "respawn"} : Answered(w, place)
    BY <1>3 DEF Release
  <2>2. Stopped => lock' = lock
    BY <1>3 DEF Release, MayRefill
  <2>. QED BY <1>3, <2>1, <2>2, StopUnmoved DEF Release, Answered, Parked
<1>. QED BY <1>1, <1>2, <1>3 DEF WorkerStep

LEMMA StopStopStep ==
  ASSUME TypeInv, StopInv, StopStep
  PROVE  StopInv'
<1> USE DEF TypeInv, TypeOK, counters, StopInv, QuietStop, DoomedDying, StoppedIsEmpty
<1>1. CASE Stop \/ Snapshot
  BY <1>1 DEF Stop, Snapshot
<1>2. CASE DrainDone \/ DrainTimeout
  BY <1>2 DEF DrainDone, Drained, DrainTimeout
<1>3. CASE TakeIdle
  BY <1>3 DEF TakeIdle, Wakeup, Parked
<1>4. CASE StopKill \/ StopNext
  BY <1>4 DEF StopKill, StopNext, Parked
<1>. QED BY <1>1, <1>2, <1>3, <1>4 DEF StopStep

LEMMA StopNextStep == TypeInv /\ CountInv /\ StopInv /\ [Next]_vars => StopInv'
<1> SUFFICES ASSUME TypeInv, CountInv, StopInv, [Next]_vars PROVE StopInv'
  OBVIOUS
<1> USE DEF counters, shutdown
<1>1. CASE \E r \in Requests : RequestStep(r)
  BY <1>1, StopRequestStep
<1>2. CASE \E w \in Workers : WorkerStep(w)
  BY <1>2, StopWorkerStep
<1>3. CASE Start
  BY <1>3 DEF Start, StopInv, QuietStop, DoomedDying, StoppedIsEmpty
<1>4. CASE Grow
  <2>1. Stopped => UNCHANGED lock /\ pendingGrows > 0
    BY <1>4 DEF Grow, MayGrow
  <2>. QED BY <1>4, <2>1 DEF Grow, StopInv, QuietStop, DoomedDying, StoppedIsEmpty, Parked, Stopped,
              TypeInv, TypeOK
<1>5. CASE Sweep \/ SweepNext
  BY <1>5 DEF Sweep, SweepNext, StopInv, QuietStop, DoomedDying, StoppedIsEmpty
<1>6. CASE StopStep
  BY <1>6, StopStopStep
<1>7. CASE Finished \/ UNCHANGED vars
  BY <1>7, StopUnmoved DEF Finished, vars, Parked, TypeInv, TypeOK
<1>. QED BY <1>1, <1>2, <1>3, <1>4, <1>5, <1>6, <1>7 DEF Next

LEMMA StopAlways == Spec => [](TypeInv /\ OwnInv /\ CountInv /\ WaitInv /\ StopInv)
<1>1. Init => StopInv
  BY StopInit
<1>2. TypeInv /\ CountInv /\ StopInv /\ [Next]_vars => StopInv'
  BY StopNextStep
<1>. QED BY <1>1, <1>2, WaitAlways, PTL DEF Spec

\* However the drain of stop() ends, nothing that was under way adds an idle worker to the
\* pool it has emptied, and no caller it has woken waits there again.
THEOREM StoppedStaysEmpty == Spec => []StoppedIsEmpty
<1>1. StopInv => StoppedIsEmpty
  BY DEF StopInv
<1>. QED BY <1>1, StopAlways, PTL

----------------------------------------------------------------------------
(* The sweep *)

\* What a sweep takes: idle workers in excess of min_workers, or all there are.
LEMMA SweepTakes ==
  ASSUME TypeInv, Sweep
  PROVE  \E S \in SUBSET idle :
           /\ idle' = idle \ S /\ S # {} /\ victim' \in S /\ toKill' = S \ {victim'}
           /\ NextVictim(S, proc)
           /\ Cardinality(idle') = Cardinality(idle) - Cardinality(S)
           /\ Cardinality(S) \in Nat /\ Cardinality(idle') \in Nat
           /\ Cardinality(idle') >= MinWorkers \/ (MayDrain /\ S = idle)
<1>1. PICK S \in Sweepable \ {{}} :
        idle' = Survivors(S) /\ NextVictim(S, proc) /\ toKill' = S \ {victim'}
  BY DEF Sweep
<1>2. S \in SUBSET idle /\ S # {}
  BY DEF Sweepable
<1>3. IsFiniteSet(idle)
  BY PoolAssumption, FS_Subset DEF TypeInv, TypeOK
<1>4. IsFiniteSet(S) /\ IsFiniteSet(idle \ S)
  BY <1>2, <1>3, FS_Subset
<1>5. Cardinality(idle) = Cardinality(S) + Cardinality(idle \ S) - Cardinality({})
  <2>1. S \cup (idle \ S) = idle /\ S \cap (idle \ S) = {}
    BY <1>2
  <2>. QED BY <1>4, <2>1, FS_Union
<1>6. Cardinality({}) = 0 /\ Cardinality(S) \in Nat /\ Cardinality(idle \ S) \in Nat
  BY <1>4, FS_EmptySet, FS_CardinalityType
<1>7. \/ Cardinality(idle) - Cardinality(S) >= MinWorkers
      \/ MayDrain /\ S = idle
  BY <1>1 DEF Sweepable
<1>8. victim' \in S
  BY <1>1, <1>2, VictimUnmoved DEF TypeInv, TypeOK
<1>. QED BY <1>1, <1>2, <1>5, <1>6, <1>7, <1>8 DEF Survivors

LEMMA IdleCounted ==
  ASSUME TypeInv, OwnInv, CountInv
  PROVE  /\ idle \subseteq LaunchedWorkers /\ IsFiniteSet(idle)
         /\ Cardinality(idle) \in Nat /\ Cardinality(idle) <= total /\ total \in Nat
<1>1. idle \subseteq LaunchedWorkers
  BY DEF TypeInv, TypeOK, OwnInv, OwnedLaunched, LaunchedWorkers
<1>. QED BY <1>1, LaunchedFinite, FS_Subset, FS_CardinalityType DEF CountInv, Exact

\* Only a drain takes the pool below its floor, and "total == len(idle)" is then true of the
\* workers themselves: no request has one.
THEOREM SweepsSpareTheBusyPool == Spec => SweepSparesTheBusyPool
<1>. DEFINE Spares == Sweep /\ Cardinality(idle') < MinWorkers
                        => IdleScaleToZero /\ Held = {} /\ idle' = {}
<1>1. ASSUME TypeInv, OwnInv, CountInv PROVE Spares
  <2> SUFFICES ASSUME Sweep, Cardinality(idle') < MinWorkers
               PROVE  IdleScaleToZero /\ Held = {} /\ idle' = {}
    OBVIOUS
  <2>1. MayDrain /\ idle' = {}
    <3>1. PICK S \in SUBSET idle :
            /\ idle' = idle \ S /\ Cardinality(idle') \in Nat
            /\ Cardinality(idle') >= MinWorkers \/ (MayDrain /\ S = idle)
      BY <1>1, SweepTakes
    <3>2. ~(Cardinality(idle') >= MinWorkers)
      BY <3>1, PoolAssumption
    <3>. QED BY <3>1, <3>2
  <2>2. idle = LaunchedWorkers
    BY <1>1, <2>1, IdleCounted, LaunchedFinite, FS_Subset DEF MayDrain, CountInv, Exact
  <2>3. Held = {}
    BY <1>1, <2>2 DEF Held, LaunchedWorkers, TypeInv, RunHasWorker, OwnInv, HandsApart, OwnedLaunched
  <2>. QED BY <2>1, <2>3 DEF MayDrain
<1>2. TypeInv /\ OwnInv /\ CountInv /\ [Next]_vars => [Spares]_vars
  BY <1>1
<1>. QED BY <1>2, CountAlways, PTL DEF Spec, SweepSparesTheBusyPool

----------------------------------------------------------------------------
(* What stop() leaves running *)

\* stop() does not come while a sweep has a second worker to kill: it would lose that one.
SweepsEnd == [][Stop => toKill = {}]_vars

\* A sweep never has one.  It may have with any greater max_workers.
OneAtATime == ~IdleScaleToZero /\ MaxWorkers <= MinWorkers + 1

\* A live process is idle, in a request's hand or on the list of somebody who will kill
\* it, while the pool serves and while it stops.
AliveIsKept ==
  \A w \in Workers : proc[w] = "alive" =>
    \/ w \in idle \cup toKill \cup doomed
    \/ \E r \in Requests : pc[r] = "run" /\ worker[r] = w

\* No process comes to life, and none leaves its list alive.
LEMMA KeptUnmoved ==
  ASSUME AliveIsKept, toKill' = toKill,
         \A w \in Workers : proc'[w] = "alive" =>
           /\ proc[w] = "alive"
           /\ w \in idle => w \in idle' \/ w \in doomed' \/ \E r \in Requests : pc'[r] = "run" /\ worker'[r] = w
           /\ w \in doomed => w \in doomed'
           /\ \A r \in Requests : pc[r] = "run" /\ worker[r] = w => pc'[r] = "run" /\ worker'[r] = w
  PROVE  AliveIsKept'
BY DEF AliveIsKept

LEMMA KeptRequestStep ==
  ASSUME TypeInv, OwnInv, AliveIsKept, NEW r \in Requests, RequestStep(r)
  PROVE  AliveIsKept'
<1> USE DEF TypeInv, TypeOK, counters, shutdown
<1>1. CASE Arrive(r) \/ GiveUp(r)
  BY <1>1, KeptUnmoved DEF Arrive, GiveUp
<1>2. ASSUME NEW n, Turn(r, n), pc[r] \in {"enter", "woken"}, UNCHANGED shutdown PROVE AliveIsKept'
  <2>1. CASE pc' = [pc EXCEPT ![r] = "out"] /\ UNCHANGED <<proc, idle, worker>>
    BY <1>2, <2>1, KeptUnmoved
  <2>2. CASE /\ \E w \in idle, dead \in SUBSET {v \in idle : ~IsAlive(v)} :
                  /\ Drop(dead)
                  /\ idle' = idle \ (dead \cup {w})
                  /\ worker' = [worker EXCEPT ![r] = w]
             /\ pc' = [pc EXCEPT ![r] = "run"]
    <3>1. PICK w \in idle, dead \in SUBSET {v \in idle : ~IsAlive(v)} :
            /\ Drop(dead)
            /\ idle' = idle \ (dead \cup {w})
            /\ worker' = [worker EXCEPT ![r] = w]
      BY <2>2
    <3>. QED BY <1>2, <2>2, <3>1, KeptUnmoved DEF Drop, Dropped, IsAlive
  <2>3. CASE /\ \A w \in idle : ~IsAlive(w)
             /\ Drop(idle) /\ pc' = [pc EXCEPT ![r] = "parked"] /\ UNCHANGED worker
    BY <1>2, <2>3, KeptUnmoved DEF Drop, Dropped, IsAlive
  <2>. QED BY <1>2, <2>1, <2>2, <2>3 DEF Turn
<1>3. CASE Enter(r)
  BY <1>2, <1>3 DEF Enter
<1>4. CASE Wake(r)
  <2>1. CASE SpawnHopeless
    BY <1>4, <2>1, KeptUnmoved DEF Wake
  <2>2. CASE ~SpawnHopeless
    BY <1>2, <1>4, <2>2 DEF Wake
  <2>. QED BY <2>1, <2>2
<1>5. CASE Unwind(r)
  <2>1. PICK S \in SUBSET Parked : pc' = [Wakeup(S) EXCEPT ![r] = "out"]
    BY <1>5, NotifyParked DEF Unwind
  <2>. QED BY <1>5, <2>1, KeptUnmoved DEF Unwind, Wakeup, Parked
<1>6. CASE RunTimeout(r)
  BY <1>6, KeptUnmoved DEF RunTimeout, Killed
<1>7. ASSUME pc[r] = "run", BeginRelease(r), UNCHANGED <<idle, shutdown>> PROVE AliveIsKept'
  BY <1>7, KeptUnmoved DEF BeginRelease, Killed, RunHasWorker
<1>8. CASE RunEnds(r)
  BY <1>7, <1>8 DEF RunEnds
<1>9. CASE Cancel(r)
  <2>1. CASE pc[r] = "run"
    BY <1>7, <1>9, <2>1 DEF Cancel
  <2>2. CASE pc[r] # "run"
    BY <1>9, <2>2, KeptUnmoved DEF Cancel
  <2>. QED BY <2>1, <2>2
<1>. QED BY <1>1, <1>3, <1>4, <1>5, <1>6, <1>8, <1>9 DEF RequestStep

LEMMA KeptWorkerStep ==
  ASSUME TypeInv, OwnInv, AliveIsKept, NEW w \in Workers, WorkerStep(w)
  PROVE  AliveIsKept'
<1> USE DEF TypeInv, TypeOK, counters, shutdown
<1>1. CASE Exit(w) \/ Reap(w)
  BY <1>1, KeptUnmoved DEF Exit, Reap
<1>2. CASE SpawnOk(w) \/ SpawnFail(w)
  <2>1. PICK S \in SUBSET Parked : Landed(S)
    BY <1>2, NotifyParked DEF SpawnOk, SpawnFail
  <2>2. \A r \in Requests : pc'[r] = "run" <=> pc[r] = "run"
    BY <2>1 DEF Landed, Parked, Wakeup
  <2>3. UNCHANGED <<worker, toKill, doomed>> /\ idle \subseteq idle'
        /\ \A v \in Workers : proc'[v] = "alive" => proc[v] = "alive" \/ v \in idle'
    BY <1>2 DEF SpawnOk, SpawnFail
  <2>. QED BY <2>2, <2>3 DEF AliveIsKept
<1>3. CASE Release(w)
  <2>1. PICK place \in {"out", "respawn"} : Answered(w, place)
    BY <1>3 DEF Release
  <2>2. \A v \in Workers : proc'[v] = "alive" => proc[v] = "alive"
    BY <1>3 DEF Release, StartSpawn, Dropped
  <2>. QED BY <1>3, <2>1, <2>2, KeptUnmoved DEF Release, Answered
<1>. QED BY <1>1, <1>2, <1>3 DEF WorkerStep

LEMMA KeptStopStep ==
  ASSUME TypeInv, OwnInv, StopInv, AliveIsKept, Stop => toKill = {}, StopStep
  PROVE  AliveIsKept'
<1> USE DEF TypeInv, TypeOK, counters
<1>1. CASE Stop
  BY <1>1 DEF Stop, AliveIsKept
<1>2. CASE Snapshot \/ DrainDone
  BY <1>2, KeptUnmoved DEF Snapshot, DrainDone
<1>3. CASE DrainTimeout
  BY <1>3, KeptUnmoved DEF DrainTimeout, Dropped
<1>4. CASE TakeIdle
  BY <1>4, KeptUnmoved DEF TakeIdle, Wakeup, Parked, StopInv, DoomedDying
<1>5. CASE StopKill
  <2>1. CASE doomed = {}
    BY <1>5, <2>1, KeptUnmoved DEF StopKill
  <2>2. CASE doomed # {}
    <3>1. victim' \in doomed /\ doomed' = doomed \ {victim'}
          /\ UNCHANGED <<idle, pc, worker, toKill>>
          /\ \A w \in Workers : proc'[w] = "alive" => proc[w] = "alive" /\ w # victim'
      BY <1>5, <2>2 DEF StopKill, NextVictim
    <3>. QED BY <3>1 DEF AliveIsKept
  <2>. QED BY <2>1, <2>2
<1>6. CASE StopNext
  BY <1>6, KeptUnmoved DEF StopNext, Dropped
<1>. QED BY <1>1, <1>2, <1>3, <1>4, <1>5, <1>6 DEF StopStep

\* A sweep kills one of the workers it takes in the same step and keeps the others.
LEMMA KeptSweep ==
  ASSUME TypeInv, OwnInv, CountInv, AliveIsKept, Sweep
  PROVE  AliveIsKept'
<1>1. PICK S \in SUBSET idle :
        /\ idle' = idle \ S /\ victim' \in S /\ toKill' = S \ {victim'}
        /\ NextVictim(S, proc)
  BY SweepTakes
<1>2. \A w \in Workers : proc'[w] = "alive" => proc[w] = "alive" /\ w # victim'
  BY <1>1 DEF NextVictim, TypeInv, TypeOK
<1>3. toKill = {} /\ UNCHANGED <<pc, worker, doomed>>
  BY DEF Sweep, TypeInv, SweepPending
<1>. QED BY <1>1, <1>2, <1>3 DEF AliveIsKept

LEMMA KeptSweepNext ==
  ASSUME TypeInv, AliveIsKept, SweepNext
  PROVE  AliveIsKept'
<1>1. UNCHANGED <<idle, pc, worker, doomed>>
  BY DEF SweepNext
<1>2. \A w \in Workers : proc'[w] = "alive" => proc[w] = "alive" /\ (w \in toKill => w \in toKill')
  BY DEF SweepNext, NextVictim, Dropped, TypeInv, TypeOK
<1>. QED BY <1>1, <1>2 DEF AliveIsKept

LEMMA KeptNext ==
  ASSUME TypeInv, OwnInv, CountInv, StopInv, AliveIsKept, [Next]_vars, [Stop => toKill = {}]_vars
  PROVE  AliveIsKept'
<1> USE DEF counters, shutdown
<1>1. CASE \E r \in Requests : RequestStep(r)
  BY <1>1, KeptRequestStep
<1>2. CASE \E w \in Workers : WorkerStep(w)
  BY <1>2, KeptWorkerStep
<1>3. CASE Start \/ Grow
  <2>1. \A w \in Workers : proc'[w] = "alive" => proc[w] = "alive"
    BY <1>3 DEF Start, Grow, StartSpawn, TypeInv, TypeOK
  <2>. QED BY <1>3, <2>1, KeptUnmoved DEF Start, Grow
<1>4. CASE Sweep
  BY <1>4, KeptSweep
<1>5. CASE SweepNext
  BY <1>5, KeptSweepNext
<1>6. CASE StopStep
  BY <1>6, KeptStopStep DEF Stop, vars
<1>7. CASE Finished \/ UNCHANGED vars
  BY <1>7, KeptUnmoved DEF Finished, vars
<1>. QED BY <1>1, <1>2, <1>3, <1>4, <1>5, <1>6, <1>7 DEF Next

\* If stop() interrupts no sweep that has another worker to kill, it leaves nothing running
\* but what requests in flight still hold, also when its drain times out: the sweep's rest
\* (run pool_stop_leak) is all that it can lose.
THEOREM StopLosesOnlyTheSweep == Spec /\ SweepsEnd => []StopKillsTheRest
<1>1. Init => AliveIsKept
  BY DEF Init, AliveIsKept
<1>2. /\ TypeInv /\ OwnInv /\ CountInv /\ StopInv /\ AliveIsKept
      /\ [Next]_vars /\ [Stop => toKill = {}]_vars
      => AliveIsKept'
  BY KeptNext
<1>3. TypeInv /\ StopInv /\ AliveIsKept => StopKillsTheRest
  BY DEF TypeInv, SweepPending, StopInv, DoomedDying, StoppedIsEmpty, AliveIsKept,
         StopKillsTheRest, Held
<1>. QED BY <1>1, <1>2, <1>3, StopAlways, PTL DEF Spec, SweepsEnd

\* The idle workers above the floor are one at most, so a sweep takes one at most.
LEMMA SweepsOne ==
  ASSUME OneAtATime, TypeInv, OwnInv, CountInv, Sweep
  PROVE  toKill' = {}
<1>1. PICK S \in SUBSET idle :
        /\ idle' = idle \ S /\ S # {} /\ victim' \in S /\ toKill' = S \ {victim'}
        /\ NextVictim(S, proc)
        /\ Cardinality(idle') = Cardinality(idle) - Cardinality(S)
        /\ Cardinality(S) \in Nat /\ Cardinality(idle') \in Nat
        /\ Cardinality(idle') >= MinWorkers \/ (MayDrain /\ S = idle)
  BY SweepTakes
<1>2. Cardinality(S) <= 1 /\ IsFiniteSet(S)
  <2>1. Cardinality(idle) \in Nat /\ Cardinality(idle) <= MaxWorkers /\ IsFiniteSet(idle)
    BY IdleCounted, PoolAssumption DEF CountInv, WithinMax
  <2>. QED BY <1>1, <2>1, FS_Subset, PoolAssumption DEF OneAtATime, MayDrain
<1>3. S = {victim'}
  BY <1>1, <1>2, FS_EmptySet, FS_Singleton
<1>. QED BY <1>1, <1>3

LEMMA QueueStaysEmpty ==
  ASSUME OneAtATime, TypeInv, OwnInv, CountInv, toKill = {}, [Next]_vars
  PROVE  toKill' = {}
<1>1. CASE Sweep
  BY <1>1, SweepsOne
<1>2. CASE ~Sweep
  BY <1>2 DEF Next, RequestStep, Arrive, Enter, Wake, GiveUp, Unwind, RunTimeout, RunEnds, Cancel,
              WorkerStep, Exit, Reap, SpawnOk, SpawnFail, Release, Start, Grow, SweepNext,
              StopStep, Stop, Snapshot, DrainDone, DrainTimeout, TakeIdle, StopKill, StopNext,
              Finished, vars, shutdown
<1>. QED BY <1>1, <1>2

\* When a sweep has no more than one worker to kill at a time, stop() leaves nothing
\* running but what requests in flight still hold, whenever it comes.
THEOREM StopKillsAllButTheHeld ==
  ASSUME OneAtATime
  PROVE  Spec => []StopKillsTheRest
<1>1. Init => toKill = {}
  BY DEF Init
<1>2. TypeInv /\ OwnInv /\ CountInv /\ toKill = {} /\ [Next]_vars => (toKill = {})'
  BY OneAtATime, QueueStaysEmpty
<1>3. Spec => [](toKill = {})
  BY <1>1, <1>2, StopAlways, PTL DEF Spec
<1>4. toKill = {} => [Stop => toKill = {}]_vars
  OBVIOUS
<1>. QED BY <1>3, <1>4, StopLosesOnlyTheSweep, PTL DEF SweepsEnd

----------------------------------------------------------------------------
(* No waiter is stranded *)

\* A pool that keeps a floor, whose spawns do not fail, on a Python whose cancelled waiter
\* passes its notification on.  Without any one of these a waiter can be stranded.
NothingLost == ~SpawnMayFail /\ RenotifyOnCancel /\ ~IdleScaleToZero /\ MinWorkers > 0

Notified == {r \in Requests : pc[r] \in {"woken", "unwind"}}

\* What is being swept leaves the floor; and while somebody is parked, each idle worker has
\* a notified waiter who will take it or pass its turn on.
NoError        == spawnError = FALSE
FloorLeft      == Serving => Cardinality(toKill \cup Victim) + MinWorkers <= MaxWorkers
EnoughNotified == ~Stopped /\ Parked # {} => Cardinality(idle) <= Cardinality(Notified)

WakeInv == NoError /\ FloorLeft /\ EnoughNotified /\ NoStrandedWaiter

PoolInv == TypeInv /\ OwnInv /\ CountInv /\ WaitInv /\ StopInv

LEMMA NotifiedFinite ==
  ASSUME WaitInv PROVE IsFiniteSet(Notified) /\ Cardinality(Notified) \in Nat
<1>1. Notified \subseteq Waiters
  BY DEF Notified, Waiters
<1>. QED BY <1>1, FS_Subset, FS_CardinalityType DEF WaitInv

LEMMA NotifiedFiniteNext ==
  ASSUME WaitInv' PROVE IsFiniteSet(Notified') /\ Cardinality(Notified') \in Nat
<1>1. Notified' \subseteq Waiters'
  BY DEF Notified, Waiters
<1>. QED BY <1>1, FS_Subset, FS_CardinalityType DEF WaitInv

LEMMA SweptFinite ==
  ASSUME TypeInv PROVE IsFiniteSet(toKill \cup Victim) /\ Cardinality(toKill \cup Victim) \in Nat
<1>1. toKill \cup Victim \subseteq Workers
  BY DEF Victim, TypeInv, TypeOK
<1>. QED BY <1>1, PoolAssumption, FS_Subset, FS_CardinalityType

\* A full pool without idle workers has one that will come back through a release.
LEMMA FullPoolIsOut ==
  ASSUME NothingLost, PoolInv, FloorLeft, Serving, idle = {}, total >= MaxWorkers
  PROVE  releasing # {} \/ \E r \in Requests : pc[r] = "run"
<1> SUFFICES ASSUME releasing = {}, \A r \in Requests : pc[r] # "run" PROVE FALSE
  OBVIOUS
<1> USE DEF PoolInv, TypeInv, TypeOK, OwnInv
<1>1. LaunchedWorkers = toKill \cup Victim
  BY NobodyWorks DEF Victim, Tended, LaunchedWorkers, OwnedLaunched
<1>2. Cardinality(toKill \cup Victim) = total
  BY <1>1 DEF CountInv, Exact
<1>. QED BY <1>2, PoolAssumption DEF FloorLeft, NothingLost

\* Nothing is added to the idle workers or the sweep, and nobody parks or stops being
\* notified.
LEMMA WakeQuiet ==
  ASSUME PoolInv, PoolInv', NoError', FloorLeft, EnoughNotified,
         idle' \subseteq idle, toKill' \cup Victim' \subseteq toKill \cup Victim,
         Notified \subseteq Notified', Parked' \subseteq Parked, Serving' => Serving,
         NoStrandedWaiter'
  PROVE  WakeInv'
<1> USE DEF PoolInv
<1>1. FloorLeft'
  <2>1. Cardinality(toKill' \cup Victim') <= Cardinality(toKill \cup Victim)
    BY SweptFinite, FS_Subset
  <2>2. Cardinality(toKill' \cup Victim') \in Nat /\ Cardinality(toKill \cup Victim) \in Nat
    BY SweptFinite, FS_Subset, FS_CardinalityType
  <2>. QED BY <2>1, <2>2, PoolAssumption DEF FloorLeft
<1>2. EnoughNotified'
  <2>1. Cardinality(Notified) <= Cardinality(Notified')
    BY NotifiedFiniteNext, FS_Subset
  <2>2. Cardinality(idle') <= Cardinality(idle)
    BY IdleCounted, FS_Subset
  <2>3. /\ Cardinality(Notified) \in Nat /\ Cardinality(Notified') \in Nat
        /\ Cardinality(idle) \in Nat /\ Cardinality(idle') \in Nat
    BY NotifiedFinite, NotifiedFiniteNext, IdleCounted, FS_Subset, FS_CardinalityType
  <2>. QED BY <2>1, <2>2, <2>3 DEF EnoughNotified, Stopped, Serving
<1>. QED BY <1>1, <1>2 DEF WakeInv

\* One turn of a waiter's loop: a worker for a notified waiter, or a grow for the next.
LEMMA WakeTurn ==
  ASSUME NothingLost, PoolInv, PoolInv', WakeInv, NEW r \in Requests, NEW n, Turn(r, n),
         pc[r] \in {"enter", "woken"}, lock = "free",
         UNCHANGED <<spawnError, lock, releasing, shutdown>>
  PROVE  WakeInv'
<1> USE DEF PoolInv, TypeInv, TypeOK, WakeInv, shutdown
<1>0. NoError' /\ FloorLeft'
  BY DEF NoError, FloorLeft, Serving, Victim
<1>1. CASE Stopped /\ pc' = [pc EXCEPT ![r] = "out"] /\ UNCHANGED <<proc, idle, pendingGrows>>
  <2>1. Parked' = Parked
    BY <1>1 DEF Parked
  <2>2. NoStrandedWaiter'
    BY <1>1, <2>1 DEF NoStrandedWaiter, StopInv, StoppedIsEmpty, Stopped
  <2>. QED BY <1>0, <1>1, <2>2 DEF EnoughNotified, Stopped
<1>2. CASE /\ \E w \in idle, dead \in SUBSET {v \in idle : ~IsAlive(v)} :
                 idle' = idle \ (dead \cup {w})
           /\ pc' = [pc EXCEPT ![r] = "run"]
  <2>1. NoStrandedWaiter'
    BY <1>2 DEF NoStrandedWaiter
  <2>2. PICK w \in idle : idle' \subseteq idle \ {w}
    BY <1>2
  <2>3. Parked' = Parked /\ Notified' = Notified \ {r}
    BY <1>2 DEF Parked, Notified
  <2>4. Cardinality(idle') <= Cardinality(idle) - 1 /\ Cardinality(idle') \in Nat
    <3>1. IsFiniteSet(idle \ {w}) /\ Cardinality(idle \ {w}) = Cardinality(idle) - 1
      BY IdleCounted, FS_RemoveElement
    <3>. QED BY <2>2, <3>1, FS_Subset, FS_CardinalityType
  <2>5. Cardinality(Notified') >= Cardinality(Notified) - 1 /\ Cardinality(Notified') \in Nat
    <3>1. Cardinality(Notified \ {r}) >= Cardinality(Notified) - 1
      BY NotifiedFinite, FS_RemoveElement
    <3>. QED BY <2>3, <3>1, NotifiedFiniteNext
  <2>6. EnoughNotified'
    BY <2>3, <2>4, <2>5, NotifiedFinite, IdleCounted DEF EnoughNotified, Stopped
  <2>. QED BY <1>0, <2>1, <2>6
<1>3. CASE /\ ~Stopped /\ Drop(idle) /\ idle' = {}
           /\ pendingGrows' = IF total' < MaxWorkers THEN pendingGrows + 1 ELSE pendingGrows
           /\ pc' = [pc EXCEPT ![r] = "parked"]
  <2>1. EnoughNotified'
    BY <1>3, FS_EmptySet, NotifiedFiniteNext DEF EnoughNotified
  <2>2. CASE total' < MaxWorkers
    BY <1>0, <1>3, <2>1, <2>2 DEF NoStrandedWaiter
  <2>3. CASE ~(total' < MaxWorkers)
    <3>1. total' = total - Cardinality(idle)
      BY <1>3 DEF Drop
    <3>2. /\ total >= MaxWorkers
          /\ Cardinality(idle) = 0
      BY <2>3, <3>1, IdleCounted, PoolAssumption DEF CountInv, WithinMax
    <3>3. idle = {} /\ Serving
      BY <1>3, <3>2, IdleCounted, FS_EmptySet DEF Stopped, Serving
    <3>4. releasing # {} \/ \E q \in Requests : pc[q] = "run"
      BY <3>2, <3>3, FullPoolIsOut
    <3>5. releasing' # {} \/ \E q \in Requests : pc'[q] = "run"
      BY <1>3, <3>4
    <3>. QED BY <1>0, <2>1, <3>5 DEF NoStrandedWaiter
  <2>. QED BY <1>0, <2>1, <2>2, <2>3
<1>. QED BY <1>1, <1>2, <1>3 DEF Turn

LEMMA WakeRequestStep ==
  ASSUME NothingLost, PoolInv, PoolInv', WakeInv, NEW r \in Requests, RequestStep(r)
  PROVE  WakeInv'
<1> USE DEF PoolInv, TypeInv, TypeOK, WakeInv, counters, shutdown, Serving, Victim, NoError
<1>1. CASE Arrive(r)
  BY <1>1, WakeQuiet DEF Arrive, Parked, Notified, NoStrandedWaiter
<1>2. CASE Enter(r)
  BY <1>2, WakeTurn DEF Enter
<1>3. CASE Wake(r)
  BY <1>3, WakeTurn DEF Wake, SpawnHopeless
<1>4. CASE GiveUp(r)
  BY <1>4, WakeQuiet DEF GiveUp, Parked, Notified, NoStrandedWaiter, NothingLost
<1>5. CASE Unwind(r)
  <2>1. PICK S \in Notify : pc' = [Wakeup(S) EXCEPT ![r] = "out"]
    BY <1>5 DEF Unwind, NothingLost
  <2>2. S \subseteq Parked /\ pc[r] = "unwind" /\ idle' = idle
    BY <1>5, <2>1, NotifyParked DEF Unwind
  <2>3. FloorLeft'
    BY <1>5 DEF Unwind, FloorLeft
  <2>4. CASE Parked = {}
    <3>1. Parked' = {}
      BY <2>1, <2>2, <2>4 DEF Parked, Wakeup
    <3>. QED BY <1>5, <2>3, <3>1 DEF Unwind, EnoughNotified, NoStrandedWaiter
  <2>5. CASE Parked # {}
    <3>1. PICK q \in Parked : S = {q}
      BY <2>1, <2>5 DEF Notify
    <3>2. pc'[q] = "woken"
      BY <2>1, <2>2, <3>1 DEF Parked, Wakeup
    <3>3. Notified' = (Notified \ {r}) \cup {q} /\ q \notin Notified /\ r \in Notified
      BY <2>1, <2>2, <3>1 DEF Parked, Wakeup, Notified
    <3>4. Cardinality(Notified') = Cardinality(Notified)
      <4>1. /\ IsFiniteSet(Notified \ {r})
            /\ Cardinality(Notified \ {r}) = Cardinality(Notified) - 1
        BY <3>3, NotifiedFinite, FS_RemoveElement
      <4>2. /\ q \notin Notified \ {r}
            /\ Cardinality((Notified \ {r}) \cup {q}) = Cardinality(Notified \ {r}) + 1
        BY <3>3, <4>1, FS_AddElement
      <4>. QED BY <3>3, <4>1, <4>2, NotifiedFinite
    <3>5. EnoughNotified'
      BY <1>5, <2>2, <2>5, <3>4 DEF Unwind, EnoughNotified, Stopped
    <3>. QED BY <1>5, <2>3, <3>1, <3>2, <3>5 DEF Unwind, NoStrandedWaiter, Parked
  <2>. QED BY <2>4, <2>5
<1>6. CASE RunTimeout(r)
  BY <1>6, WakeQuiet DEF RunTimeout, Parked, Notified, NoStrandedWaiter
<1>7. CASE RunEnds(r) \/ Cancel(r)
  <2>1. /\ UNCHANGED <<idle, counters, lock, shutdown>>
        /\ Parked' = Parked /\ Notified' = Notified
        /\ releasing \subseteq releasing'
        /\ \A q \in Requests : pc[q] \in {"woken", "run", "unwind"}
                                 => pc'[q] = pc[q] \/ releasing' # {}
    BY <1>7 DEF RunEnds, Cancel, BeginRelease, Parked, Notified
  <2>2. NoStrandedWaiter'
    BY <2>1 DEF NoStrandedWaiter
  <2>. QED BY <2>1, <2>2, WakeQuiet
<1>. QED BY <1>1, <1>2, <1>3, <1>4, <1>5, <1>6, <1>7 DEF RequestStep

LEMMA WakeWorkerStep ==
  ASSUME NothingLost, PoolInv, PoolInv', WakeInv, NEW w \in Workers, WorkerStep(w)
  PROVE  WakeInv'
<1> USE DEF PoolInv, TypeInv, TypeOK, WakeInv, counters, shutdown, Serving, Victim, NoError
<1>1. CASE Exit(w) \/ Reap(w)
  BY <1>1, WakeQuiet DEF Exit, Reap, Parked, Notified, NoStrandedWaiter
<1>2. CASE SpawnOk(w)
  <2>1. PICK S \in Notify : Landed(S)
    BY <1>2 DEF SpawnOk
  <2>2. NoError' /\ FloorLeft'
    BY <1>2 DEF SpawnOk, FloorLeft
  <2>3. idle' = idle \cup {w} /\ w \notin idle
    BY <1>2 DEF SpawnOk, OwnInv, OwnedLaunched, Launched
  <2>4. CASE Parked = {}
    <3>1. Parked' = {}
      BY <2>1, <2>4, NotifyParked DEF Landed, Parked, Wakeup
    <3>. QED BY <2>2, <3>1 DEF EnoughNotified, NoStrandedWaiter
  <2>5. CASE Parked # {}
    <3>1. PICK q \in Parked : S = {q}
      BY <2>1, <2>5 DEF Notify
    <3>2. pc'[q] = "woken"
      BY <2>1, <3>1 DEF Landed, Parked, Wakeup
    <3>3. Notified' = Notified \cup {q} /\ q \notin Notified
      BY <2>1, <3>1 DEF Landed, Parked, Wakeup, Notified
    <3>4. /\ Cardinality(Notified') = Cardinality(Notified) + 1
          /\ Cardinality(idle') = Cardinality(idle) + 1
      BY <2>3, <3>3, NotifiedFinite, IdleCounted, FS_AddElement
    <3>5. EnoughNotified'
      BY <1>2, <2>5, <3>4, NotifiedFinite, IdleCounted DEF SpawnOk, EnoughNotified, Stopped
    <3>. QED BY <2>2, <3>1, <3>2, <3>5 DEF NoStrandedWaiter, Parked
  <2>. QED BY <2>4, <2>5
<1>3. CASE SpawnFail(w)
  BY <1>3 DEF SpawnFail, NothingLost
<1>4. CASE Release(w)
  <2>1. PICK place \in {"out", "respawn"} : Answered(w, place)
    BY <1>4 DEF Release
  <2>2. Parked' = Parked /\ Notified' = Notified
    BY <2>1 DEF Answered, Parked, Notified
  <2>3. NoStrandedWaiter'
    <3> SUFFICES ASSUME Parked # {} PROVE NoStrandedWaiter'
      BY <2>2 DEF NoStrandedWaiter
    <3>1. CASE Stopped
      BY <1>4, <3>1 DEF Release, NoStrandedWaiter, StopInv, StoppedIsEmpty, Stopped
    <3>2. CASE ~Stopped
      <4>1. waiting > 0
        <5>1. Waiters # {}
          BY DEF Parked, Waiters
        <5>. QED BY <5>1, FS_EmptySet, FS_CardinalityType DEF WaitInv
      <4>2. total' < MaxWorkers
        BY <1>4, PoolAssumption DEF Release, CountInv, WithinMax
      <4>3. lock' = "release"
        BY <1>4, <3>2, <4>1, <4>2 DEF Release, MayRefill, StartSpawn
      <4>. QED BY <4>3 DEF NoStrandedWaiter
    <3>. QED BY <3>1, <3>2
  <2>. QED BY <1>4, <2>2, <2>3, WakeQuiet DEF Release
<1>. QED BY <1>1, <1>2, <1>3, <1>4 DEF WorkerStep

LEMMA WakeStopStep ==
  ASSUME NothingLost, PoolInv, PoolInv', WakeInv, StopStep
  PROVE  WakeInv'
<1> USE DEF PoolInv, TypeInv, TypeOK, WakeInv, counters, Serving, Victim, NoError
<1>1. ~Serving' /\ Stopped' /\ NoError'
  BY DEF StopStep, Stop, Snapshot, DrainDone, DrainTimeout, TakeIdle, StopKill, StopNext, Stopped
<1>2. NoStrandedWaiter'
  <2>1. CASE Stop \/ Snapshot \/ DrainDone \/ DrainTimeout
    BY <2>1 DEF Stop, Snapshot, DrainDone, DrainTimeout, NoStrandedWaiter
  <2>2. CASE TakeIdle \/ StopKill \/ StopNext
    <3>1. life' \in {"dying", "done"}
      BY <2>2 DEF TakeIdle, StopKill, StopNext
    <3>. QED BY <3>1 DEF NoStrandedWaiter, StopInv, StoppedIsEmpty
  <2>. QED BY <2>1, <2>2 DEF StopStep
<1>. QED BY <1>1, <1>2 DEF FloorLeft, EnoughNotified

LEMMA WakeSweep ==
  ASSUME NothingLost, PoolInv, PoolInv', WakeInv, Sweep
  PROVE  WakeInv'
<1> USE DEF PoolInv, TypeInv, TypeOK, WakeInv, counters, Serving, NoError
<1>1. PICK S \in SUBSET idle :
        /\ idle' = idle \ S /\ victim' \in S /\ toKill' = S \ {victim'}
        /\ Cardinality(idle') = Cardinality(idle) - Cardinality(S)
        /\ Cardinality(S) \in Nat /\ Cardinality(idle') \in Nat
        /\ Cardinality(idle') >= MinWorkers \/ MayDrain
  BY SweepTakes
<1>2. UNCHANGED <<counters, lock, pc, releasing, life>>
  BY DEF Sweep
<1>3. toKill' \cup Victim' = S
  BY <1>1, NobodyWorks DEF Victim
<1>4. FloorLeft'
  <2>1. Cardinality(idle') >= MinWorkers
    BY <1>1 DEF NothingLost, MayDrain
  <2>2. Cardinality(idle) <= MaxWorkers /\ Cardinality(idle) \in Nat
    BY IdleCounted, PoolAssumption DEF CountInv, WithinMax
  <2>3. Cardinality(S) + MinWorkers <= MaxWorkers
    BY <1>1, <2>1, <2>2, PoolAssumption
  <2>4. Cardinality(toKill' \cup Victim') + MinWorkers <= MaxWorkers
    BY <1>3, <2>3
  <2>. QED BY <2>4 DEF FloorLeft
<1>5. Parked' = Parked /\ Notified' = Notified
  BY <1>2 DEF Parked, Notified
<1>6. EnoughNotified'
  BY <1>1, <1>2, <1>5, IdleCounted, NotifiedFinite DEF EnoughNotified, Stopped
<1>. QED BY <1>2, <1>4, <1>5, <1>6 DEF NoStrandedWaiter

LEMMA WakeNext ==
  ASSUME NothingLost, PoolInv, PoolInv', WakeInv, [Next]_vars
  PROVE  WakeInv'
<1> USE DEF PoolInv, TypeInv, TypeOK, WakeInv, counters, shutdown, Serving, NoError
<1>1. CASE \E r \in Requests : RequestStep(r)
  BY <1>1, WakeRequestStep
<1>2. CASE \E w \in Workers : WorkerStep(w)
  BY <1>2, WakeWorkerStep
<1>3. CASE Start
  BY <1>3, WakeQuiet DEF Start, StartSpawn, Parked, Notified, NoStrandedWaiter, Victim
<1>4. CASE Grow
  <2>1. NoStrandedWaiter'
    <3>1. CASE MayGrow
      BY <1>4, <3>1 DEF Grow, StartSpawn, NoStrandedWaiter
    <3>2. CASE Stopped
      BY <1>4, <3>2 DEF Grow, NoStrandedWaiter, StopInv, StoppedIsEmpty, Stopped, Parked
    <3>3. CASE ~Stopped /\ total >= MaxWorkers
      <4>1. CASE Parked = {} \/ Notified # {}
        BY <1>4, <4>1 DEF Grow, NoStrandedWaiter, Parked, Notified, NothingLost
      <4>2. CASE Parked # {} /\ Notified = {}
        <5>1. idle = {}
          BY <3>3, <4>2, IdleCounted, FS_EmptySet DEF EnoughNotified
        <5>. QED BY <1>4, <3>3, <5>1, FullPoolIsOut DEF Grow, NoStrandedWaiter, Stopped
      <4>. QED BY <4>1, <4>2
    <3>. QED BY <3>1, <3>2, <3>3, PoolAssumption DEF MayGrow
  <2>. QED BY <1>4, <2>1, WakeQuiet DEF Grow, Parked, Notified, Victim
<1>5. CASE Sweep
  BY <1>5, WakeSweep
<1>6. CASE SweepNext
  <2>1. toKill' \cup Victim' \subseteq toKill \cup Victim
    <3>1. Dropped({victim}) \in [Workers -> Processes]
      BY DEF Dropped
    <3>. QED BY <1>6, <3>1, VictimUnmoved DEF SweepNext, Victim
  <2>. QED BY <1>6, <2>1, WakeQuiet DEF SweepNext, Parked, Notified, NoStrandedWaiter
<1>7. CASE StopStep
  BY <1>7, WakeStopStep
<1>8. CASE Finished \/ UNCHANGED vars
  BY <1>8, WakeQuiet DEF Finished, vars, Parked, Notified, NoStrandedWaiter, Victim
<1>. QED BY <1>1, <1>2, <1>3, <1>4, <1>5, <1>6, <1>7, <1>8 DEF Next

LEMMA WakeInit == Init => WakeInv
<1> SUFFICES ASSUME Init PROVE WakeInv
  OBVIOUS
<1>1. toKill \cup Victim = {} /\ Parked = {} /\ spawnError = FALSE
  BY Zenon DEF Init, Victim, Parked
<1>. QED BY <1>1, FS_EmptySet, PoolAssumption
         DEF WakeInv, NoError, FloorLeft, EnoughNotified, NoStrandedWaiter

\* Where spawns succeed there is more than the comment at pool.py:97-101 promises: always
\* something in flight that will wake a parked caller, whatever is cancelled, timed out, swept or
\* stopped meanwhile.
THEOREM NobodyIsStranded ==
  ASSUME NothingLost
  PROVE  Spec => []NoStrandedWaiter
<1>1. Spec => []PoolInv
  BY StopAlways DEF PoolInv
<1>2. PoolInv /\ PoolInv' /\ WakeInv /\ [Next]_vars => WakeInv'
  BY NothingLost, WakeNext
<1>3. WakeInv => NoStrandedWaiter
  BY DEF WakeInv
<1>. QED BY <1>1, <1>2, <1>3, WakeInit, PTL DEF Spec

----------------------------------------------------------------------------
(* Refusals: a recorded failure against the callers that came after it *)

\* While an error is recorded the pool has room, so that whoever parks schedules a grow;
\* until that grow has failed too, before the caller's eyes, it is in flight.
FreshInv ==
  Serving /\ spawnError =>
    /\ total < MaxWorkers
    /\ \A r \in Requests : pc[r] \in {"parked", "woken"} => r \in seen \/ pendingGrows > 0

\* Nobody starts to wait, no grow ends, and the error is not a new one.
LEMMA FreshQuiet ==
  ASSUME TypeInv, TypeInv', FreshInv, Remember,
         Serving' /\ spawnError' => Serving /\ spawnError,
         total' <= total, pendingGrows' >= pendingGrows,
         \A r \in Requests : pc'[r] \in {"parked", "woken"} => pc[r] \in {"parked", "woken"}
  PROVE  FreshInv'
<1> USE PoolAssumption DEF TypeInv, TypeOK
<1> SUFFICES ASSUME Serving', spawnError'
             PROVE  /\ total' < MaxWorkers
                    /\ \A r \in Requests : pc'[r] \in {"parked", "woken"}
                                            => r \in seen' \/ pendingGrows' > 0
  BY DEF FreshInv
<1>1. total < MaxWorkers
  BY DEF FreshInv
<1>2. ASSUME NEW r \in Requests, pc'[r] \in {"parked", "woken"}
      PROVE  r \in seen' \/ pendingGrows' > 0
  <2>1. r \in seen \/ pendingGrows > 0
    BY <1>2 DEF FreshInv
  <2>2. r \in Waiters'
    BY <1>2 DEF Waiters
  <2>. QED BY <2>1, <2>2 DEF Remember
<1>. QED BY <1>1, <1>2

LEMMA FreshTurn ==
  ASSUME TypeInv, TypeInv', FreshInv, Remember, NEW r \in Requests, NEW n, Turn(r, n),
         pc[r] \in {"enter", "woken"}, UNCHANGED <<spawnError, life>>
  PROVE  FreshInv'
<1> USE DEF TypeInv, TypeOK
<1>1. CASE Stopped
  BY <1>1 DEF FreshInv, Stopped, Serving
<1>2. ASSUME NEW S \in SUBSET Workers, Drop(S) PROVE total' <= total
  <2>1. Cardinality(S) \in Nat
    BY PoolAssumption, FS_Subset, FS_CardinalityType
  <2>. QED BY <1>2, <2>1 DEF Drop
<1>3. CASE pc' = [pc EXCEPT ![r] = "run"] /\ UNCHANGED pendingGrows
           /\ \E S \in SUBSET idle : Drop(S)
  BY <1>2, <1>3, FreshQuiet DEF Serving
<1>4. CASE /\ pc' = [pc EXCEPT ![r] = "parked"] /\ Drop(idle)
           /\ pendingGrows' = IF total' < MaxWorkers THEN pendingGrows + 1 ELSE pendingGrows
  BY <1>2, <1>4, PoolAssumption DEF FreshInv, Serving
<1>. QED BY <1>1, <1>3, <1>4 DEF Turn

LEMMA FreshRequestStep ==
  ASSUME TypeInv, TypeInv', FreshInv, Remember, NEW r \in Requests, RequestStep(r)
  PROVE  FreshInv'
<1> USE DEF TypeInv, TypeOK, counters, shutdown
<1>1. CASE Arrive(r) \/ GiveUp(r)
  BY <1>1, FreshQuiet DEF Arrive, GiveUp, Serving
<1>2. CASE Enter(r)
  BY <1>2, FreshTurn DEF Enter
<1>3. CASE Wake(r)
  <2>1. CASE SpawnHopeless
    BY <1>3, <2>1, FreshQuiet DEF Wake, Serving
  <2>2. CASE ~SpawnHopeless
    BY <1>3, <2>2, FreshTurn DEF Wake
  <2>. QED BY <2>1, <2>2
<1>4. CASE Unwind(r)
  <2>1. PICK S \in SUBSET Parked : pc' = [Wakeup(S) EXCEPT ![r] = "out"]
    BY <1>4, NotifyParked DEF Unwind
  <2>2. \A q \in Requests : pc'[q] \in {"parked", "woken"} => pc[q] \in {"parked", "woken"}
    BY <2>1 DEF Wakeup, Parked
  <2>. QED BY <1>4, <2>2, FreshQuiet DEF Unwind, Serving
<1>5. CASE RunTimeout(r) \/ RunEnds(r) \/ Cancel(r)
  BY <1>5, FreshQuiet DEF RunTimeout, RunEnds, Cancel, BeginRelease, Serving
<1>. QED BY <1>1, <1>2, <1>3, <1>4, <1>5 DEF RequestStep

LEMMA FreshWorkerStep ==
  ASSUME TypeInv, TypeInv', CountInv, FreshInv, Remember, NEW w \in Workers, WorkerStep(w)
  PROVE  FreshInv'
<1> USE DEF TypeInv, TypeOK, counters, shutdown
<1>1. CASE Exit(w) \/ Reap(w)
  BY <1>1, FreshQuiet DEF Exit, Reap, Serving
<1>2. CASE SpawnOk(w)
  BY <1>2 DEF SpawnOk, FreshInv
<1>3. CASE SpawnFail(w)
  <2>1. CASE lock = "start"
    BY <1>3, <2>1 DEF SpawnFail, FreshInv, Serving
  <2>2. CASE lock # "start"
    <3>1. PICK S \in SUBSET Parked : Landed(S)
      BY <1>3, <2>2, NotifyParked DEF SpawnFail
    <3>2. SpawnFails /\ total' < MaxWorkers
      BY <1>3 DEF SpawnFail, SpawnFails, CountInv, SpawnLocked, SpawnerRoom
    <3>3. \A r \in Requests : pc'[r] \in {"parked", "woken"} => r \in Waiters /\ r \in Waiters'
      BY <3>1 DEF Landed, Wakeup, Parked, Waiters
    <3>. QED BY <3>2, <3>3 DEF Remember, FreshInv
  <2>. QED BY <2>1, <2>2
<1>4. CASE Release(w)
  <2>1. PICK place \in {"out", "respawn"} : Answered(w, place)
    BY <1>4 DEF Release
  <2>. QED BY <1>4, <2>1, FreshQuiet DEF Release, Answered, Serving
<1>. QED BY <1>1, <1>2, <1>3, <1>4 DEF WorkerStep

LEMMA FreshNext ==
  ASSUME TypeInv, TypeInv', CountInv, FreshInv, [Next /\ Remember]_<<vars, seen>>
  PROVE  FreshInv'
<1> USE DEF TypeInv, TypeOK, counters, shutdown
<1>1. CASE UNCHANGED <<vars, seen>>
  BY <1>1 DEF vars, FreshInv, Serving
<1>2. CASE Next /\ Remember
  <2>1. CASE \E r \in Requests : RequestStep(r)
    BY <1>2, <2>1, FreshRequestStep
  <2>2. CASE \E w \in Workers : WorkerStep(w)
    BY <1>2, <2>2, FreshWorkerStep
  <2>3. CASE Start
    BY <1>2, <2>3, FreshQuiet DEF Start, Serving
  <2>4. CASE Grow
    <3>1. CASE MayGrow \/ ~(Serving /\ spawnError)
      BY <1>2, <2>4, <3>1, FreshQuiet DEF Grow, FreshInv, Serving
    <3>2. CASE Serving /\ spawnError
      BY <2>4, <3>1, <3>2 DEF FreshInv, MayGrow, Stopped, Serving
    <3>. QED BY <3>1, <3>2
  <2>5. CASE Sweep \/ SweepNext
    BY <1>2, <2>5, FreshQuiet DEF Sweep, SweepNext, Serving
  <2>6. CASE StopStep
    BY <2>6 DEF StopStep, Stop, Snapshot, DrainDone, DrainTimeout, TakeIdle, StopKill, StopNext,
                FreshInv, Serving
  <2>7. CASE Finished
    BY <1>2, <2>7, FreshQuiet DEF Finished, vars, Serving
  <2>. QED BY <1>2, <2>1, <2>2, <2>3, <2>4, <2>5, <2>6, <2>7 DEF Next
<1>. QED BY <1>1, <1>2

\* Only a hopeless spawn turns a notified waiter away while the pool serves.
LEMMA RefusedBySpawn ==
  ASSUME TypeInv, Next, NEW r \in Requests, life = "up", pc[r] = "woken", pc'[r] = "out"
  PROVE  SpawnHopeless
<1> USE DEF TypeInv, TypeOK, counters, shutdown
<1>1. CASE \E q \in Requests : RequestStep(q)
  <2>1. PICK q \in Requests : RequestStep(q)
    BY <1>1
  <2>2. CASE q = r
    <3>1. Wake(r)
      BY <2>1, <2>2 DEF RequestStep, Arrive, Enter, GiveUp, Unwind, RunTimeout, RunEnds, Cancel
    <3>2. ~Turn(r, LeftWait)
      BY DEF Turn, Stopped
    <3>. QED BY <3>1, <3>2 DEF Wake
  <2>3. CASE q # r
    <3>1. CASE Unwind(q)
      BY <2>3, <3>1 DEF Unwind, Wakeup, Notify
    <3>2. CASE Enter(q) \/ Wake(q)
      BY <2>3, <3>2 DEF Enter, Wake, Turn
    <3>. QED BY <2>1, <2>3, <3>1, <3>2
             DEF RequestStep, Arrive, GiveUp, RunTimeout, RunEnds, Cancel, BeginRelease
  <2>. QED BY <2>2, <2>3
<1>2. CASE \E w \in Workers : WorkerStep(w)
  <2>1. PICK w \in Workers : WorkerStep(w)
    BY <1>2
  <2>. QED BY <2>1 DEF WorkerStep, Exit, Reap, SpawnOk, SpawnFail, Release, Landed, Wakeup, Answered
<1>3. CASE Start \/ Grow \/ Sweep \/ SweepNext \/ Finished
  BY <1>3 DEF Start, Grow, Sweep, SweepNext, Finished, vars
<1>4. CASE StopStep
  BY <1>4 DEF StopStep, Stop, Snapshot, DrainDone, DrainTimeout, TakeIdle, StopKill, StopNext
<1>. QED BY <1>1, <1>2, <1>3, <1>4 DEF Next

\* However long an error stays recorded, and whatever else wakes a waiter, it is refused
\* only for a failure it has waited through; for any callers, workers and bounds.
THEOREM RefusalsAreFresh == RefusalSpec => RefusalIsFresh
<1>1. RefusalSpec => Spec
  <2>1. [Next /\ Remember]_<<vars, seen>> => [Next]_vars
    BY DEF vars
  <2>. QED BY <2>1, PTL DEF RefusalSpec, Spec
<1>2. Init => FreshInv
  BY DEF Init, FreshInv
<1>3. TypeInv /\ TypeInv' /\ CountInv /\ FreshInv /\ [Next /\ Remember]_<<vars, seen>> => FreshInv'
  BY FreshNext
<1>4. TypeInv /\ FreshInv /\ [Next /\ Remember]_<<vars, seen>>
        => [\A r \in Requests :
              life = "up" /\ pc[r] = "woken" /\ pc'[r] = "out" => r \in seen]_<<vars, seen>>
  BY RefusedBySpawn DEF FreshInv, SpawnHopeless, Serving
<1>. QED BY <1>1, <1>2, <1>3, <1>4, CountAlways, PTL DEF RefusalSpec, RefusalIsFresh
=============================================================================
