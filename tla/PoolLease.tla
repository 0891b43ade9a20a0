---------------------------- MODULE PoolLease -----------------------------
(* Pool implements WorkerLease: every step of the pool is a step of the      *)
(* abstract lease of workers, or changes nothing of it.                      *)
EXTENDS PoolProofs

USE DEF Processes, Holders, Places, Lives

\* The stages in terms of the lists that own workers.
StagesAre ==
  /\ \A w \in Workers :
       /\ Stage(w) = "absent" <=> proc[w] \notin Launched
       /\ Stage(w) = "ready" <=> w \in idle
       /\ Stage(w) = "lent" <=> \E r \in Requests : pc[r] = "run" /\ worker[r] = w
       /\ Stage(w) \in {"absent", "ready", "lent", "retired"}
  /\ \A r \in Requests : pc[r] = "run" => worker[r] \in Workers /\ worker[r] # NoWorker

LEMMA StagesDefined == TypeInv /\ OwnInv => StagesAre
<1> SUFFICES ASSUME TypeInv, OwnInv PROVE StagesAre
  OBVIOUS
<1> USE DEF TypeInv, TypeOK, OwnInv
<1>1. \A r \in Requests : pc[r] = "run" => worker[r] \in Workers /\ worker[r] # NoWorker
  BY NobodyWorks DEF RunHasWorker
<1> SUFFICES ASSUME NEW w \in Workers
             PROVE  /\ Stage(w) = "absent" <=> proc[w] \notin Launched
                    /\ Stage(w) = "ready" <=> w \in idle
                    /\ Stage(w) = "lent" <=> \E r \in Requests : pc[r] = "run" /\ worker[r] = w
                    /\ Stage(w) \in {"absent", "ready", "lent", "retired"}
  BY <1>1 DEF StagesAre
<1>2. w \in Held <=> \E r \in Requests : pc[r] = "run" /\ worker[r] = w
  BY DEF Held
<1>. QED BY <1>2 DEF Stage, OwnedLaunched, HandsApart, Launched

LEMMA StagesNext == (TypeInv /\ OwnInv)' => StagesAre'
BY StagesDefined, PTL

Before == TypeInv /\ OwnInv /\ CountInv /\ StagesAre

----------------------------------------------------------------------------
(* Steps that the lease does not see, and steps that it does *)

LEMMA LeaseUnmoved ==
  ASSUME Before, StagesAre', idle' = idle,
         \A r \in Requests : /\ pc'[r] = "run" <=> pc[r] = "run"
                             /\ pc[r] = "run" => worker'[r] = worker[r],
         \A w \in Workers : /\ proc'[w] \in Launched <=> proc[w] \in Launched
                            /\ IsAlive(w)' <=> IsAlive(w)
  PROVE  UNCHANGED Lease!leaseVars
<1>1. \A w \in Workers : Stage(w)' = Stage(w)
  BY DEF Before, StagesAre
<1>2. stageMap' = stageMap
  BY <1>1 DEF stageMap
<1>3. runningMap' = runningMap
  BY DEF runningMap
<1>4. leaseMap' = leaseMap
  BY DEF leaseMap
<1>. QED BY <1>2, <1>3, <1>4 DEF Lease!leaseVars

LEMMA LeaseInit == Init => Lease!LeaseInit
<1> SUFFICES ASSUME Init PROVE Lease!LeaseInit
  OBVIOUS
<1>1. stageMap = [w \in Workers |-> "absent"]
  BY DEF Init, stageMap, Stage
<1>2. runningMap = {}
  BY DEF Init, runningMap, IsAlive
<1>3. leaseMap = [r \in Requests |-> NoWorker]
  BY DEF Init, leaseMap
<1>. QED BY <1>1, <1>2, <1>3 DEF Lease!LeaseInit

\* Nobody is lent, or gives back, a worker.
SameHands ==
  \A r \in Requests : /\ pc'[r] = "run" <=> pc[r] = "run"
                      /\ pc[r] = "run" => worker'[r] = worker[r]

SameProcess(w) ==
  (proc'[w] \in Launched <=> proc[w] \in Launched) /\ (IsAlive(w)' <=> IsAlive(w))

LEMMA SameLeaseMap == ASSUME SameHands PROVE leaseMap' = leaseMap
BY DEF SameHands, leaseMap

\* A retired worker whose process has ended leaves.
LEMMA LeaseForget ==
  ASSUME Before, StagesAre', SameHands, idle' = idle,
         NEW w \in Workers, proc[w] = "dead", proc'[w] \notin Launched, w \notin idle,
         \A r \in Requests : pc[r] = "run" => worker[r] # w,
         \A v \in Workers \ {w} : SameProcess(v)
  PROVE  Lease!Forget(w)
<1>1. stageMap[w] = "retired" /\ w \notin runningMap
  BY DEF stageMap, runningMap, Before, StagesAre, Launched, IsAlive
<1>2. \A v \in Workers : Stage(v)' = IF v \in {w} THEN "absent" ELSE stageMap[v]
  BY DEF stageMap, SameHands, SameProcess, Before, StagesAre
<1>3. stageMap' = [v \in Workers |-> IF v \in {w} THEN "absent" ELSE stageMap[v]]
  BY <1>2 DEF stageMap
<1>4. runningMap' = runningMap
  BY DEF runningMap, SameProcess, IsAlive, Launched
<1>. QED BY <1>1, <1>3, <1>4, SameLeaseMap DEF Lease!Forget, Lease!Move

\* Idle workers are taken out of the pool to be killed.
LEMMA LeaseRetire ==
  ASSUME Before, StagesAre', SameHands, NEW S \in SUBSET idle, idle' = idle \ S,
         \A v \in Workers : SameProcess(v)
  PROVE  Lease!Retire(S) /\ S \in SUBSET Workers
<1>1. S \subseteq Lease!At("ready") /\ S \in SUBSET Workers
  BY DEF Lease!At, stageMap, Before, StagesAre, TypeInv, TypeOK
<1>2. \A v \in Workers : Stage(v)' = IF v \in S THEN "retired" ELSE stageMap[v]
  BY DEF stageMap, SameHands, SameProcess, Before, StagesAre, OwnInv, HandsApart
<1>3. stageMap' = [v \in Workers |-> IF v \in S THEN "retired" ELSE stageMap[v]]
  BY <1>2 DEF stageMap
<1>4. runningMap' = runningMap
  BY DEF runningMap, SameProcess
<1>. QED BY <1>1, <1>3, <1>4, SameLeaseMap DEF Lease!Retire, Lease!Move

\* A run ends: its release begins in the same step.
LEMMA LeaseGiveBack ==
  ASSUME Before, StagesAre', NEW r \in Requests, pc[r] = "run", BeginRelease(r),
         idle' = idle
  PROVE  Lease!GiveBack(r)
<1> USE DEF Before, TypeInv, TypeOK
<1>1. leaseMap[r] = worker[r] /\ worker[r] \in Workers /\ worker[r] # NoWorker
  BY DEF leaseMap, StagesAre
<1>2. \A v \in Workers : SameProcess(v)
  BY DEF BeginRelease, Killed, SameProcess, IsAlive, Launched
<1>3. \A v \in Workers : Stage(v)' = IF v \in {worker[r]} THEN "retired" ELSE stageMap[v]
  BY <1>2 DEF BeginRelease, stageMap, SameProcess, StagesAre, OwnInv, HandsApart
<1>4. stageMap' = [v \in Workers |-> IF v \in {worker[r]} THEN "retired" ELSE stageMap[v]]
  BY <1>3 DEF stageMap
<1>5. leaseMap' = [leaseMap EXCEPT ![r] = NoWorker]
  BY DEF BeginRelease, leaseMap
<1>6. runningMap' = runningMap
  BY <1>2 DEF runningMap, SameProcess
<1>. QED BY <1>1, <1>4, <1>5, <1>6 DEF Lease!GiveBack, Lease!Move

\* A worker is handed out, past those found dead.
LEMMA LeaseLend ==
  ASSUME Before, StagesAre', NEW r \in Requests, pc[r] # "run",
         NEW w \in idle, NEW S \in SUBSET {v \in idle : ~IsAlive(v)},
         IsAlive(w), Drop(S), idle' = idle \ (S \cup {w}),
         worker' = [worker EXCEPT ![r] = w], pc' = [pc EXCEPT ![r] = "run"]
  PROVE  Lease!Lend(r, w, S) /\ w \in Workers /\ S \in SUBSET Workers
<1> USE DEF Before, TypeInv, TypeOK
<1>1. w \in Workers /\ S \in SUBSET Workers
  OBVIOUS
<1>2. leaseMap[r] = NoWorker /\ stageMap[w] = "ready"
  BY DEF leaseMap, stageMap, StagesAre
<1>3. S \subseteq Lease!At("ready") \ (runningMap \cup {w})
  BY DEF Lease!At, stageMap, runningMap, StagesAre
<1>4. leaseMap' = [leaseMap EXCEPT ![r] = w]
  BY DEF leaseMap
<1>5. proc' = Dropped(S)
  BY DEF Drop
<1>6. \A v \in Workers :
        Stage(v)' = IF v = w THEN "lent" ELSE IF v \in S THEN "absent" ELSE stageMap[v]
  <2> SUFFICES ASSUME NEW v \in Workers
               PROVE  Stage(v)' = IF v = w THEN "lent"
                                  ELSE IF v \in S THEN "absent" ELSE stageMap[v]
    OBVIOUS
  <2>1. CASE v = w
    BY <2>1 DEF StagesAre
  <2>2. CASE v # w /\ v \in S
    BY <1>5, <2>2 DEF StagesAre, Dropped, Launched
  <2>3. CASE v # w /\ v \notin S
    <3>1. (proc'[v] \in Launched <=> proc[v] \in Launched) /\ (v \in idle' <=> v \in idle)
      BY <1>5, <2>3 DEF Dropped
    <3>2. (\E q \in Requests : pc'[q] = "run" /\ worker'[q] = v)
            <=> \E q \in Requests : pc[q] = "run" /\ worker[q] = v
      BY <2>3
    <3>. QED BY <2>3, <3>1, <3>2 DEF StagesAre, stageMap
  <2>. QED BY <2>1, <2>2, <2>3
<1>7. stageMap' = [v \in Workers |->
                     IF v = w THEN "lent" ELSE IF v \in S THEN "absent" ELSE stageMap[v]]
  BY <1>6 DEF stageMap
<1>8. runningMap' = runningMap
  BY <1>5 DEF runningMap, Dropped, IsAlive
<1>. QED BY <1>1, <1>2, <1>3, <1>4, <1>7, <1>8 DEF Lease!Lend

\* All idle workers were dead.
LEMMA LeaseDiscard ==
  ASSUME Before, StagesAre', SameHands, \A w \in idle : ~IsAlive(w), Drop(idle), idle' = {}
  PROVE  Lease!Discard(idle) /\ idle \in SUBSET Workers
<1> USE DEF Before, TypeInv, TypeOK
<1>1. idle \subseteq Lease!At("ready") \ runningMap
  BY DEF Lease!At, stageMap, runningMap, StagesAre
<1>2. proc' = Dropped(idle)
  BY DEF Drop
<1>3. \A v \in Workers : Stage(v)' = IF v \in idle THEN "absent" ELSE stageMap[v]
  BY <1>2 DEF stageMap, SameHands, Dropped, StagesAre, Launched
<1>4. stageMap' = [v \in Workers |-> IF v \in idle THEN "absent" ELSE stageMap[v]]
  BY <1>3 DEF stageMap
<1>5. runningMap' = runningMap
  BY <1>2 DEF runningMap, Dropped, IsAlive
<1>. QED BY <1>1, <1>4, <1>5, SameLeaseMap DEF Lease!Discard, Lease!Move

\* A spawn lands while there is room.
LEMMA LeaseProvide ==
  ASSUME Before, StagesAre', NEW w \in Workers, SpawnOk(w)
  PROVE  Lease!Provide(w)
<1> USE DEF Before, TypeInv, TypeOK
<1>1. stageMap[w] = "absent"
  BY DEF SpawnOk, stageMap, StagesAre, Launched
<1>2. Workers \ Lease!At("absent") = LaunchedWorkers
  BY DEF Lease!At, stageMap, StagesAre, LaunchedWorkers
<1>3. Cardinality(LaunchedWorkers) < MaxWorkers
  BY DEF SpawnOk, CountInv, Exact, SpawnerRoom, SpawnLocked
<1>4. SameHands
  <2>1. PICK S \in SUBSET Parked : Landed(S)
    BY NotifyParked DEF SpawnOk
  <2>. QED BY <2>1 DEF SpawnOk, Landed, Parked, Wakeup, SameHands
<1>5. \A v \in Workers : Stage(v)' = IF v \in {w} THEN "ready" ELSE stageMap[v]
  BY <1>4 DEF SpawnOk, stageMap, SameHands, StagesAre, Launched
<1>6. stageMap' = [v \in Workers |-> IF v \in {w} THEN "ready" ELSE stageMap[v]]
  BY <1>5 DEF stageMap
<1>7. runningMap' = runningMap \cup {w}
  BY DEF SpawnOk, runningMap, IsAlive
<1>8. Lease!Cardinality(Workers \ Lease!At("absent")) < MaxWorkers
  <2>1. Lease!Cardinality(LaunchedWorkers) = Cardinality(LaunchedWorkers)
    BY DEF Lease!Cardinality, Cardinality
  <2>. QED BY <1>2, <1>3, <2>1, Zenon
<1>9. Lease!Move({w}, "ready") /\ leaseMap' = leaseMap
  BY <1>4, <1>6, SameLeaseMap DEF Lease!Move
<1> HIDE DEF Before, TypeInv, TypeOK
<1>. QED BY <1>1, <1>7, <1>8, <1>9 DEF Lease!Provide

LEMMA LeaseEnds ==
  ASSUME Before, StagesAre', NEW w \in Workers, Reap(w)
  PROVE  Lease!Ends(w)
<1> USE DEF Before, TypeInv, TypeOK
<1>1. SameHands
  BY DEF Reap, SameHands
<1>2. \A v \in Workers : Stage(v)' = Stage(v)
  BY DEF Reap, StagesAre, Launched
<1>3. stageMap' = stageMap
  BY <1>2 DEF stageMap
<1>4. w \in runningMap /\ runningMap' = runningMap \ {w}
  BY DEF Reap, runningMap, IsAlive
<1>. QED BY <1>1, <1>3, <1>4, SameLeaseMap DEF Lease!Ends

----------------------------------------------------------------------------
(* Every step *)

LEMMA LeaseTurn ==
  ASSUME Before, StagesAre', NEW r \in Requests, NEW n, Turn(r, n), pc[r] # "run"
  PROVE  [Lease!LeaseNext]_(Lease!leaseVars)
<1> USE DEF Before, TypeInv, TypeOK
<1>1. CASE pc' = [pc EXCEPT ![r] = "out"] /\ UNCHANGED <<proc, idle, worker>>
  BY <1>1, LeaseUnmoved DEF IsAlive
<1>2. CASE /\ \E w \in idle, S \in SUBSET {v \in idle : ~IsAlive(v)} :
                /\ IsAlive(w)
                /\ Drop(S)
                /\ idle' = idle \ (S \cup {w})
                /\ worker' = [worker EXCEPT ![r] = w]
           /\ pc' = [pc EXCEPT ![r] = "run"]
  <2>1. PICK w \in idle, S \in SUBSET {v \in idle : ~IsAlive(v)} :
          /\ IsAlive(w)
          /\ Drop(S)
          /\ idle' = idle \ (S \cup {w})
          /\ worker' = [worker EXCEPT ![r] = w]
    BY <1>2
  <2>2. Lease!Lend(r, w, S) /\ w \in Workers /\ S \in SUBSET Workers
    BY <1>2, <2>1, LeaseLend
  <2>. QED BY <2>2 DEF Lease!LeaseNext
<1>3. CASE /\ \A w \in idle : ~IsAlive(w)
           /\ Drop(idle) /\ idle' = {}
           /\ pc' = [pc EXCEPT ![r] = "parked"] /\ UNCHANGED worker
  <2>1. SameHands
    BY <1>3 DEF SameHands
  <2>2. Lease!Discard(idle) /\ idle \in SUBSET Workers
    BY <1>3, <2>1, LeaseDiscard
  <2>. QED BY <2>2 DEF Lease!LeaseNext
<1>. QED BY <1>1, <1>2, <1>3 DEF Turn

LEMMA LeaseRequestStep ==
  ASSUME Before, StagesAre', NEW r \in Requests, RequestStep(r)
  PROVE  [Lease!LeaseNext]_(Lease!leaseVars)
<1> USE DEF Before, TypeInv, TypeOK
<1>1. CASE Arrive(r) \/ GiveUp(r)
  BY <1>1, LeaseUnmoved DEF Arrive, GiveUp, IsAlive
<1>2. CASE Unwind(r)
  <2>1. PICK S \in SUBSET Parked : pc' = [Wakeup(S) EXCEPT ![r] = "out"]
    BY <1>2, NotifyParked DEF Unwind
  <2>. QED BY <1>2, <2>1, LeaseUnmoved DEF Unwind, Wakeup, Parked, IsAlive
<1>3. CASE Enter(r)
  BY <1>3, LeaseTurn DEF Enter
<1>4. CASE Wake(r)
  <2>1. CASE SpawnHopeless
    BY <1>4, <2>1, LeaseUnmoved DEF Wake, IsAlive
  <2>2. CASE ~SpawnHopeless
    BY <1>4, <2>2, LeaseTurn DEF Wake
  <2>. QED BY <2>1, <2>2
<1>5. CASE RunTimeout(r)
  BY <1>5, LeaseUnmoved DEF RunTimeout, Killed, IsAlive, Launched
<1>6. CASE RunEnds(r)
  BY <1>6, LeaseGiveBack DEF RunEnds, Lease!LeaseNext
<1>7. CASE Cancel(r) /\ pc[r] = "run"
  BY <1>7, LeaseGiveBack DEF Cancel, Lease!LeaseNext
<1>8. CASE Cancel(r) /\ pc[r] # "run"
  BY <1>8, LeaseUnmoved DEF Cancel, IsAlive
<1>. QED BY <1>1, <1>2, <1>3, <1>4, <1>5, <1>6, <1>7, <1>8 DEF RequestStep

LEMMA LeaseRelease ==
  ASSUME Before, StagesAre', NEW w \in Workers, Release(w)
  PROVE  Lease!Forget(w)
<1> USE DEF Before, TypeInv, TypeOK
<1> DEFINE p == Dropped({w})
<1>1. p \in [Workers -> Processes]
  BY DEF Dropped
<1>2. \A v \in Workers : /\ proc'[v] \in Launched <=> p[v] \in Launched
                         /\ IsAlive(v)' <=> p[v] \in {"alive", "exiting"}
  <2>1. CASE StartSpawn("release", p)
    BY <1>1, <2>1 DEF StartSpawn, IsAlive, Launched
  <2>2. CASE proc' = p
    BY <2>2 DEF IsAlive
  <2>. QED BY <2>1, <2>2 DEF Release
<1>3. proc[w] = "dead" /\ w \notin idle /\ idle' = idle
      /\ \A r \in Requests : pc[r] = "run" => worker[r] # w
  BY DEF Release, KillReturns, OwnInv, ListsApart, HandsApart
<1>4. \A v \in Workers \ {w} : SameProcess(v)
  BY <1>2 DEF Dropped, SameProcess, IsAlive, Launched
<1>5. proc'[w] \notin Launched
  BY <1>2 DEF Dropped, Launched
<1>6. SameHands
  <2>1. PICK place \in {"out", "respawn"} : Answered(w, place)
    BY DEF Release
  <2>. QED BY <2>1 DEF Answered, SameHands
<1>. QED BY <1>3, <1>4, <1>5, <1>6, LeaseForget

LEMMA LeaseWorkerStep ==
  ASSUME Before, StagesAre', NEW w \in Workers, WorkerStep(w)
  PROVE  [Lease!LeaseNext]_(Lease!leaseVars)
<1> USE DEF Before, TypeInv, TypeOK
<1>1. CASE Exit(w)
  BY <1>1, LeaseUnmoved DEF Exit, IsAlive, Launched
<1>2. CASE Reap(w)
  BY <1>2, LeaseEnds DEF Lease!LeaseNext
<1>3. CASE SpawnOk(w)
  BY <1>3, LeaseProvide DEF Lease!LeaseNext
<1>4. CASE SpawnFail(w)
  <2>1. PICK S \in SUBSET Parked : Landed(S)
    BY <1>4, NotifyParked DEF SpawnFail
  <2>2. \A r \in Requests : pc'[r] = "run" <=> pc[r] = "run"
    BY <2>1 DEF Landed, Parked, Wakeup
  <2>. QED BY <1>4, <2>2, LeaseUnmoved DEF SpawnFail, IsAlive, Launched
<1>5. CASE Release(w)
  BY <1>5, LeaseRelease DEF Lease!LeaseNext
<1>. QED BY <1>1, <1>2, <1>3, <1>4, <1>5 DEF WorkerStep

\* NextVictim signals at most; what it is given has been launched or not before.
LEMMA NextVictimProcess ==
  ASSUME NEW p \in [Workers -> Processes], NEW S \in SUBSET Workers, NextVictim(S, p)
  PROVE  \A w \in Workers : /\ proc'[w] \in Launched <=> p[w] \in Launched
                            /\ IsAlive(w)' <=> p[w] \in {"alive", "exiting"}
BY DEF NextVictim, Launched, IsAlive

\* A victim of the sweep or of stop() is gone.
LEMMA LeaseVictimGone ==
  ASSUME Before, StagesAre', SameHands, idle' = idle, victim \in Workers,
         KillReturns(victim),
         \A w \in Workers :
           /\ proc'[w] \in Launched <=> Dropped({victim})[w] \in Launched
           /\ IsAlive(w)' <=> Dropped({victim})[w] \in {"alive", "exiting"}
  PROVE  Lease!Forget(victim)
<1>1. \A v \in Workers \ {victim} : SameProcess(v)
  BY DEF Dropped, SameProcess, IsAlive
<1>2. proc'[victim] \notin Launched
  BY DEF Dropped, Launched
<1>3. proc[victim] = "dead" /\ victim \notin idle
      /\ \A r \in Requests : pc[r] = "run" => worker[r] # victim
  BY DEF KillReturns, Before, OwnInv, ListsApart, HandsApart
<1>. QED BY <1>1, <1>2, <1>3, LeaseForget

LEMMA LeaseStopStep ==
  ASSUME Before, StagesAre', StopStep
  PROVE  [Lease!LeaseNext]_(Lease!leaseVars)
<1> USE DEF Before, TypeInv, TypeOK
<1>1. CASE Stop \/ Snapshot \/ DrainDone
  BY <1>1, LeaseUnmoved DEF Stop, Snapshot, DrainDone, IsAlive
<1>2. CASE DrainTimeout
  <2>1. \A r \in Requests : /\ pc'[r] = "run" <=> pc[r] = "run"
                            /\ pc[r] = "run" => worker'[r] = worker[r]
    BY <1>2 DEF DrainTimeout
  <2>2. \A w \in Workers : /\ proc'[w] \in Launched <=> proc[w] \in Launched
                           /\ IsAlive(w)' <=> IsAlive(w)
    BY <1>2 DEF DrainTimeout, Dropped, IsAlive, Launched
  <2>3. idle' = idle
    BY <1>2 DEF DrainTimeout
  <2>. QED BY <2>1, <2>2, <2>3, LeaseUnmoved
<1>3. CASE TakeIdle
  <2>1. SameHands /\ \A v \in Workers : SameProcess(v)
    BY <1>3 DEF TakeIdle, Wakeup, Parked, SameHands, SameProcess, IsAlive
  <2>2. idle' = idle \ idle
    BY <1>3 DEF TakeIdle
  <2>3. Lease!Retire(idle) /\ idle \in SUBSET Workers
    BY <2>1, <2>2, LeaseRetire
  <2>. QED BY <2>3 DEF Lease!LeaseNext
<1>4. CASE StopKill
  <2>1. CASE doomed = {}
    BY <1>4, <2>1, LeaseUnmoved DEF StopKill, IsAlive
  <2>2. CASE doomed # {}
    BY <1>4, <2>2, NextVictimProcess, LeaseUnmoved DEF StopKill, IsAlive
  <2>. QED BY <2>1, <2>2
<1>5. CASE StopNext
  <2>1. SameHands
    BY <1>5 DEF StopNext, SameHands
  <2>2. Lease!Forget(victim) /\ victim \in Workers
    BY <1>5, <2>1, LeaseVictimGone DEF StopNext, IsAlive
  <2>. QED BY <2>2 DEF Lease!LeaseNext
<1>. QED BY <1>1, <1>2, <1>3, <1>4, <1>5 DEF StopStep

LEMMA LeaseStep ==
  Before /\ StagesAre' /\ [Next]_vars => [Lease!LeaseNext]_(Lease!leaseVars)
<1> SUFFICES ASSUME Before, StagesAre', [Next]_vars
             PROVE  [Lease!LeaseNext]_(Lease!leaseVars)
  OBVIOUS
<1>1. CASE \E r \in Requests : RequestStep(r)
  BY <1>1, LeaseRequestStep
<1>2. CASE \E w \in Workers : WorkerStep(w)
  BY <1>2, LeaseWorkerStep
<1> USE DEF Before, TypeInv, TypeOK
<1>3. CASE Start \/ Grow
  <2>1. /\ UNCHANGED <<idle, pc, worker>>
        /\ proc' = proc \/ \E h \in Holders : StartSpawn(h, proc)
    BY <1>3 DEF Start, Grow
  <2>2. \A w \in Workers : /\ proc'[w] \in Launched <=> proc[w] \in Launched
                           /\ IsAlive(w)' <=> IsAlive(w)
    BY <2>1 DEF StartSpawn, IsAlive, Launched
  <2>. QED BY <2>1, <2>2, LeaseUnmoved
<1>4. CASE Sweep
  <2>1. PICK S \in SUBSET idle : NextVictim(S, proc) /\ idle' = idle \ S
    BY <1>4 DEF Sweep, Sweepable, Survivors
  <2>2. SameHands /\ \A v \in Workers : SameProcess(v)
    BY <1>4, <2>1, NextVictimProcess DEF Sweep, SameHands, SameProcess, IsAlive
  <2>3. Lease!Retire(S) /\ S \in SUBSET Workers
    BY <2>1, <2>2, LeaseRetire
  <2>. QED BY <2>3 DEF Lease!LeaseNext
<1>5. CASE SweepNext
  <2>1. SameHands
    BY <1>5 DEF SweepNext, SameHands
  <2>2. Dropped({victim}) \in [Workers -> Processes]
    BY DEF Dropped
  <2>3. Lease!Forget(victim) /\ victim \in Workers
    BY <1>5, <2>1, <2>2, NextVictimProcess, LeaseVictimGone DEF SweepNext
  <2>. QED BY <2>3 DEF Lease!LeaseNext
<1>6. CASE StopStep
  BY <1>6, LeaseStopStep
<1>7. CASE Finished \/ UNCHANGED vars
  BY <1>7, LeaseUnmoved DEF Finished, vars, IsAlive
<1>. QED BY <1>1, <1>2, <1>3, <1>4, <1>5, <1>6, <1>7 DEF Next

\* The pool implements the lease of one-shot workers: never more than max_workers, each
\* lent to one request, never lent again, forgotten only when its process has ended -
\* through failing spawns, dying processes, cancelled callers, sweeps and stop().
THEOREM PoolKeepsLease == Spec => KeepsLease
<1>1. TypeInv /\ OwnInv /\ CountInv => Before
  BY StagesDefined DEF Before
<1>2. Before /\ (TypeInv /\ OwnInv)' /\ [Next]_vars => [Lease!LeaseNext]_(Lease!leaseVars)
  BY LeaseStep, StagesNext
<1>. QED BY <1>1, <1>2, LeaseInit, CountAlways, PTL DEF Spec, KeepsLease, Lease!LeaseSpec
=============================================================================
