---------------------------- MODULE PoolProofs ----------------------------
(* What holds of Pool for every number of requests and workers and every     *)
(* configuration with min_workers <= max_workers.                            *)
EXTENDS Pool, FiniteSetTheorems, TLAPS

----------------------------------------------------------------------------
(* Type correctness *)

\* A grow task that is spawning is still counted, and a request that runs has
\* a worker: without these two, the counter and the worker sets would leave
\* their types when the spawn lands or the run ends.
GrowCounted == lock = "grow" => pendingGrows > 0
RunHasWorker == \A r \in Requests : pc[r] = "run" => worker[r] \in Workers


\* Only a sweep in progress has workers still to kill: the next one starts from
\* nothing and loses none.
SweepPending == toKill # {} => life = "up" /\ victim # NoWorker

\* start() holds the lock only before the pool serves.
StartHolds == lock = "start" => life = "starting"

TypeInv == TypeOK /\ GrowCounted /\ RunHasWorker /\ SweepPending /\ StartHolds

USE DEF Processes, Holders, Places, Lives

\* The idle set, and what is dropped from it, can be counted.
LEMMA WorkersCount ==
  ASSUME NEW S \in SUBSET Workers PROVE Cardinality(S) \in Int
BY PoolAssumption, FS_Subset, FS_CardinalityType, SMT

LEMMA NotifyParked == \A S \in Notify : S \subseteq Parked
BY DEF Notify, Parked

LEMMA TypeInit == Init => TypeInv
<1> SUFFICES ASSUME Init PROVE TypeInv
  OBVIOUS
<1>1. spawnError \in BOOLEAN
  BY Zenon DEF Init
<1>. QED BY <1>1 DEF Init, TypeInv, TypeOK, GrowCounted, RunHasWorker, SweepPending,
                      StartHolds

\* Spawning, from any holder.
LEMMA TypeSpawnStart ==
  ASSUME NEW h \in Holders, NEW p \in [Workers -> Processes], StartSpawn(h, p)
  PROVE  lock' \in Holders /\ proc' \in [Workers -> Processes] /\ lock' = h
BY DEF StartSpawn

LEMMA TypeLanded ==
  ASSUME TypeInv, NEW S, Landed(S), worker' = worker
  PROVE  /\ lock' = "free" /\ pendingGrows' \in Nat
         /\ pc' \in [Requests -> Places] /\ RunHasWorker'
BY DEF Landed, GrowsLeft, Wakeup, TypeInv, TypeOK, GrowCounted, RunHasWorker

LEMMA TypeTurn ==
  ASSUME TypeInv, NEW r \in Requests, NEW n \in Int, Turn(r, n)
  PROVE  /\ proc' \in [Workers -> Processes] /\ idle' \subseteq Workers
         /\ total' \in Int /\ waiting' \in Int /\ pendingGrows' \in Nat
         /\ pendingGrows' >= pendingGrows
         /\ pc' \in [Requests -> Places]
         /\ worker' \in [Requests -> Workers \cup {NoWorker}]
         /\ RunHasWorker'
<1> USE DEF TypeInv, TypeOK, RunHasWorker, Drop, Dropped
<1>1. CASE Stopped /\ pc' = [pc EXCEPT ![r] = "out"] /\ waiting' = n
           /\ UNCHANGED <<proc, idle, total, pendingGrows, worker>>
  BY <1>1
<1>2. CASE /\ \E w \in idle, dead \in SUBSET {v \in idle : ~IsAlive(v)} :
                 /\ IsAlive(w)
                 /\ Drop(dead)
                 /\ idle' = idle \ (dead \cup {w})
                 /\ worker' = [worker EXCEPT ![r] = w]
           /\ pc' = [pc EXCEPT ![r] = "run"] /\ waiting' = n /\ UNCHANGED pendingGrows
  <2>1. PICK w \in idle, dead \in SUBSET {v \in idle : ~IsAlive(v)} :
               /\ Drop(dead)
               /\ idle' = idle \ (dead \cup {w})
               /\ worker' = [worker EXCEPT ![r] = w]
    BY <1>2
  <2>2. Cardinality(dead) \in Int
    BY WorkersCount
  <2>. QED BY <1>2, <2>1, <2>2
<1>3. CASE /\ Drop(idle) /\ idle' = {}
           /\ pendingGrows' = IF total' < MaxWorkers THEN pendingGrows + 1 ELSE pendingGrows
           /\ pc' = [pc EXCEPT ![r] = "parked"] /\ waiting' = n + 1 /\ UNCHANGED worker
  <2>1. Cardinality(idle) \in Int
    BY WorkersCount
  <2>. QED BY <1>3, <2>1
<1>. QED BY <1>1, <1>2, <1>3 DEF Turn

LEMMA NobodyWorks == NoWorker \notin Workers
BY PoolAssumption

LEMMA TypeNextVictim ==
  ASSUME NEW S \in SUBSET Workers, NEW p \in [Workers -> Processes],
         NextVictim(S, p)
  PROVE  /\ victim' \in Workers \cup {NoWorker} /\ proc' \in [Workers -> Processes]
         /\ S # {} => victim' # NoWorker
BY NobodyWorks DEF NextVictim

LEMMA TypeRequestStep ==
  ASSUME TypeInv, NEW r \in Requests, RequestStep(r)
  PROVE  TypeInv'
<1> USE DEF TypeInv, TypeOK, GrowCounted, RunHasWorker, SweepPending, StartHolds,
           counters, shutdown
<1>1. CASE Arrive(r)
  BY <1>1 DEF Arrive
<1>2. CASE Enter(r)
  BY <1>2, TypeTurn DEF Enter
<1>3. CASE Wake(r)
  <2>1. CASE Turn(r, LeftWait)
    BY <1>3, <2>1, TypeTurn DEF Wake, LeftWait
  <2>2. CASE ~Turn(r, LeftWait)
    BY <1>3, <2>2 DEF Wake, LeftWait
  <2>. QED BY <2>1, <2>2
<1>4. CASE GiveUp(r)
  BY <1>4 DEF GiveUp
<1>5. CASE Unwind(r)
  <2>1. PICK S : pc' = [Wakeup(S) EXCEPT ![r] = "out"]
    BY <1>5 DEF Unwind
  <2>. QED BY <1>5, <2>1 DEF Unwind, Wakeup, LeftWait
<1>6. CASE RunTimeout(r)
  BY <1>6 DEF RunTimeout, Killed
<1>7. CASE RunEnds(r)
  BY <1>7 DEF RunEnds, BeginRelease, Killed
<1>8. CASE Cancel(r)
  BY <1>8 DEF Cancel, BeginRelease, Killed
<1>. QED
  BY <1>1, <1>2, <1>3, <1>4, <1>5, <1>6, <1>7, <1>8 DEF RequestStep

LEMMA TypeWorkerStep ==
  ASSUME TypeInv, NEW w \in Workers, WorkerStep(w)
  PROVE  TypeInv'
<1> USE DEF TypeInv, TypeOK, GrowCounted, RunHasWorker, SweepPending, StartHolds,
           counters, shutdown
<1>1. CASE Exit(w)
  BY <1>1 DEF Exit
<1>2. CASE Reap(w)
  BY <1>2 DEF Reap
<1>3. CASE SpawnOk(w)
  <2>1. PICK S : Landed(S)
    BY <1>3 DEF SpawnOk
  <2>2. spawnError' \in BOOLEAN
    BY <1>3, Zenon DEF SpawnOk
  <2>. QED BY <1>3, <2>1, <2>2, TypeLanded DEF SpawnOk
<1>4. CASE SpawnFail(w)
  <2>1. PICK S : Landed(S)
    BY <1>4 DEF SpawnFail
  <2>2. spawnError' \in BOOLEAN
    BY <1>4, Zenon DEF SpawnFail
  <2>. QED BY <1>4, <2>1, <2>2, TypeLanded DEF SpawnFail
<1>5. CASE Release(w)
  <2>1. Dropped({w}) \in [Workers -> Processes]
    BY DEF Dropped
  <2>2. lock' \in Holders /\ proc' \in [Workers -> Processes] /\ (lock' # "release" => lock' = lock)
    BY <1>5, <2>1, TypeSpawnStart DEF Release
  <2>3. PICK place \in {"out", "respawn"} : Answered(w, place)
    BY <1>5 DEF Release
  <2>4. /\ pc' \in [Requests -> Places] /\ RunHasWorker'
        /\ worker' \in [Requests -> Workers \cup {NoWorker}]
    BY <2>3 DEF Answered
  <2>. QED BY <1>5, <2>2, <2>4 DEF Release
<1>. QED
  BY <1>1, <1>2, <1>3, <1>4, <1>5 DEF WorkerStep

LEMMA TypeStopStep ==
  ASSUME TypeInv, StopStep
  PROVE  TypeInv'
<1> USE DEF TypeInv, TypeOK, GrowCounted, RunHasWorker, SweepPending, StartHolds,
           counters, shutdown
<1>1. CASE Stop
  BY <1>1 DEF Stop
<1>2. CASE Snapshot
  BY <1>2 DEF Snapshot
<1>3. CASE DrainDone
  BY <1>3 DEF DrainDone
<1>4. CASE DrainTimeout
  BY <1>4 DEF DrainTimeout, Dropped
<1>5. CASE TakeIdle
  BY <1>5 DEF TakeIdle, Wakeup
<1>6. CASE StopKill
  BY <1>6, TypeNextVictim DEF StopKill
<1>7. CASE StopNext
  BY <1>7 DEF StopNext, Dropped
<1>. QED
  BY <1>1, <1>2, <1>3, <1>4, <1>5, <1>6, <1>7 DEF StopStep

LEMMA TypeNext == TypeInv /\ [Next]_vars => TypeInv'
<1> SUFFICES ASSUME TypeInv, [Next]_vars PROVE TypeInv'
  OBVIOUS
<1>1. CASE \E r \in Requests : RequestStep(r)
  BY <1>1, TypeRequestStep
<1>2. CASE \E w \in Workers : WorkerStep(w)
  BY <1>2, TypeWorkerStep
<1> USE DEF TypeInv, TypeOK, GrowCounted, RunHasWorker, SweepPending, StartHolds,
           counters, shutdown
<1>3. CASE Start
  <2>1. lock' \in Holders /\ proc' \in [Workers -> Processes]
        /\ lock' \in {"start", "free"}
    BY <1>3, TypeSpawnStart DEF Start
  <2>. QED BY <1>3, <2>1 DEF Start
<1>4. CASE Grow
  <2>1. lock' \in {"grow", "free"} /\ proc' \in [Workers -> Processes]
    BY <1>4, TypeSpawnStart DEF Grow
  <2>. QED BY <1>4, <2>1 DEF Grow
<1>5. CASE Sweep
  <2>1. PICK S \in Sweepable \ {{}} : idle' = Survivors(S) /\ NextVictim(S, proc) /\ toKill' \subseteq S /\ S # {}
    BY <1>5 DEF Sweep
  <2>2. S \subseteq Workers
    BY DEF Sweepable
  <2>. QED BY <1>5, <2>1, <2>2, TypeNextVictim DEF Sweep, Survivors
<1>6. CASE SweepNext
  <2>1. Dropped({victim}) \in [Workers -> Processes]
    BY DEF Dropped
  <2>. QED BY <1>6, <2>1, TypeNextVictim DEF SweepNext
<1>7. CASE StopStep
  BY <1>7, TypeStopStep
<1>8. CASE Finished \/ UNCHANGED vars
  BY <1>8 DEF Finished, vars
<1>. QED
  BY <1>1, <1>2, <1>3, <1>4, <1>5, <1>6, <1>7, <1>8 DEF Next

\* Every variable keeps its type in every reachable state; the grow counter
\* never goes below zero.
THEOREM TypeCorrect == Spec => []TypeOK
<1>1. TypeInv => TypeOK
  BY DEF TypeInv
<1>. QED BY <1>1, TypeInit, TypeNext, PTL DEF Spec

----------------------------------------------------------------------------
(* Ownership: who will hand a worker out, or kill it *)

\* The lists and the victim never share a worker.
ListsApart ==
  \A w \in Workers :
    /\ w \in idle => w \notin releasing /\ w \notin toKill /\ w \notin doomed /\ w # victim
    /\ w \in releasing => w \notin toKill /\ w \notin doomed /\ w # victim
    /\ w \in toKill => w \notin doomed /\ w # victim
    /\ w \in doomed => w # victim

\* A worker in a request's hand is in no list and in no other hand.
HandsApart ==
  \A r \in Requests : pc[r] = "run" =>
    /\ worker[r] \notin idle /\ worker[r] \notin releasing /\ worker[r] \notin toKill
    /\ worker[r] \notin doomed /\ worker[r] # victim
    /\ \A q \in Requests : pc[q] = "run" /\ worker[q] = worker[r] => q = r

\* Whatever is owned has been started, so a worker being spawned has no owner.
Launched == {"alive", "exiting", "dead"}
OwnedLaunched ==
  \A w \in Workers :
    \/ proc[w] \in Launched
    \/ /\ w \notin idle /\ w \notin releasing /\ w \notin toKill /\ w \notin doomed
       /\ w # victim /\ \A r \in Requests : pc[r] = "run" => worker[r] # w

\* NoOrphan, worker by worker.
Tended ==
  Serving => \A w \in Workers :
    proc[w] \in Launched =>
      \/ w \in idle \/ w \in releasing \/ w \in toKill \/ w = victim
      \/ \E r \in Requests : pc[r] = "run" /\ worker[r] = w

OwnInv == ListsApart /\ HandsApart /\ OwnedLaunched /\ Tended

LEMMA OwnInit == Init => OwnInv
BY NobodyWorks DEF Init, OwnInv, ListsApart, HandsApart, OwnedLaunched, Tended, Launched

\* A step that moves no worker between owners, starts or ends no ownership,
\* and neither begins nor ends a run.
LEMMA OwnUnmoved ==
  ASSUME TypeInv, TypeInv', OwnInv,
         UNCHANGED <<idle, releasing, toKill, victim, doomed, worker>>,
         \A r \in Requests : pc'[r] = "run" <=> pc[r] = "run",
         \A w \in Workers : proc'[w] \in Launched <=> proc[w] \in Launched,
         Serving' => Serving
  PROVE  OwnInv'
<1> USE DEF OwnInv
<1>1. ListsApart'
  BY DEF ListsApart
<1>2. HandsApart'
  BY DEF HandsApart
<1>3. OwnedLaunched'
  BY DEF OwnedLaunched
<1>4. Tended'
  BY DEF Tended
<1>. QED BY <1>1, <1>2, <1>3, <1>4

LEMMA SpawnUnmoved ==
  ASSUME TypeInv, NEW h, NEW p \in [Workers -> Processes], StartSpawn(h, p)
  PROVE  \A w \in Workers : proc'[w] \in Launched <=> p[w] \in Launched
BY DEF StartSpawn, Launched, TypeInv, TypeOK

LEMMA OwnTurn ==
  ASSUME TypeInv, TypeInv', OwnInv, NEW r \in Requests, NEW n, Turn(r, n),
         pc[r] \in {"enter", "woken"}, UNCHANGED <<releasing, shutdown>>
  PROVE  OwnInv'
<1> USE DEF TypeInv, TypeOK, OwnInv, Launched, IsAlive, shutdown
<1>1. CASE pc' = [pc EXCEPT ![r] = "out"] /\ UNCHANGED <<proc, idle, worker>>
  BY <1>1, OwnUnmoved DEF Serving
<1>2. CASE /\ \E w \in idle, dead \in SUBSET {v \in idle : ~IsAlive(v)} :
                 /\ IsAlive(w)
                 /\ Drop(dead)
                 /\ idle' = idle \ (dead \cup {w})
                 /\ worker' = [worker EXCEPT ![r] = w]
           /\ pc' = [pc EXCEPT ![r] = "run"]
  <2>1. PICK w \in idle, dead \in SUBSET {v \in idle : ~IsAlive(v)} :
               /\ IsAlive(w)
               /\ Drop(dead)
               /\ idle' = idle \ (dead \cup {w})
               /\ worker' = [worker EXCEPT ![r] = w]
    BY <1>2
  <2> USE DEF Drop, Dropped
  <2>2. ListsApart'
    BY <2>1 DEF ListsApart
  <2>3. HandsApart'
    BY <1>2, <2>1 DEF HandsApart, ListsApart
  <2>4. OwnedLaunched'
    BY <1>2, <2>1 DEF OwnedLaunched, ListsApart, HandsApart
  <2>5. Tended'
    BY <1>2, <2>1 DEF Tended, Serving
  <2>. QED BY <2>2, <2>3, <2>4, <2>5
<1>3. CASE Drop(idle) /\ idle' = {} /\ pc' = [pc EXCEPT ![r] = "parked"] /\ UNCHANGED worker
  <2> USE DEF Drop, Dropped
  <2>2. ListsApart'
    BY <1>3 DEF ListsApart
  <2>3. HandsApart'
    BY <1>3 DEF HandsApart
  <2>4. OwnedLaunched'
    BY <1>3 DEF OwnedLaunched, ListsApart, HandsApart
  <2>5. Tended'
    BY <1>3 DEF Tended, Serving
  <2>. QED BY <2>2, <2>3, <2>4, <2>5
<1>. QED BY <1>1, <1>2, <1>3 DEF Turn

LEMMA OwnBeginRelease ==
  ASSUME TypeInv, TypeInv', OwnInv, NEW r \in Requests, pc[r] = "run", BeginRelease(r),
         UNCHANGED <<idle, shutdown>>
  PROVE  OwnInv'
<1> USE DEF TypeInv, TypeOK, RunHasWorker, OwnInv, BeginRelease, Killed, shutdown, Launched
<1>1. ListsApart'
  BY DEF ListsApart, HandsApart
<1>2. HandsApart'
  BY DEF HandsApart
<1>3. OwnedLaunched'
  BY DEF OwnedLaunched
<1>4. Tended'
  BY DEF Tended, Serving
<1>. QED BY <1>1, <1>2, <1>3, <1>4

LEMMA OwnRequestStep ==
  ASSUME TypeInv, TypeInv', OwnInv, NEW r \in Requests, RequestStep(r)
  PROVE  OwnInv'
<1> USE DEF TypeInv, TypeOK, counters, shutdown, Serving
<1>1. CASE Arrive(r)
  BY <1>1, OwnUnmoved DEF Arrive
<1>2. CASE Enter(r)
  BY <1>2, OwnTurn DEF Enter
<1>3. CASE Wake(r)
  <2>1. CASE Turn(r, LeftWait)
    BY <1>3, <2>1, OwnTurn DEF Wake
  <2>2. CASE ~Turn(r, LeftWait)
    BY <1>3, <2>2, OwnUnmoved DEF Wake
  <2>. QED BY <2>1, <2>2
<1>4. CASE GiveUp(r)
  BY <1>4, OwnUnmoved DEF GiveUp
<1>5. CASE Unwind(r)
  <2>1. PICK S \in SUBSET Parked : pc' = [Wakeup(S) EXCEPT ![r] = "out"]
    BY <1>5, NotifyParked DEF Unwind
  <2>. QED BY <1>5, <2>1, OwnUnmoved DEF Unwind, Wakeup, Parked
<1>6. CASE RunTimeout(r)
  BY <1>6, OwnUnmoved DEF RunTimeout, Killed, Launched
<1>7. CASE RunEnds(r)
  BY <1>7, OwnBeginRelease DEF RunEnds
<1>8. CASE Cancel(r)
  <2>1. CASE pc[r] = "run"
    BY <1>8, <2>1, OwnBeginRelease DEF Cancel
  <2>2. CASE pc[r] # "run"
    <3>1. /\ pc[r] # "run" /\ pc' = [pc EXCEPT ![r] = "out"]
          /\ worker' = [worker EXCEPT ![r] = NoWorker]
          /\ UNCHANGED <<proc, idle, releasing, shutdown>>
      BY <1>8, <2>2 DEF Cancel
    <3>2. ListsApart'
      BY <3>1 DEF OwnInv, ListsApart
    <3>3. HandsApart'
      BY <3>1 DEF OwnInv, HandsApart
    <3>4. OwnedLaunched'
      BY <3>1 DEF OwnInv, OwnedLaunched
    <3>5. Tended'
      BY <3>1 DEF OwnInv, Tended
    <3>. QED BY <3>2, <3>3, <3>4, <3>5 DEF OwnInv
  <2>. QED BY <2>1, <2>2
<1>. QED
  BY <1>1, <1>2, <1>3, <1>4, <1>5, <1>6, <1>7, <1>8 DEF RequestStep

\* Landing a spawn: w is the worker that was starting, nobody's until now.
LEMMA OwnSpawnOk ==
  ASSUME TypeInv, TypeInv', OwnInv, NEW w \in Workers, SpawnOk(w)
  PROVE  OwnInv'
<1> USE DEF TypeInv, TypeOK, OwnInv, SpawnOk, shutdown, Launched
<1>1. \A r \in Requests : pc'[r] = "run" <=> pc[r] = "run"
  <2>1. PICK S \in SUBSET Parked : Landed(S)
    BY NotifyParked
  <2>. QED BY <2>1 DEF Landed, Parked, Wakeup
<1>2. ListsApart'
  BY DEF ListsApart, OwnedLaunched
<1>3. HandsApart'
  BY <1>1 DEF HandsApart, OwnedLaunched
<1>4. OwnedLaunched'
  BY <1>1 DEF OwnedLaunched
<1>5. Tended'
  BY <1>1 DEF Tended, Serving
<1>. QED BY <1>2, <1>3, <1>4, <1>5

\* w leaves the pool: it was released, or it was the victim.
LEMMA OwnGone ==
  ASSUME TypeInv, TypeInv', OwnInv, NEW w \in Workers,
         \/ w \in releasing /\ releasing' = releasing \ {w} /\ UNCHANGED <<victim, toKill, doomed>>
         \/ w = victim /\ UNCHANGED releasing
            /\ \/ victim' = NoWorker /\ UNCHANGED <<toKill, doomed>>
               \/ victim' \in toKill /\ toKill' = toKill \ {victim'} /\ UNCHANGED doomed,
         proc'[w] \notin Launched,
         \A v \in Workers : v # w => (proc'[v] \in Launched <=> proc[v] \in Launched),
         \A r \in Requests : /\ pc'[r] = "run" <=> pc[r] = "run"
                             /\ pc[r] = "run" => worker'[r] = worker[r],
         UNCHANGED <<idle, life>>
  PROVE  OwnInv'
<1> USE NobodyWorks DEF TypeInv, TypeOK, OwnInv
<1>1. ListsApart'
  BY DEF ListsApart
<1>2. HandsApart'
  BY DEF HandsApart, RunHasWorker
<1>3. OwnedLaunched'
  BY DEF OwnedLaunched, ListsApart, HandsApart
<1>4. Tended'
  BY DEF Tended, Serving
<1>. QED BY <1>1, <1>2, <1>3, <1>4

LEMMA OwnWorkerStep ==
  ASSUME TypeInv, TypeInv', OwnInv, NEW w \in Workers, WorkerStep(w)
  PROVE  OwnInv'
<1> USE DEF TypeInv, TypeOK, counters, shutdown, Serving
<1>1. CASE Exit(w)
  BY <1>1, OwnUnmoved DEF Exit, Launched
<1>2. CASE Reap(w)
  BY <1>2, OwnUnmoved DEF Reap, Launched
<1>3. CASE SpawnOk(w)
  BY <1>3, OwnSpawnOk
<1>4. CASE SpawnFail(w)
  <2>1. PICK S \in SUBSET Parked : Landed(S)
    BY <1>4, NotifyParked DEF SpawnFail
  <2>2. \A r \in Requests : pc'[r] = "run" <=> pc[r] = "run"
    BY <2>1 DEF Landed, Parked, Wakeup
  <2>3. Serving' => Serving
    BY <1>4 DEF SpawnFail
  <2>. QED BY <1>4, <2>2, <2>3, OwnUnmoved DEF SpawnFail, Launched
<1>5. CASE Release(w)
  <2>1. Dropped({w}) \in [Workers -> Processes]
    BY DEF Dropped
  <2>2. \A v \in Workers : proc'[v] \in Launched <=> Dropped({w})[v] \in Launched
    <3>1. CASE StartSpawn("release", Dropped({w}))
      BY <2>1, <3>1, SpawnUnmoved
    <3>2. CASE proc' = Dropped({w})
      BY <3>2
    <3>. QED BY <1>5, <3>1, <3>2 DEF Release
  <2>3. /\ proc'[w] \notin Launched
        /\ \A v \in Workers : v # w => (proc'[v] \in Launched <=> proc[v] \in Launched)
    BY <2>2 DEF Dropped, Launched
  <2>4. PICK place \in {"out", "respawn"} : Answered(w, place)
    BY <1>5 DEF Release
  <2>5. \A r \in Requests : /\ pc'[r] = "run" <=> pc[r] = "run"
                            /\ pc[r] = "run" => worker'[r] = worker[r]
    BY <2>4 DEF Answered
  <2>. QED BY <1>5, <2>3, <2>5, OwnGone DEF Release
<1>. QED
  BY <1>1, <1>2, <1>3, <1>4, <1>5 DEF WorkerStep

\* A kill() signals a process; it does not change who has been launched.
LEMMA VictimUnmoved ==
  ASSUME NEW S \in SUBSET Workers, NEW p \in [Workers -> Processes], NextVictim(S, p)
  PROVE  /\ \A w \in Workers : proc'[w] \in Launched <=> p[w] \in Launched
         /\ S = {} => victim' = NoWorker
         /\ S # {} => victim' \in S
BY DEF NextVictim, Launched

LEMMA OwnSweep ==
  ASSUME TypeInv, TypeInv', OwnInv, Sweep
  PROVE  OwnInv'
<1> USE DEF TypeInv, TypeOK, OwnInv, Serving
<1>1. PICK S \in SUBSET idle :
        /\ S # {} /\ idle' = idle \ S /\ NextVictim(S, proc) /\ toKill' = S \ {victim'}
  BY DEF Sweep, Sweepable, Survivors
<1>2. /\ victim' \in S
      /\ \A w \in Workers : proc'[w] \in Launched <=> proc[w] \in Launched
  BY <1>1, VictimUnmoved
<1>3. UNCHANGED <<pc, worker, releasing, doomed, life>> /\ victim = NoWorker
  BY DEF Sweep
<1>4. ListsApart'
  BY <1>1, <1>2, <1>3 DEF ListsApart
<1>5. HandsApart'
  BY <1>1, <1>2, <1>3 DEF HandsApart
<1>6. OwnedLaunched'
  BY <1>1, <1>2, <1>3 DEF OwnedLaunched
<1>7. Tended'
  <2> SUFFICES ASSUME Serving', NEW w \in Workers, proc'[w] \in Launched
               PROVE  \/ w \in idle' \/ w \in releasing' \/ w \in toKill' \/ w = victim'
                      \/ \E r \in Requests : pc'[r] = "run" /\ worker'[r] = w
    BY DEF Tended
  <2>1. \/ w \in idle \/ w \in releasing \/ w \in toKill \/ w = victim
        \/ \E r \in Requests : pc[r] = "run" /\ worker[r] = w
    BY <1>2, <1>3 DEF Tended
  <2>2. toKill = {}
    BY <1>3 DEF SweepPending
  <2>. QED BY <1>1, <1>2, <1>3, <2>1, <2>2, NobodyWorks
<1>. QED BY <1>4, <1>5, <1>6, <1>7

LEMMA OwnSweepNext ==
  ASSUME TypeInv, TypeInv', OwnInv, SweepNext
  PROVE  OwnInv'
<1> USE DEF TypeInv, TypeOK
<1>1. victim \in Workers /\ Dropped({victim}) \in [Workers -> Processes]
  BY DEF SweepNext, Dropped
<1>2. /\ toKill = {} => victim' = NoWorker
      /\ toKill # {} => victim' \in toKill
      /\ \A w \in Workers : proc'[w] \in Launched <=> Dropped({victim})[w] \in Launched
  BY <1>1, VictimUnmoved DEF SweepNext
<1>3. /\ proc'[victim] \notin Launched
      /\ \A v \in Workers : v # victim => (proc'[v] \in Launched <=> proc[v] \in Launched)
  BY <1>1, <1>2 DEF Dropped, Launched
<1>4. \/ victim' = NoWorker /\ UNCHANGED <<toKill, doomed>>
      \/ victim' \in toKill /\ toKill' = toKill \ {victim'} /\ UNCHANGED doomed
  BY <1>2, NobodyWorks DEF SweepNext
<1>. QED BY <1>1, <1>3, <1>4, OwnGone DEF SweepNext

LEMMA OwnStopStep ==
  ASSUME TypeInv, TypeInv', OwnInv, StopStep
  PROVE  OwnInv'
<1> USE DEF TypeInv, TypeOK, counters, Serving
<1>1. CASE Stop
  BY <1>1, NobodyWorks DEF Stop, OwnInv, ListsApart, HandsApart, OwnedLaunched, Tended, RunHasWorker
<1>2. CASE Snapshot
  BY <1>2, OwnUnmoved DEF Snapshot
<1>3. CASE DrainDone
  BY <1>3, OwnUnmoved DEF DrainDone
<1>4. CASE DrainTimeout
  <2> USE <1>4 DEF DrainTimeout, Dropped, OwnInv
  <2>1. ListsApart'
    BY DEF ListsApart
  <2>2. HandsApart'
    BY DEF HandsApart
  <2>3. OwnedLaunched'
    BY DEF OwnedLaunched, Launched
  <2>4. Tended'
    BY DEF Tended
  <2>. QED BY <2>1, <2>2, <2>3, <2>4
<1>5. CASE TakeIdle
  <2>1. /\ \A r \in Requests : pc'[r] = "run" <=> pc[r] = "run"
        /\ doomed' = idle /\ idle' = {} /\ ~Serving'
        /\ UNCHANGED <<proc, worker, releasing, toKill, victim>>
    BY <1>5 DEF TakeIdle, Wakeup, Parked
  <2>. QED BY <2>1 DEF OwnInv, ListsApart, HandsApart, OwnedLaunched, Tended
<1>6. CASE StopKill
  <2>1. CASE doomed = {}
    BY <1>6, <2>1, OwnUnmoved DEF StopKill
  <2>2. CASE doomed # {}
    <3>1. /\ victim' \in doomed
          /\ \A w \in Workers : proc'[w] \in Launched <=> proc[w] \in Launched
      BY <1>6, <2>2, VictimUnmoved DEF StopKill
    <3>2. /\ doomed' = doomed \ {victim'} /\ ~Serving'
          /\ UNCHANGED <<idle, pc, worker, releasing, toKill>>
      BY <1>6, <2>2 DEF StopKill
    <3>. QED BY <3>1, <3>2 DEF OwnInv, ListsApart, HandsApart, OwnedLaunched, Tended
  <2>. QED BY <2>1, <2>2
<1>7. CASE StopNext
  <2>1. victim \in Workers
    BY <1>7 DEF StopNext
  <2>2. /\ proc'[victim] \notin Launched
        /\ \A v \in Workers : v # victim => (proc'[v] \in Launched <=> proc[v] \in Launched)
    BY <1>7, <2>1 DEF StopNext, Dropped, Launched
  <2>. QED BY <1>7, <2>1, <2>2, OwnGone DEF StopNext
<1>. QED
  BY <1>1, <1>2, <1>3, <1>4, <1>5, <1>6, <1>7 DEF StopStep

LEMMA OwnNext == TypeInv /\ TypeInv' /\ OwnInv /\ [Next]_vars => OwnInv'
<1> SUFFICES ASSUME TypeInv, TypeInv', OwnInv, [Next]_vars PROVE OwnInv'
  OBVIOUS
<1>1. CASE \E r \in Requests : RequestStep(r)
  BY <1>1, OwnRequestStep
<1>2. CASE \E w \in Workers : WorkerStep(w)
  BY <1>2, OwnWorkerStep
<1> USE DEF counters, shutdown, Serving
<1>3. CASE Start
  <2>1. \A w \in Workers : proc'[w] \in Launched <=> proc[w] \in Launched
    BY <1>3, SpawnUnmoved DEF Start, TypeInv, TypeOK
  <2>. QED BY <1>3, <2>1, OwnUnmoved DEF Start
<1>4. CASE Grow
  <2>1. \A w \in Workers : proc'[w] \in Launched <=> proc[w] \in Launched
    BY <1>4, SpawnUnmoved DEF Grow, TypeInv, TypeOK
  <2>. QED BY <1>4, <2>1, OwnUnmoved DEF Grow
<1>5. CASE Sweep
  BY <1>5, OwnSweep
<1>6. CASE SweepNext
  BY <1>6, OwnSweepNext
<1>7. CASE StopStep
  BY <1>7, OwnStopStep
<1>8. CASE Finished \/ UNCHANGED vars
  BY <1>8, OwnUnmoved DEF Finished, vars
<1>. QED
  BY <1>1, <1>2, <1>3, <1>4, <1>5, <1>6, <1>7, <1>8 DEF Next

LEMMA OwnAlways == Spec => [](TypeInv /\ OwnInv)
<1>. DEFINE Inv == TypeInv /\ OwnInv
<1>1. Init => Inv
  BY TypeInit, OwnInit
<1>2. Inv /\ [Next]_vars => Inv'
  BY TypeNext, OwnNext
<1>. QED BY <1>1, <1>2, PTL DEF Spec

\* One worker, one owner: no two requests ever share a worker, and no list that
\* kills contains a worker another list, or a request, still has.
THEOREM WorkersHaveOneOwner == Spec => []SoleOwner
<1>1. ASSUME TypeInv, OwnInv PROVE SoleOwner
  <2> USE <1>1 DEF TypeInv, TypeOK, OwnInv
  <2>1. \A q, r \in Requests :
          q # r /\ pc[q] = "run" /\ pc[r] = "run" => worker[q] # worker[r]
    BY DEF HandsApart
  <2> DEFINE place == <<idle, Held, releasing, toKill, Victim, doomed>>
  <2>2. /\ idle \cap Held = {} /\ idle \cap releasing = {} /\ idle \cap toKill = {}
        /\ idle \cap Victim = {} /\ idle \cap doomed = {}
        /\ releasing \cap toKill = {} /\ releasing \cap Victim = {}
        /\ releasing \cap doomed = {} /\ toKill \cap Victim = {}
        /\ toKill \cap doomed = {} /\ Victim \cap doomed = {}
    BY DEF ListsApart, HandsApart, Held, Victim
  <2>3. /\ Held \cap releasing = {} /\ Held \cap toKill = {}
        /\ Held \cap Victim = {} /\ Held \cap doomed = {}
    BY DEF HandsApart, Held, Victim
  <2>4. \A i, j \in 1..6 : i < j => place[i] \cap place[j] = {}
    <3> HIDE DEF TypeInv, TypeOK, OwnInv
    <3>. QED BY <2>2, <2>3
  <2>. QED BY <2>1, <2>4 DEF SoleOwner
<1>. QED BY <1>1, OwnAlways, PTL

\* While the pool serves no process is orphaned, whatever is cancelled when.
THEOREM NoWorkerIsOrphaned == Spec => []NoOrphan
<1>1. ASSUME TypeInv, OwnInv PROVE NoOrphan
  <2> USE <1>1 DEF TypeInv, TypeOK, OwnInv
  <2> SUFFICES ASSUME Serving, NEW w \in Workers, proc[w] \notin {"none", "starting"}
               PROVE  w \in Counted
    BY DEF NoOrphan
  <2>1. \/ w \in idle \/ w \in releasing \/ w \in toKill \/ w = victim
        \/ \E r \in Requests : pc[r] = "run" /\ worker[r] = w
    BY DEF Tended, Launched
  <2>. QED BY <2>1, NobodyWorks DEF Counted, Held, Victim
<1>. QED BY <1>1, OwnAlways, PTL

----------------------------------------------------------------------------
(* The pool's arithmetic: _total is the number of workers the pool answers   *)
(* for, and the machine never runs more than max_workers processes.  Both    *)
(* rest on who owns a worker.                                                *)

LaunchedWorkers == {w \in Workers : proc[w] \in Launched}

\* _total counts the launched workers, before and after stop(); and a spawner that
\* holds the lock has seen room for the one process it is starting.
Exact        == total = Cardinality(LaunchedWorkers)
WithinMax    == total <= MaxWorkers
SpawnerRoom  == lock # "free" => total < MaxWorkers
OneSpawn     == \A v, w \in Workers : proc[v] = "starting" /\ proc[w] = "starting" => v = w
SpawnLocked  == \A w \in Workers : proc[w] = "starting" => lock # "free"

CountInv == Exact /\ WithinMax /\ SpawnerRoom /\ OneSpawn /\ SpawnLocked

LEMMA LaunchedFinite ==
  IsFiniteSet(LaunchedWorkers) /\ Cardinality(LaunchedWorkers) \in Nat
BY PoolAssumption, FS_Subset, FS_CardinalityType DEF LaunchedWorkers

LEMMA CountInit == Init => CountInv
<1> SUFFICES ASSUME Init PROVE CountInv
  OBVIOUS
<1>1. LaunchedWorkers = {}
  BY DEF Init, LaunchedWorkers, Launched
<1>. QED BY <1>1, FS_EmptySet, PoolAssumption
         DEF Init, CountInv, Exact, WithinMax, SpawnerRoom, OneSpawn, SpawnLocked

----------------------------------------------------------------------------
(* The ways a step can touch the count *)

\* No worker is launched, dropped or spawned, and the lock stays.
LEMMA CountUnmoved ==
  ASSUME CountInv, UNCHANGED <<total, lock>>,
         \A w \in Workers : /\ proc'[w] \in Launched <=> proc[w] \in Launched
                            /\ proc'[w] = "starting" => proc[w] = "starting"
  PROVE  CountInv'
<1>1. LaunchedWorkers' = LaunchedWorkers
  BY DEF LaunchedWorkers
<1>. QED BY <1>1 DEF CountInv, Exact, WithinMax, SpawnerRoom, OneSpawn, SpawnLocked

\* A spawn begins, with the processes p and room in the pool.
LEMMA CountSpawnBegins ==
  ASSUME TypeInv, NEW h \in Holders \ {"free"}, NEW p \in [Workers -> Processes],
         StartSpawn(h, p), \A w \in Workers : p[w] # "starting",
         total' = Cardinality({w \in Workers : p[w] \in Launched}), total' < MaxWorkers
  PROVE  CountInv'
<1>1. PICK v \in Workers : p[v] = "none" /\ proc' = [p EXCEPT ![v] = "starting"]
  BY DEF StartSpawn
<1>2. LaunchedWorkers' = {w \in Workers : p[w] \in Launched}
  BY <1>1 DEF LaunchedWorkers, Launched
<1>3. total' \in Int
  BY <1>2, WorkersCount
<1>4. OneSpawn' /\ SpawnLocked'
  BY <1>1 DEF StartSpawn, OneSpawn, SpawnLocked
<1>5. lock' # "free" /\ MaxWorkers \in Int
  BY PoolAssumption DEF StartSpawn
<1>. QED BY <1>2, <1>3, <1>4, <1>5 DEF CountInv, Exact, WithinMax, SpawnerRoom

\* A spawn is over: nothing is being spawned any more.
LEMMA CountSpawnEnds ==
  ASSUME lock' = "free", \A w \in Workers : proc'[w] # "starting",
         Exact', WithinMax'
  PROVE  CountInv'
BY DEF CountInv, SpawnerRoom, OneSpawn, SpawnLocked

\* Launched workers leave the pool, and the count with them.
LEMMA CountDrop ==
  ASSUME TypeInv, NEW S \in SUBSET LaunchedWorkers, Exact
  PROVE  LET left == {w \in Workers : Dropped(S)[w] \in Launched}
         IN  left = LaunchedWorkers \ S
               /\ Cardinality(left) = total - Cardinality(S) /\ Cardinality(S) \in Nat
<1> DEFINE left == {w \in Workers : Dropped(S)[w] \in Launched}
<1>1. left = LaunchedWorkers \ S
  BY DEF Dropped, LaunchedWorkers, Launched
<1>2. IsFiniteSet(S) /\ IsFiniteSet(left) /\ S \cap left = {} /\ S \cup left = LaunchedWorkers
  BY <1>1, LaunchedFinite, FS_Subset
<1>3. Cardinality(LaunchedWorkers) = Cardinality(S) + Cardinality(left) - Cardinality({})
  BY <1>2, FS_Union
<1>4. Cardinality({}) = 0 /\ Cardinality(S) \in Nat /\ Cardinality(left) \in Nat
  BY <1>2, FS_EmptySet, FS_CardinalityType
<1>. QED BY <1>1, <1>3, <1>4 DEF Exact

----------------------------------------------------------------------------
(* The actions *)

\* A worker that is idle and not alive has been launched and has ended.
LEMMA DeadIdleLaunched ==
  ASSUME TypeInv, OwnInv, NEW S \in SUBSET {v \in idle : ~IsAlive(v)}
  PROVE  S \in SUBSET LaunchedWorkers
BY DEF TypeInv, TypeOK, OwnInv, OwnedLaunched, IsAlive, Launched, LaunchedWorkers

\* _acquire drops what it finds dead and counts it out in the same step.
LEMMA CountTurn ==
  ASSUME TypeInv, OwnInv, CountInv, NEW r \in Requests, NEW n, Turn(r, n), lock = "free",
         UNCHANGED lock
  PROVE  CountInv'
<1>1. CASE UNCHANGED <<proc, total>>
  BY <1>1, CountUnmoved
<1>2. CASE \E S \in SUBSET {v \in idle : ~IsAlive(v)} : Drop(S)
  <2>1. PICK S \in SUBSET {v \in idle : ~IsAlive(v)} : Drop(S)
    BY <1>2
  <2>2. S \in SUBSET LaunchedWorkers
    BY <2>1, DeadIdleLaunched
  <2>3. LaunchedWorkers' = {w \in Workers : Dropped(S)[w] \in Launched}
    BY <2>1 DEF Drop, LaunchedWorkers
  <2>4. /\ Cardinality(LaunchedWorkers') = total - Cardinality(S)
        /\ Cardinality(S) \in Nat /\ total \in Int
    BY <2>2, <2>3, CountDrop DEF CountInv, TypeInv, TypeOK
  <2>5. Exact' /\ total' <= total
    BY <2>1, <2>4 DEF Drop, Exact
  <2>6. total' <= MaxWorkers
    BY <2>5, <2>3, WorkersCount, PoolAssumption
       DEF CountInv, WithinMax, TypeInv, TypeOK, Exact, LaunchedWorkers
  <2>7. \A w \in Workers : proc'[w] # "starting"
    BY <2>1 DEF Drop, Dropped, CountInv, SpawnLocked
  <2>. QED BY <2>5, <2>6, <2>7, CountSpawnEnds DEF WithinMax
<1>3. CASE (\A w \in idle : ~IsAlive(w)) /\ Drop(idle)
  BY <1>2, <1>3
<1>. QED BY <1>1, <1>2, <1>3 DEF Turn

LEMMA CountRequestStep ==
  ASSUME TypeInv, OwnInv, CountInv, NEW r \in Requests, RequestStep(r)
  PROVE  CountInv'
<1> USE DEF counters, shutdown
<1>1. CASE Arrive(r) \/ GiveUp(r) \/ Unwind(r)
  BY <1>1, CountUnmoved DEF Arrive, GiveUp, Unwind
<1>2. CASE Enter(r)
  BY <1>2, CountTurn DEF Enter
<1>3. CASE Wake(r)
  <2>1. CASE SpawnHopeless
    BY <1>3, <2>1, CountUnmoved DEF Wake
  <2>2. CASE ~SpawnHopeless
    BY <1>3, <2>2, CountTurn DEF Wake
  <2>. QED BY <2>1, <2>2
<1>4. CASE RunTimeout(r) \/ RunEnds(r) \/ Cancel(r)
  <2>1. \A w \in Workers : /\ proc'[w] \in Launched <=> proc[w] \in Launched
                           /\ proc'[w] = "starting" => proc[w] = "starting"
    BY <1>4 DEF RunTimeout, RunEnds, Cancel, BeginRelease, Killed, Launched, TypeInv, TypeOK
  <2>. QED BY <1>4, <2>1, CountUnmoved DEF RunTimeout, RunEnds, Cancel
<1>. QED BY <1>1, <1>2, <1>3, <1>4 DEF RequestStep

LEMMA CountWorkerStep ==
  ASSUME TypeInv, OwnInv, CountInv, NEW w \in Workers, WorkerStep(w)
  PROVE  CountInv'
<1> USE DEF TypeInv, TypeOK, counters, shutdown
<1>1. CASE Exit(w) \/ Reap(w)
  BY <1>1, CountUnmoved DEF Exit, Reap, Launched
<1>2. CASE SpawnOk(w)
  <2>1. LaunchedWorkers' = LaunchedWorkers \cup {w} /\ w \notin LaunchedWorkers
    BY <1>2 DEF SpawnOk, LaunchedWorkers, Launched
  <2>2. Exact'
    BY <1>2, <2>1, LaunchedFinite, FS_AddElement DEF SpawnOk, Exact, CountInv
  <2>3. WithinMax'
    BY <1>2, PoolAssumption DEF SpawnOk, WithinMax, CountInv, SpawnerRoom, SpawnLocked
  <2>4. lock' = "free" /\ \A v \in Workers : proc'[v] # "starting"
    BY <1>2 DEF SpawnOk, Landed, CountInv, OneSpawn
  <2>. QED BY <2>2, <2>3, <2>4, CountSpawnEnds
<1>3. CASE SpawnFail(w)
  <2>1. LaunchedWorkers' = LaunchedWorkers /\ total' = total
    BY <1>3 DEF SpawnFail, LaunchedWorkers, Launched
  <2>2. lock' = "free" /\ \A v \in Workers : proc'[v] # "starting"
    BY <1>3 DEF SpawnFail, Landed, CountInv, OneSpawn
  <2>. QED BY <2>1, <2>2, CountSpawnEnds DEF CountInv, Exact, WithinMax
<1>4. CASE Release(w)
  <2> DEFINE p == Dropped({w})
  <2>1. {w} \in SUBSET LaunchedWorkers
    BY <1>4 DEF Release, KillReturns, LaunchedWorkers, Launched
  <2>2. total' = total - 1 /\ total' = Cardinality({v \in Workers : p[v] \in Launched})
    BY <1>4, <2>1, CountDrop, FS_Singleton DEF Release, CountInv
  <2>3. p \in [Workers -> Processes] /\ \A v \in Workers : p[v] # "starting"
    BY <1>4 DEF Release, Dropped, CountInv, SpawnLocked, Processes
  <2>4. CASE MayRefill(total')
    <3>1. total' < MaxWorkers
      BY <2>2, <2>4, PoolAssumption DEF MayRefill
    <3>2. StartSpawn("release", p)
      BY <1>4, <2>4 DEF Release
    <3>. QED BY <2>2, <2>3, <3>1, <3>2, CountSpawnBegins
  <2>5. CASE ~MayRefill(total')
    <3>1. proc' = p /\ lock' = "free"
      BY <1>4, <2>5 DEF Release
    <3>2. Exact' /\ WithinMax'
      BY <2>2, <3>1, PoolAssumption DEF Exact, WithinMax, LaunchedWorkers, CountInv
    <3>. QED BY <2>3, <3>1, <3>2, CountSpawnEnds
  <2>. QED BY <2>4, <2>5
<1>. QED BY <1>1, <1>2, <1>3, <1>4 DEF WorkerStep

\* A kill() signals a process; what is launched stays launched.
LEMMA CountNextVictim ==
  ASSUME NEW p \in [Workers -> Processes], NEW S \in SUBSET Workers, NextVictim(S, p)
  PROVE  \A w \in Workers : /\ proc'[w] \in Launched <=> p[w] \in Launched
                            /\ proc'[w] = "starting" => p[w] = "starting"
BY DEF NextVictim, Launched

\* The end of a kill counts its victim out.
LEMMA CountVictimGone ==
  ASSUME TypeInv, CountInv, victim \in Workers, KillReturns(victim), lock = "free",
         total' = total - 1, lock' = lock,
         \A w \in Workers :
           /\ proc'[w] \in Launched <=> Dropped({victim})[w] \in Launched
           /\ proc'[w] = "starting" => Dropped({victim})[w] = "starting"
  PROVE  CountInv'
<1>1. {victim} \in SUBSET LaunchedWorkers
  BY DEF KillReturns, LaunchedWorkers, Launched
<1>2. LaunchedWorkers' = {w \in Workers : Dropped({victim})[w] \in Launched}
  BY DEF LaunchedWorkers
<1>3. Exact'
  BY <1>1, <1>2, CountDrop, FS_Singleton DEF Exact, CountInv
<1>4. WithinMax'
  BY PoolAssumption DEF CountInv, WithinMax, TypeInv, TypeOK
<1>5. \A w \in Workers : proc'[w] # "starting"
  BY DEF Dropped, CountInv, SpawnLocked
<1>. QED BY <1>3, <1>4, <1>5, CountSpawnEnds

LEMMA CountStopStep ==
  ASSUME TypeInv, CountInv, StopStep
  PROVE  CountInv'
<1> USE DEF TypeInv, TypeOK, counters, shutdown
<1>1. CASE Stop \/ Snapshot \/ DrainDone \/ TakeIdle
  BY <1>1, CountUnmoved DEF Stop, Snapshot, DrainDone, TakeIdle
<1>2. CASE DrainTimeout
  <2>1. LaunchedWorkers' = LaunchedWorkers
    BY <1>2 DEF DrainTimeout, Dropped, LaunchedWorkers, Launched
  <2>2. lock' = "free" /\ \A w \in Workers : proc'[w] # "starting"
    BY <1>2 DEF DrainTimeout, Dropped
  <2>. QED BY <1>2, <2>1, <2>2, CountSpawnEnds DEF DrainTimeout, CountInv, Exact, WithinMax
<1>3. CASE StopKill
  BY <1>3, CountNextVictim, CountUnmoved DEF StopKill
<1>4. CASE StopNext
  BY <1>4, CountVictimGone DEF StopNext
<1>. QED BY <1>1, <1>2, <1>3, <1>4 DEF StopStep

LEMMA CountNext == TypeInv /\ OwnInv /\ CountInv /\ [Next]_vars => CountInv'
<1> SUFFICES ASSUME TypeInv, OwnInv, CountInv, [Next]_vars PROVE CountInv'
  OBVIOUS
<1> USE DEF counters, shutdown
<1>1. CASE \E r \in Requests : RequestStep(r)
  BY <1>1, CountRequestStep
<1>2. CASE \E w \in Workers : WorkerStep(w)
  BY <1>2, CountWorkerStep
<1>3. CASE Start
  <2>1. CASE total < MinWorkers
    <3>1. StartSpawn("start", proc) /\ lock = "free" /\ total' = total
      BY <1>3, <2>1 DEF Start
    <3>. QED BY <2>1, <3>1, CountSpawnBegins, PoolAssumption
             DEF TypeInv, TypeOK, CountInv, Exact, SpawnLocked, LaunchedWorkers
  <2>2. CASE ~(total < MinWorkers)
    BY <1>3, <2>2, CountUnmoved DEF Start
  <2>. QED BY <2>1, <2>2
<1>4. CASE Grow
  <2>1. CASE MayGrow
    <3>1. StartSpawn("grow", proc) /\ lock = "free" /\ total' = total /\ total < MaxWorkers
      BY <1>4, <2>1 DEF Grow, MayGrow
    <3>. QED BY <3>1, CountSpawnBegins
             DEF TypeInv, TypeOK, CountInv, Exact, SpawnLocked, LaunchedWorkers
  <2>2. CASE ~MayGrow
    BY <1>4, <2>2, CountUnmoved DEF Grow
  <2>. QED BY <2>1, <2>2
<1>5. CASE Sweep
  <2>1. PICK S \in SUBSET Workers : NextVictim(S, proc)
    BY <1>5 DEF Sweep, Sweepable, TypeInv, TypeOK
  <2>. QED BY <1>5, <2>1, CountNextVictim, CountUnmoved DEF Sweep, TypeInv, TypeOK
<1>6. CASE SweepNext
  <2>1. Dropped({victim}) \in [Workers -> Processes]
    BY DEF Dropped, TypeInv, TypeOK
  <2>. QED BY <1>6, <2>1, CountNextVictim, CountVictimGone DEF SweepNext, TypeInv, TypeOK
<1>7. CASE StopStep
  BY <1>7, CountStopStep
<1>8. CASE Finished \/ UNCHANGED vars
  BY <1>8, CountUnmoved DEF Finished, vars
<1>. QED BY <1>1, <1>2, <1>3, <1>4, <1>5, <1>6, <1>7, <1>8 DEF Next

LEMMA CountAlways == Spec => [](TypeInv /\ OwnInv /\ CountInv)
<1>1. Init => CountInv
  BY CountInit
<1>2. TypeInv /\ OwnInv /\ CountInv /\ [Next]_vars => CountInv'
  BY CountNext
<1>. QED BY <1>1, <1>2, OwnAlways, PTL DEF Spec

----------------------------------------------------------------------------
(* Theorems *)

\* While the pool serves, _total, on which every decision to spawn, refill, sweep and
\* drain rests, is the number of workers somebody has.
THEOREM CountsAreExact == Spec => []CountIsExact
<1>1. ASSUME TypeInv, OwnInv, CountInv PROVE CountIsExact
  <2> SUFFICES ASSUME Serving PROVE total = Cardinality(Counted)
    BY DEF CountIsExact
  <2> USE <1>1 DEF TypeInv, TypeOK, OwnInv
  <2>1. Counted \subseteq LaunchedWorkers
    BY DEF Counted, Held, Victim, OwnedLaunched, LaunchedWorkers, RunHasWorker
  <2>2. LaunchedWorkers \subseteq Counted
    BY NobodyWorks DEF Counted, Held, Victim, Tended, LaunchedWorkers
  <2>. QED BY <2>1, <2>2 DEF CountInv, Exact
<1>. QED BY <1>1, CountAlways, PTL

\* The machine never runs more than max_workers processes, counting the one that is
\* being started and those that are being killed, before, during and after stop().
THEOREM NeverMoreThanMax == Spec => []ProcessesWithinMax
<1>1. ASSUME TypeInv, CountInv PROVE ProcessesWithinMax
  <2> USE <1>1 DEF CountInv, Exact
  <2> DEFINE Spawning == {w \in Workers : proc[w] = "starting"}
  <2>1. Running \subseteq LaunchedWorkers \cup Spawning
    BY DEF Running, LaunchedWorkers, Launched
  <2>2. total \in Nat /\ MaxWorkers \in Nat
    BY LaunchedFinite, PoolAssumption
  <2>3. CASE Spawning = {}
    BY <2>1, <2>2, <2>3, LaunchedFinite, FS_Subset, FS_CardinalityType
       DEF WithinMax, ProcessesWithinMax
  <2>4. CASE Spawning # {}
    <3>1. PICK w \in Workers : Spawning = {w}
      BY <2>4 DEF OneSpawn
    <3>2. IsFiniteSet(LaunchedWorkers \cup {w})
          /\ Cardinality(LaunchedWorkers \cup {w}) <= total + 1
      BY <2>2, LaunchedFinite, FS_AddElement
    <3>3. total < MaxWorkers
      BY <2>4 DEF SpawnLocked, SpawnerRoom
    <3>4. /\ Cardinality(Running) <= Cardinality(LaunchedWorkers \cup {w})
          /\ Cardinality(Running) \in Nat /\ Cardinality(LaunchedWorkers \cup {w}) \in Nat
      BY <2>1, <3>1, <3>2, FS_Subset, FS_CardinalityType
    <3>. QED BY <2>2, <3>2, <3>3, <3>4 DEF ProcessesWithinMax
  <2>. QED BY <2>3, <2>4
<1>. QED BY <1>1, CountAlways, PTL
=============================================================================
