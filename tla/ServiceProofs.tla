--------------------------- MODULE ServiceProofs ---------------------------
(* The daemon's jobs on the real pool, for any number of jobs, calls and     *)
(* workers.  What a job is doing follows from where the pool has its request, *)
(* and from that: no job outlives the daemon, and the job store behind it    *)
(* is the one of module JobStore.                                            *)
EXTENDS Service, PoolWaits

USE DEF Processes, Holders, Places, Lives

----------------------------------------------------------------------------
(* What is known of the jobs *)

Ends    == {"succeeded", "failed", "cancelled"}
Waiting == {"enter", "parked", "woken", "unwind"}

JobTypes ==
  /\ store \subseteq Jobs /\ asked \subseteq Jobs
  /\ status \in [Jobs -> {"unknown", "running"} \cup Ends]
  /\ result \in [Jobs -> {"none"} \cup Ends]
  /\ cli \in [Jobs -> Workers \cup {NoWorker, "over"}]
  /\ deleting \in [Deleters -> Jobs \cup {NoJob}]
  /\ stage \in {"up", "jobs", "pool"}

\* A job runs as long as its request is in the pool, which is only while the pool serves;
\* only a running job has a cancellation pending.
JobsServed ==
  /\ life # "up" => \A j \in Jobs : pc[j] = "out"
  /\ \A j \in Jobs : JobRuns(j) <=> pc[j] # "out"
  /\ \A j \in asked : JobRuns(j)
  /\ stage = "pool" => ~Serving
  /\ \A j \in Jobs : status[j] = "unknown" => cli[j] = NoWorker /\ result[j] = "none"
  /\ life = "starting" => \A j \in Jobs : status[j] = "unknown"

\* What a job is going to report, by where it is.
ResultFits ==
  \A j \in Jobs :
    /\ pc[j] \in {"enter", "parked", "woken", "run"} => result[j] = "none"
    /\ pc[j] = "unwind" => result[j] \in {"none", "cancelled"}
    /\ pc[j] \in {"release", "respawn"} => result[j] # "none"

\* Which worker a job has had, by where it is.
CliFits ==
  \A j \in Jobs :
    /\ pc[j] \in Waiting => cli[j] = NoWorker
    /\ pc[j] = "run" => cli[j] = worker[j]
    /\ pc[j] = "release" => cli[j] \in {worker[j], "over"} /\ worker[j] \in releasing
    /\ pc[j] = "respawn" => cli[j] = "over" /\ lock = "release"

\* A worker that served a job is killed, and in the hands of a release until stop() has
\* waited for that.
CliDies ==
  \A j \in Jobs : pc[j] # "run" /\ cli[j] \in Workers =>
    /\ proc[cli[j]] = "exiting"
    /\ life \in {"up", "stopping"} => cli[j] \in releasing
    /\ life = "draining" => cli[j] \in snapshot

\* No two jobs share anything in the pool.
JobsApart ==
  \A i, j \in Jobs :
    \/ i = j
    \/ /\ cli[i] = cli[j] => cli[i] \notin Workers
       /\ pc[i] = "release" /\ pc[j] = "release" => worker[i] # worker[j]
       /\ ~(pc[i] = "respawn" /\ pc[j] = "respawn")

ServiceInv == JobTypes /\ JobsServed /\ ResultFits /\ CliFits /\ CliDies /\ JobsApart

----------------------------------------------------------------------------
(* The service's steps are the pool's *)

LEMMA ServiceMovesPool == [ServiceNext]_serviceVars => [Next]_vars
<1>. SUFFICES ASSUME [ServiceNext]_serviceVars PROVE [Next]_vars
  OBVIOUS
<1>1. CASE UNCHANGED serviceVars
  BY <1>1 DEF serviceVars
<1>2. CASE Background
  BY <1>2 DEF Background, Next, StopStep
<1>3. CASE List \/ Shutdown \/ Ended
  BY <1>3 DEF List, Shutdown, Ended, Next
<1>4. CASE StopPool
  BY <1>4 DEF StopPool, Next, StopStep
<1>5. ASSUME NEW r \in Requests, TaskStep(r) \/ RunReturns(r) \/ Generate(r) PROVE [Next]_vars
  <2>1. RequestStep(r) \/ UNCHANGED vars
    BY <1>5 DEF TaskStep, RunReturns, Generate, RequestStep
  <2>. QED BY <2>1 DEF Next
<1>6. ASSUME NEW j \in Jobs, Submit(j) \/ Raised(j) PROVE [Next]_vars
  <2>1. RequestStep(j) \/ UNCHANGED vars
    BY <1>6 DEF Submit, Raised, RequestStep
  <2>. QED BY <2>1, ServiceAssumption DEF Next
<1>7. ASSUME NEW d \in Deleters, (\E j \in Jobs : Delete(d, j)) \/ Answer(d) PROVE [Next]_vars
  BY <1>7 DEF Delete, Answer
<1>. QED BY <1>1, <1>2, <1>3, <1>4, <1>5, <1>6, <1>7 DEF ServiceNext

\* Behind jobs, deletes and a shutdown the pool behaves as module Pool says: whatever is
\* proved of the pool holds of the daemon.
THEOREM ServiceRunsThePool == ServiceSpec => Spec
BY ServiceMovesPool, PTL DEF ServiceSpec, ServiceInit, Spec

----------------------------------------------------------------------------
(* What a step of the pool can do to a worker *)

\* A process ends before it is reaped, and is reaped before it is forgotten.
LEMMA ProcessesEnd ==
  ASSUME TypeInv, [Next]_vars, NEW w \in Workers
  PROVE  /\ proc[w] = "alive" => proc'[w] \in {"alive", "exiting"}
         /\ proc[w] = "exiting" => proc'[w] = "exiting" \/ Reap(w)
<1>. DEFINE Ends2 == /\ proc[w] = "alive" => proc'[w] \in {"alive", "exiting"}
                     /\ proc[w] = "exiting" => proc'[w] = "exiting" \/ Reap(w)
<1>. USE DEF TypeInv, TypeOK, counters, shutdown
<1>1. ASSUME NEW r \in Requests, RequestStep(r) PROVE Ends2
  <2>1. CASE Arrive(r) \/ GiveUp(r) \/ Unwind(r)
    BY <2>1 DEF Arrive, GiveUp, Unwind
  <2>2. ASSUME NEW n, Turn(r, n) PROVE Ends2
    BY <2>2 DEF Turn, Drop, Dropped, IsAlive
  <2>3. CASE Enter(r) \/ Wake(r)
    BY <2>2, <2>3 DEF Enter, Wake
  <2>4. CASE RunTimeout(r) \/ RunEnds(r) \/ Cancel(r)
    BY <2>4 DEF RunTimeout, RunEnds, Cancel, BeginRelease, Killed
  <2>. QED BY <1>1, <2>1, <2>3, <2>4 DEF RequestStep
<1>2. ASSUME NEW v \in Workers, WorkerStep(v) PROVE Ends2
  <2>1. CASE Exit(v) \/ Reap(v) \/ SpawnOk(v) \/ SpawnFail(v)
    BY <2>1 DEF Exit, Reap, SpawnOk, SpawnFail
  <2>2. CASE Release(v)
    BY <2>2 DEF Release, KillReturns, Dropped, StartSpawn
  <2>. QED BY <1>2, <2>1, <2>2 DEF WorkerStep
<1>3. CASE Start \/ Grow
  BY <1>3 DEF Start, Grow, StartSpawn
<1>4. CASE Sweep \/ SweepNext
  BY <1>4 DEF Sweep, SweepNext, NextVictim, KillReturns, Dropped
<1>5. CASE StopStep
  <2>1. CASE Stop \/ Snapshot \/ DrainDone \/ TakeIdle
    BY <2>1 DEF Stop, Snapshot, DrainDone, TakeIdle
  <2>2. CASE DrainTimeout
    BY <2>2 DEF DrainTimeout, Dropped
  <2>3. CASE StopKill \/ StopNext
    BY <2>3 DEF StopKill, StopNext, NextVictim, KillReturns, Dropped
  <2>. QED BY <1>5, <2>1, <2>2, <2>3 DEF StopStep
<1>6. CASE Finished \/ UNCHANGED vars
  BY <1>6 DEF Finished, vars
<1>. QED BY <1>1, <1>2, <1>3, <1>4, <1>5, <1>6 DEF Next

\* A release keeps its worker until that is dead, or until stop() gives up.
LEMMA ReleasesKill ==
  ASSUME TypeInv, [Next]_vars, NEW w \in Workers, proc[w] # "dead"
  PROVE  /\ w \in releasing /\ life # "draining" => w \in releasing'
         /\ life = "stopping" /\ life' = "draining" /\ w \in releasing => w \in snapshot'
         /\ life = "draining" /\ life' = "draining" /\ w \in snapshot => w \in snapshot'
         /\ life' \in {"up", "stopping"} => life \in {"starting", "up", "stopping"}
         /\ life' = "draining" => life \in {"stopping", "draining"}
<1>. USE DEF TypeInv, TypeOK, counters, shutdown
<1>1. ASSUME NEW r \in Requests, RequestStep(r)
      PROVE  life' = life /\ releasing \subseteq releasing' /\ snapshot' = snapshot
  BY <1>1 DEF RequestStep, Arrive, GiveUp, Unwind, Enter, Wake, RunTimeout, RunEnds, Cancel, BeginRelease
<1>2. ASSUME NEW v \in Workers, WorkerStep(v)
      PROVE  /\ life' = life \/ (life = "starting" /\ life' = "stopping")
             /\ w \in releasing => w \in releasing'
             /\ w \in snapshot => w \in snapshot'
  BY <1>2 DEF WorkerStep, Exit, Reap, SpawnOk, SpawnFail, Release, KillReturns, StartHolds
<1>3. CASE Start \/ Grow \/ Sweep \/ SweepNext
  BY <1>3 DEF Start, Grow, Sweep, SweepNext
<1>4. CASE StopStep
  BY <1>4 DEF StopStep, Stop, Snapshot, DrainDone, DrainTimeout, TakeIdle, StopKill, StopNext
<1>5. CASE Finished \/ UNCHANGED vars
  BY <1>5 DEF Finished, vars
<1>. QED BY <1>1, <1>2, <1>3, <1>4, <1>5 DEF Next

----------------------------------------------------------------------------
(* What a step of the pool can do to a job *)

\* Nothing, or another request woke it.
Stays(j) ==
  /\ pc'[j] = pc[j] \/ (pc[j] = "parked" /\ pc'[j] = "woken")
  /\ worker'[j] = worker[j]
  /\ pc[j] = "release" /\ worker[j] \in releasing => worker[j] \in releasing'
  /\ pc[j] = "respawn" => lock' = lock

\* It waits on, leaves the wait or was refused.
Waits(j) ==
  /\ pc[j] \in {"enter", "parked", "woken"}
  /\ pc'[j] \in {"parked", "woken", "unwind", "out"}

Leaves(j) == pc[j] = "unwind" /\ pc'[j] = "out"

Gets(j) ==
  /\ pc[j] \in {"enter", "woken"} /\ pc'[j] = "run"
  /\ worker'[j] \in idle /\ IsAlive(worker[j])'

\* Its run is over.
Returns(j) ==
  /\ pc[j] = "run" /\ pc'[j] = "release" /\ worker'[j] = worker[j]
  /\ worker[j] \in releasing' /\ proc'[worker[j]] # "alive"

\* Its release is over, but for a worker that is being spawned.
Returned(j) == \E w \in releasing :
  /\ releasing' = releasing \ {w} /\ proc[w] = "dead" /\ lock = "free"
  /\ pc[j] = "release" /\ worker[j] = w
  /\ pc'[j] = "out" \/ (pc'[j] = "respawn" /\ lock' = "release")

\* That worker is there, or failed.
Rests(j) == pc[j] = "respawn" /\ pc'[j] = "out"

\* It was torn from its release.
Torn(j) == pc[j] \in {"release", "respawn"} /\ pc'[j] = "out"

\* A step that no request takes.
LEMMA BackgroundGoes ==
  ASSUME TypeInv, JobsServed, CliFits, NEW j \in Jobs,
         \/ \E w \in Workers : WorkerStep(w)
         \/ Start \/ Grow \/ Sweep \/ SweepNext
         \/ Snapshot \/ DrainDone \/ DrainTimeout \/ TakeIdle \/ StopKill \/ StopNext
  PROVE  Stays(j) \/ Returned(j) \/ Rests(j)
<1>. USE DEF TypeInv, TypeOK, counters, shutdown
<1>0. j \in Requests /\ (life # "up" => pc[j] = "out") /\ (pc[j] = "respawn" => lock = "release")
  BY ServiceAssumption DEF JobsServed, CliFits
<1>1. ASSUME NEW S, Landed(S), S \subseteq Parked, worker' = worker, releasing' = releasing
      PROVE  Stays(j) \/ Rests(j)
  BY <1>0, <1>1 DEF Landed, Wakeup, Parked, Stays, Rests
<1>2. ASSUME NEW w \in Workers, WorkerStep(w) PROVE Stays(j) \/ Returned(j) \/ Rests(j)
  <2>1. CASE Exit(w) \/ Reap(w)
    BY <2>1 DEF Exit, Reap, Stays
  <2>2. CASE SpawnOk(w)
    BY <1>1, <2>2, NotifyParked DEF SpawnOk
  <2>3. CASE SpawnFail(w)
    BY <1>1, <2>3, NotifyParked DEF SpawnFail
  <2>4. CASE Release(w)
    <3>1. \/ lock' = lock /\ Answered(w, "out")
          \/ lock' = "release" /\ Answered(w, "respawn")
      BY <2>4 DEF Release, StartSpawn
    <3>2. w \in releasing /\ releasing' = releasing \ {w} /\ proc[w] = "dead" /\ lock = "free"
      BY <2>4 DEF Release, KillReturns
    <3>3. CASE pc[j] = "release" /\ worker[j] = w
      BY <1>0, <3>1, <3>2, <3>3 DEF Answered, Returned
    <3>4. CASE ~(pc[j] = "release" /\ worker[j] = w)
      BY <1>0, <3>1, <3>2, <3>4 DEF Answered, Stays
    <3>. QED BY <3>3, <3>4
  <2>. QED BY <1>2, <2>1, <2>2, <2>3, <2>4 DEF WorkerStep
<1>3. CASE Start \/ Grow \/ Sweep \/ SweepNext
  BY <1>0, <1>3 DEF Start, Grow, StartSpawn, Sweep, SweepNext, Stays
<1>4. CASE Snapshot \/ DrainDone \/ StopKill \/ StopNext
  BY <1>4 DEF Snapshot, DrainDone, StopKill, StopNext, Stays
<1>5. CASE DrainTimeout \/ TakeIdle
  BY <1>0, <1>5 DEF DrainTimeout, TakeIdle, Wakeup, Parked, Stays
<1>. QED BY <1>2, <1>3, <1>4, <1>5

\* A step of one request leaves the others, but for a waiter it wakes.
LEMMA OthersStay ==
  ASSUME TypeInv, NEW r \in Requests, RequestStep(r), NEW j \in Requests, j # r
  PROVE  Stays(j)
<1>. USE DEF TypeInv, TypeOK, counters, shutdown, Stays
<1>1. CASE Arrive(r) \/ GiveUp(r)
  BY <1>1 DEF Arrive, GiveUp
<1>2. ASSUME NEW n, Turn(r, n), UNCHANGED <<lock, releasing>> PROVE Stays(j)
  BY <1>2 DEF Turn
<1>3. CASE Enter(r)
  BY <1>2, <1>3 DEF Enter
<1>4. CASE Wake(r)
  <2>1. CASE SpawnHopeless
    BY <1>4, <2>1 DEF Wake
  <2>. QED BY <1>2, <1>4, <2>1 DEF Wake
<1>5. CASE Unwind(r)
  BY <1>5, NotifyParked DEF Unwind, Wakeup, Parked
<1>6. CASE RunTimeout(r) \/ RunEnds(r) \/ Cancel(r)
  BY <1>6 DEF RunTimeout, RunEnds, Cancel, BeginRelease
<1>. QED BY <1>1, <1>3, <1>4, <1>5, <1>6 DEF RequestStep

\* And its own steps, but for the one with which it comes.
LEMMA RequestGoes ==
  ASSUME TypeInv, NEW r \in Requests
  PROVE  /\ Enter(r) \/ Wake(r) => Waits(r) \/ Gets(r)
         /\ GiveUp(r) => Waits(r)
         /\ Unwind(r) => Leaves(r)
         /\ RunTimeout(r) => Stays(r)
         /\ RunEnds(r) => Returns(r)
         /\ Cancel(r) => Returns(r) \/ (Torn(r) /\ UNCHANGED <<proc, releasing>>)
<1>. USE DEF TypeInv, TypeOK, counters, shutdown
<1>1. ASSUME NEW n, Turn(r, n), pc[r] \in {"enter", "woken"} PROVE Waits(r) \/ Gets(r)
  <2>1. CASE pc'[r] \in {"out", "parked"}
    BY <1>1, <2>1 DEF Waits
  <2>2. CASE ~Stopped /\ pc' = [pc EXCEPT ![r] = "run"] /\
             \E w \in idle, dead \in SUBSET {v \in idle : ~IsAlive(v)} :
               IsAlive(w) /\ Drop(dead) /\ worker' = [worker EXCEPT ![r] = w]
    <3>1. PICK w \in idle, dead \in SUBSET {v \in idle : ~IsAlive(v)} :
            IsAlive(w) /\ Drop(dead) /\ worker' = [worker EXCEPT ![r] = w]
      BY <2>2
    <3>2. worker'[r] = w /\ pc'[r] = "run" /\ proc'[w] = proc[w]
      BY <2>2, <3>1 DEF Drop, Dropped
    <3>. QED BY <1>1, <3>1, <3>2 DEF Gets, IsAlive
  <2>. QED BY <1>1, <2>1, <2>2 DEF Turn
<1>2. Enter(r) => Waits(r) \/ Gets(r)
  BY <1>1 DEF Enter
<1>3. Wake(r) => Waits(r) \/ Gets(r)
  <2>. SUFFICES ASSUME Wake(r) PROVE Waits(r) \/ Gets(r)
    OBVIOUS
  <2>1. CASE SpawnHopeless
    BY <2>1 DEF Wake, Waits
  <2>. QED BY <1>1, <2>1 DEF Wake
<1>4. GiveUp(r) => Waits(r)
  BY DEF GiveUp, Waits
<1>5. Unwind(r) => Leaves(r)
  BY DEF Unwind, Wakeup, Leaves
<1>6. RunTimeout(r) => Stays(r)
  BY DEF RunTimeout, Stays
<1>7. BeginRelease(r) /\ pc[r] = "run" => Returns(r)
  BY DEF BeginRelease, Killed, Returns, RunHasWorker
<1>8. RunEnds(r) => Returns(r)
  BY <1>7 DEF RunEnds
<1>9. Cancel(r) => Returns(r) \/ (Torn(r) /\ UNCHANGED <<proc, releasing>>)
  BY <1>7 DEF Cancel, Torn
<1>. QED BY <1>2, <1>3, <1>4, <1>5, <1>6, <1>8, <1>9

\* The pool serves until stop().
LEMMA LifeGoesOn ==
  ASSUME TypeInv, [Next]_vars
  PROVE  /\ life = "up" => life' = "up" \/ Stop
         /\ life' = "starting" => life = "starting"
         /\ Serving' => Serving
<1>. USE DEF TypeInv, TypeOK, counters, shutdown, Serving
<1>1. ASSUME NEW r \in Requests, RequestStep(r) PROVE life' = life
  BY <1>1 DEF RequestStep, Arrive, GiveUp, Unwind, Enter, Wake, RunTimeout, RunEnds, Cancel
<1>2. ASSUME NEW w \in Workers, WorkerStep(w)
      PROVE  life' = life \/ (life = "starting" /\ life' = "stopping")
  BY <1>2 DEF WorkerStep, Exit, Reap, SpawnOk, SpawnFail, Release, StartHolds
<1>3. CASE Start \/ Grow \/ Sweep \/ SweepNext
  BY <1>3 DEF Start, Grow, Sweep, SweepNext
<1>4. CASE StopStep
  BY <1>4 DEF StopStep, Stop, Snapshot, DrainDone, DrainTimeout, TakeIdle, StopKill, StopNext
<1>5. CASE Finished \/ UNCHANGED vars
  BY <1>5 DEF Finished, vars
<1>. QED BY <1>1, <1>2, <1>3, <1>4, <1>5 DEF Next

----------------------------------------------------------------------------
(* What is known of the jobs stays known *)

Goes(j) ==
  \/ Stays(j) \/ Waits(j) \/ Leaves(j) \/ Gets(j)
  \/ Returns(j) \/ Returned(j) \/ Rests(j) \/ Torn(j)

\* What execute() has got to report fits where the step leaves the job.
Reports(outcomes) ==
  /\ outcomes \in [Jobs -> {"none"} \cup Ends]
  /\ \A j \in Jobs :
       /\ \/ outcomes[j] = result[j]
          \/ /\ outcomes[j] # "none" /\ pc[j] # "out" /\ pc'[j] \in {"unwind", "release", "out"}
             /\ pc'[j] = "unwind" => outcomes[j] = "cancelled"
       /\ Returns(j) => outcomes[j] # "none"

LEMMA FollowKeeps ==
  ASSUME TypeInv, OwnInv, TypeInv', OwnInv', ServiceInv, [Next]_vars, life = "up" => life' = "up",
         NEW outcomes, NEW heard, Follow(outcomes, heard), Reports(outcomes),
         \A j \in Jobs : Goes(j)
  PROVE  ServiceInv'
<1>. DEFINE over == {j \in Jobs : JobRuns(j) /\ pc'[j] = "out"}
<1>0. Jobs \subseteq Requests /\ "over" \notin Workers /\ NoWorker # "over" /\ NoWorker \notin Workers
  BY ServiceAssumption, PoolAssumption
<1>1. /\ result' = [j \in Jobs |-> IF j \in over THEN Final(j, outcomes[j]) ELSE outcomes[j]]
      /\ status' = [j \in Jobs |-> IF j \in over THEN result'[j] ELSE status[j]]
      /\ asked' = asked \ (over \cup heard)
      /\ cli' = [j \in Jobs |->
                   IF pc'[j] = "run" THEN worker'[j]
                   ELSE IF cli[j] \in Workers /\ proc'[cli[j]] \notin {"alive", "exiting"}
                     THEN "over" ELSE cli[j]]
      /\ UNCHANGED <<store, deleting, stage>>
  BY DEF Follow
<1>. HIDE DEF over
<1>2. JobTypes'
  <2>1. \A j \in Jobs : outcomes[j] \in {"none"} \cup Ends /\ Final(j, outcomes[j]) \in Ends
    BY DEF Reports, Final, Ends
  <2>2. result' \in [Jobs -> {"none"} \cup Ends]
    BY <1>1, <2>1
  <2>3. \A j \in over : j \in Jobs /\ result'[j] \in Ends
    BY <1>1, <2>1 DEF over
  <2>4. status' \in [Jobs -> {"unknown", "running"} \cup Ends]
    BY <1>1, <2>3 DEF ServiceInv, JobTypes
  <2>5. cli' \in [Jobs -> Workers \cup {NoWorker, "over"}]
    BY <1>0, <1>1 DEF ServiceInv, JobTypes, TypeInv, TypeOK
  <2>. QED BY <1>1, <2>2, <2>4, <2>5 DEF ServiceInv, JobTypes
<1>3. \A j \in Jobs : (pc'[j] # "out" => pc[j] # "out") /\ (pc[j] \in {"out", "run"} => pc'[j] # "respawn")
  BY DEF Goes, Stays, Waits, Leaves, Gets, Returns, Returned, Rests, Torn
<1>4. JobsServed'
  <2>. USE DEF ServiceInv, JobTypes, JobsServed
  <2>1. \A j \in Jobs : result'[j] \in {"none"} \cup Ends /\ (j \in over => result'[j] \in Ends)
    BY <1>1 DEF Reports, Final, Ends
  <2>2. \A j \in Jobs : JobRuns(j)' <=> pc'[j] # "out"
    BY <1>1, <1>3, <2>1 DEF JobRuns, over, Ends
  <2>3. \A j \in asked' : JobRuns(j)'
    BY <1>1, <1>3, <2>2 DEF JobRuns, over
  <2>4. life' # "up" => \A j \in Jobs : pc'[j] = "out"
    BY <1>3
  <2>5. (stage' = "pool" => ~Serving') /\ (life' = "starting" => life = "starting")
    BY <1>1, LifeGoesOn
  <2>6. \A j \in Jobs : status'[j] = "unknown" => cli'[j] = NoWorker /\ result'[j] = "none"
    <3>. SUFFICES ASSUME NEW j \in Jobs, status'[j] = "unknown"
                  PROVE  cli'[j] = NoWorker /\ result'[j] = "none"
      OBVIOUS
    <3>1. j \notin over /\ status[j] = "unknown"
      BY <1>1, <2>1 DEF Ends
    <3>2. pc[j] = "out" /\ pc'[j] = "out"
      BY <1>3, <3>1 DEF JobRuns
    <3>3. outcomes[j] = result[j]
      BY <3>2 DEF Reports
    <3>. QED BY <1>0, <1>1, <3>1, <3>2, <3>3
  <2>7. life' = "starting" => \A j \in Jobs : status'[j] = "unknown"
    BY <1>1, <2>5 DEF over, JobRuns
  <2>. QED BY <2>2, <2>3, <2>4, <2>5, <2>6, <2>7
<1>5. ResultFits'
  <2>. SUFFICES ASSUME NEW j \in Jobs
                PROVE  /\ pc'[j] \in {"enter", "parked", "woken", "run"} => result'[j] = "none"
                       /\ pc'[j] = "unwind" => result'[j] \in {"none", "cancelled"}
                       /\ pc'[j] \in {"release", "respawn"} => result'[j] # "none"
    BY DEF ResultFits
  <2>1. pc'[j] # "out" => result'[j] = outcomes[j]
    BY <1>1 DEF over
  <2>2. \/ outcomes[j] = result[j]
        \/ /\ outcomes[j] # "none" /\ pc'[j] \in {"unwind", "release", "out"}
           /\ pc'[j] = "unwind" => outcomes[j] = "cancelled"
    BY DEF Reports
  <2>3. Returns(j) => outcomes[j] # "none"
    BY DEF Reports
  <2>4. /\ pc[j] \in {"enter", "parked", "woken", "run"} => result[j] = "none"
        /\ pc[j] = "unwind" => result[j] \in {"none", "cancelled"}
        /\ pc[j] \in {"release", "respawn"} => result[j] # "none"
    BY DEF ServiceInv, ResultFits
  <2>5. /\ pc'[j] \in {"enter", "parked", "woken", "run"} => pc[j] \in {"enter", "parked", "woken", "run"}
        /\ pc'[j] = "unwind" => pc[j] \in {"parked", "woken", "enter", "unwind"}
        /\ pc'[j] \in {"release", "respawn"} => pc[j] \in {"release", "respawn"} \/ Returns(j)
    BY DEF Goes, Stays, Waits, Leaves, Gets, Returned, Rests, Torn, Returns
  <2>. QED BY <2>1, <2>2, <2>3, <2>4, <2>5
<1>6. \A j \in Jobs : pc'[j] # "run" =>
        cli'[j] = IF cli[j] \in Workers /\ proc'[cli[j]] \notin {"alive", "exiting"}
                    THEN "over" ELSE cli[j]
  BY <1>1
<1>7. CliFits'
  <2>. SUFFICES ASSUME NEW j \in Jobs
                PROVE  /\ pc'[j] \in Waiting => cli'[j] = NoWorker
                       /\ pc'[j] = "run" => cli'[j] = worker'[j]
                       /\ pc'[j] = "release" => cli'[j] \in {worker'[j], "over"} /\ worker'[j] \in releasing'
                       /\ pc'[j] = "respawn" => cli'[j] = "over" /\ lock' = "release"
    BY DEF CliFits
  <2>1. /\ pc[j] \in Waiting => cli[j] = NoWorker
        /\ pc[j] = "run" => cli[j] = worker[j]
        /\ pc[j] = "release" => cli[j] \in {worker[j], "over"} /\ worker[j] \in releasing
        /\ pc[j] = "respawn" => cli[j] = "over" /\ lock = "release"
    BY DEF ServiceInv, CliFits
  <2>2. pc'[j] \in Waiting => cli'[j] = NoWorker
    <3>1. pc'[j] \in Waiting => pc[j] \in Waiting
      BY DEF Goes, Stays, Waits, Leaves, Gets, Returns, Returned, Rests, Torn, Waiting
    <3>. QED BY <1>0, <1>6, <2>1, <3>1 DEF Waiting
  <2>3. pc'[j] = "run" => cli'[j] = worker'[j]
    BY <1>1
  <2>4. pc'[j] = "release" => cli'[j] \in {worker'[j], "over"} /\ worker'[j] \in releasing'
    <3>1. pc'[j] = "release" => (Stays(j) /\ pc[j] = "release") \/ Returns(j)
      BY DEF Goes, Stays, Waits, Leaves, Gets, Returns, Returned, Rests, Torn
    <3>2. CASE Stays(j) /\ pc[j] = "release"
      BY <1>6, <2>1, <3>2 DEF Stays
    <3>3. CASE Returns(j)
      BY <1>6, <2>1, <3>3 DEF Returns
    <3>. QED BY <3>1, <3>2, <3>3
  <2>5. pc'[j] = "respawn" => cli'[j] = "over" /\ lock' = "release"
    <3>1. pc'[j] = "respawn" => (Stays(j) /\ pc[j] = "respawn") \/ (Returned(j) /\ lock' = "release")
      BY DEF Goes, Stays, Waits, Leaves, Gets, Returns, Returned, Rests, Torn
    <3>2. CASE Stays(j) /\ pc[j] = "respawn"
      BY <1>0, <1>6, <2>1, <3>2 DEF Stays
    <3>3. CASE Returned(j) /\ pc'[j] = "respawn"
      <4>1. pc[j] = "release" /\ proc[worker[j]] = "dead" /\ lock' = "release"
        BY <3>3 DEF Returned
      <4>2. cli[j] = "over"
        BY <2>1, <4>1 DEF ServiceInv, CliDies, JobTypes, TypeInv, TypeOK
      <4>. QED BY <1>0, <1>6, <3>3, <4>1, <4>2
    <3>. QED BY <3>1, <3>2, <3>3
  <2>. QED BY <2>2, <2>3, <2>4, <2>5
<1>8. CliDies'
  <2>. SUFFICES ASSUME NEW j \in Jobs, pc'[j] # "run", cli'[j] \in Workers
                PROVE  /\ proc'[cli'[j]] = "exiting"
                       /\ life' \in {"up", "stopping"} => cli'[j] \in releasing'
                       /\ life' = "draining" => cli'[j] \in snapshot'
    BY DEF CliDies
  <2>1. cli'[j] = cli[j] /\ cli[j] \in Workers /\ proc'[cli[j]] \in {"alive", "exiting"}
    BY <1>0, <1>6
  <2>2. CASE pc[j] = "run"
    <3>1. Returns(j) /\ cli[j] = worker[j] /\ life = "up"
      BY <2>2 DEF Goes, Stays, Waits, Leaves, Gets, Returned, Rests, Torn, Returns,
                  ServiceInv, CliFits, JobsServed
    <3>2. life' = "up"
      BY <3>1
    <3>. QED BY <2>1, <3>1, <3>2 DEF Returns
  <2>3. CASE pc[j] # "run"
    <3>1. /\ proc[cli[j]] = "exiting"
          /\ life \in {"up", "stopping"} => cli[j] \in releasing
          /\ life = "draining" => cli[j] \in snapshot
      BY <2>1, <2>3 DEF ServiceInv, CliDies
    <3>2. proc'[cli[j]] = "exiting"
      BY <2>1, <3>1, ProcessesEnd DEF Reap, TypeInv, TypeOK
    <3>3. life # "starting"
      BY <1>0, <2>1 DEF ServiceInv, JobsServed
    <3>. QED BY <2>1, <3>1, <3>2, <3>3, ReleasesKill
  <2>. QED BY <2>2, <2>3
<1>9. JobsApart'
  <2>. SUFFICES ASSUME NEW i \in Jobs, NEW j \in Jobs, i # j
                PROVE  /\ cli'[i] = cli'[j] => cli'[i] \notin Workers
                       /\ pc'[i] = "release" /\ pc'[j] = "release" => worker'[i] # worker'[j]
                       /\ ~(pc'[i] = "respawn" /\ pc'[j] = "respawn")
    BY DEF JobsApart
  <2>0. /\ cli[i] = cli[j] => cli[i] \notin Workers
        /\ pc[i] = "release" /\ pc[j] = "release" => worker[i] # worker[j]
        /\ ~(pc[i] = "respawn" /\ pc[j] = "respawn")
    BY DEF ServiceInv, JobsApart
  <2>1. cli'[i] = cli'[j] => cli'[i] \notin Workers
    <3>. SUFFICES ASSUME cli'[i] = cli'[j], cli'[i] \in Workers PROVE FALSE
      OBVIOUS
    <3>1. ASSUME NEW k \in Jobs, cli'[k] \in Workers
          PROVE  cli'[k] = cli[k] \/ (Gets(k) /\ cli'[k] = worker'[k] /\ life = "up")
      <4>1. CASE pc'[k] = "run"
        <5>1. cli'[k] = worker'[k]
          BY <1>1, <4>1
        <5>2. (Stays(k) /\ pc[k] = "run") \/ Gets(k)
          BY <4>1 DEF Goes, Stays, Waits, Leaves, Gets, Returned, Rests, Torn, Returns
        <5>3. pc[k] # "out"
          BY <5>2 DEF Gets
        <5>4. life = "up"
          BY <5>3 DEF ServiceInv, JobsServed
        <5>. QED BY <5>1, <5>2, <5>4 DEF Stays, ServiceInv, CliFits
      <4>2. CASE pc'[k] # "run"
        BY <1>0, <1>6, <3>1, <4>2
      <4>. QED BY <4>1, <4>2
    <3>2. ASSUME NEW k \in Jobs, NEW m \in Jobs, k # m, Gets(k), life = "up", cli[m] \in Workers
          PROVE  cli[m] # worker'[k]
      <4>1. worker'[k] \in idle
        BY <3>2 DEF Gets
      <4>2. CASE pc[m] = "run"
        BY <1>0, <4>1, <4>2 DEF ServiceInv, CliFits, OwnInv, HandsApart
      <4>3. CASE pc[m] # "run"
        BY <3>2, <4>1, <4>3 DEF ServiceInv, CliDies, OwnInv, ListsApart
      <4>. QED BY <4>2, <4>3
    <3>3. ASSUME Gets(i), Gets(j) PROVE worker'[i] # worker'[j]
      BY <1>0, <3>3 DEF Gets, OwnInv, HandsApart
    <3>4. CASE cli'[i] = cli[i] /\ cli'[j] = cli[j]
      BY <2>0, <3>4
    <3>. QED BY <3>1, <3>2, <3>3, <3>4
  <2>2. pc'[i] = "release" /\ pc'[j] = "release" => worker'[i] # worker'[j]
    <3>1. ASSUME NEW k \in Jobs, pc'[k] = "release"
          PROVE  /\ worker'[k] = worker[k]
                 /\ pc[k] = "run" \/ (pc[k] = "release" /\ worker[k] \in releasing)
      BY <3>1 DEF Goes, Stays, Waits, Leaves, Gets, Returned, Rests, Torn, Returns, ServiceInv, CliFits
    <3>. QED BY <1>0, <2>0, <3>1 DEF OwnInv, HandsApart
  <2>3. ~(pc'[i] = "respawn" /\ pc'[j] = "respawn")
    <3>1. ASSUME NEW k \in Jobs, pc'[k] = "respawn"
          PROVE  (pc[k] = "respawn" /\ lock = "release") \/ (Returned(k) /\ lock = "free")
      BY <3>1 DEF Goes, Stays, Waits, Leaves, Gets, Returned, Rests, Torn, Returns, ServiceInv, CliFits
    <3>2. ASSUME Returned(i), Returned(j) PROVE FALSE
      <4>1. PICK v \in releasing : releasing' = releasing \ {v} /\ pc[i] = "release" /\ worker[i] = v
        BY <3>2 DEF Returned
      <4>2. PICK w \in releasing : releasing' = releasing \ {w} /\ pc[j] = "release" /\ worker[j] = w
        BY <3>2 DEF Returned
      <4>3. v = w
        BY <4>1, <4>2
      <4>. QED BY <2>0, <4>1, <4>2, <4>3
    <3>. QED BY <2>0, <3>1, <3>2
  <2>. QED BY <2>1, <2>2, <2>3
<1>. QED BY <1>2, <1>4, <1>5, <1>7, <1>8, <1>9 DEF ServiceInv

\* A step that moves no job.
LEMMA NoJobMoves ==
  ASSUME ServiceInv, UNCHANGED <<status, result, cli, lock>>,
         \A j \in Jobs : pc'[j] = pc[j] /\ worker'[j] = worker[j],
         \A w \in Workers : proc[w] = "exiting" => proc'[w] = "exiting",
         releasing \subseteq releasing', snapshot' = snapshot,
         life' = life \/ (life = "up" /\ life' = "stopping" /\ \A j \in Jobs : pc[j] = "out"),
         store' \subseteq Jobs, deleting' \in [Deleters -> Jobs \cup {NoJob}],
         \A j \in asked' : j \in Jobs /\ JobRuns(j),
         stage' \in {"up", "jobs", "pool"}, stage' = "pool" => ~Serving'
  PROVE  ServiceInv'
<1>. USE DEF ServiceInv
<1>1. JobTypes'
  BY DEF JobTypes
<1>2. JobsServed'
  BY DEF JobsServed, JobRuns
<1>3. ResultFits'
  BY DEF ResultFits
<1>4. CliFits'
  BY DEF CliFits
<1>5. CliDies'
  BY DEF CliDies
<1>6. JobsApart'
  BY DEF JobsApart
<1>. QED BY <1>1, <1>2, <1>3, <1>4, <1>5, <1>6

LEMMA ServiceInit0 == ServiceInit => ServiceInv
<1>. SUFFICES ASSUME ServiceInit PROVE ServiceInv
  OBVIOUS
<1>. USE ServiceAssumption, PoolAssumption DEF ServiceInit, Init
<1>1. JobTypes /\ JobsServed
  BY DEF JobTypes, JobsServed, JobRuns, Serving
<1>2. ResultFits /\ CliFits /\ CliDies /\ JobsApart
  BY DEF ResultFits, CliFits, CliDies, JobsApart, Waiting
<1>. QED BY <1>1, <1>2 DEF ServiceInv

\* A job that is submitted is new, to the pool too.
LEMMA SubmitKeeps ==
  ASSUME TypeInv, ServiceInv, NEW j \in Jobs, Submit(j)
  PROVE  ServiceInv'
<1>. USE DEF ServiceInv, Submit, Arrive, counters, shutdown
<1>0. j \in Requests /\ NoWorker \notin Workers
  BY ServiceAssumption, PoolAssumption
<1>1. /\ pc'[j] = "enter" /\ \A i \in Jobs : i # j => pc'[i] = pc[i]
      /\ status'[j] = "running" /\ \A i \in Jobs : i # j => status'[i] = status[i]
  BY <1>0, ServiceAssumption DEF JobTypes, TypeInv, TypeOK
<1>2. cli[j] = NoWorker /\ result[j] = "none" /\ life = "up"
  BY DEF JobsServed
<1>3. JobTypes'
  BY DEF JobTypes, Store!Droppable, Store!Ended
<1>4. JobsServed'
  BY <1>1, <1>2 DEF JobsServed, JobRuns, Serving
<1>5. ResultFits' /\ CliFits'
  BY <1>1, <1>2 DEF ResultFits, CliFits, Waiting
<1>6. CliDies' /\ JobsApart'
  BY <1>0, <1>1, <1>2 DEF CliDies, JobsApart
<1>. QED BY <1>3, <1>4, <1>5, <1>6

PoolKnown == TypeInv /\ OwnInv /\ TypeInv' /\ OwnInv'

\* What keeps its report: nothing comes back from run() in this step.
LEMMA ReportsStay ==
  ASSUME ServiceInv, \A j \in Jobs : ~Returns(j)
  PROVE  Reports(result)
BY DEF Reports, ServiceInv, JobTypes

LEMMA BackgroundKeeps ==
  ASSUME PoolKnown, ServiceInv, Background
  PROVE  ServiceInv'
<1>1. \/ \E w \in Workers : WorkerStep(w)
      \/ Start \/ Grow \/ Sweep \/ SweepNext
      \/ Snapshot \/ DrainDone \/ DrainTimeout \/ TakeIdle \/ StopKill \/ StopNext
  BY DEF Background
<1>2. \A j \in Jobs : Stays(j) \/ Returned(j) \/ Rests(j)
  BY <1>1, BackgroundGoes DEF PoolKnown, ServiceInv
<1>3. \A j \in Jobs : ~Returns(j)
  BY <1>2 DEF Stays, Returned, Rests, Returns
<1>4. life = "up" => life' = "up"
  BY <1>1 DEF PoolKnown, TypeInv, StartHolds, WorkerStep, Exit, Reap, SpawnOk, SpawnFail, Release,
              Start, Grow, Sweep, SweepNext, Snapshot, DrainDone, DrainTimeout, TakeIdle, StopKill,
              StopNext, shutdown
<1>5. [Next]_vars
  BY <1>1 DEF Next, StopStep
<1>6. Reports(result) /\ \A j \in Jobs : Goes(j)
  BY <1>2, <1>3, ReportsStay DEF Goes
<1>. QED BY <1>4, <1>5, <1>6, FollowKeeps DEF PoolKnown, Background

\* A request that moves leaves the others' jobs alone.
LEMMA RequestServes ==
  ASSUME TypeInv, NEW r \in Requests, RequestStep(r)
  PROVE  [Next]_vars /\ life' = life /\ \A j \in Jobs : j # r => Stays(j)
<1>1. life' = life
  BY DEF RequestStep, Arrive, GiveUp, Unwind, Enter, Wake, RunTimeout, RunEnds, Cancel, shutdown
<1>. QED BY <1>1, OthersStay, ServiceAssumption DEF Next

LEMMA TaskKeeps ==
  ASSUME PoolKnown, ServiceInv, NEW r \in Requests, TaskStep(r)
  PROVE  ServiceInv'
<1>1. Enter(r) \/ Wake(r) \/ GiveUp(r) \/ RunTimeout(r) \/ Unwind(r)
  BY DEF TaskStep
<1>2. [Next]_vars /\ life' = life /\ \A j \in Jobs : j # r => Stays(j)
  BY <1>1, RequestServes DEF PoolKnown, RequestStep
<1>3. Waits(r) \/ Gets(r) \/ Leaves(r) \/ Stays(r)
  BY <1>1, RequestGoes DEF PoolKnown
<1>4. \A j \in Jobs : ~Returns(j)
  BY <1>2, <1>3 DEF Stays, Waits, Gets, Leaves, Returns
<1>5. Reports(result) /\ \A j \in Jobs : Goes(j)
  BY <1>2, <1>3, <1>4, ReportsStay DEF Goes
<1>. QED BY <1>2, <1>5, FollowKeeps DEF PoolKnown, TaskStep

LEMMA RunReturnsKeeps ==
  ASSUME PoolKnown, ServiceInv, NEW r \in Requests, RunReturns(r)
  PROVE  ServiceInv'
<1>1. PICK o \in {"succeeded", "failed"} : Follow([j \in Jobs |-> IF j = r THEN o ELSE result[j]], {})
  BY DEF RunReturns
<1>2. [Next]_vars /\ life' = life /\ \A j \in Jobs : j # r => Stays(j)
  BY RequestServes DEF PoolKnown, RequestStep, RunReturns
<1>3. Returns(r)
  BY RequestGoes DEF PoolKnown, RunReturns
<1>4. \A j \in Jobs : Goes(j)
  BY <1>2, <1>3 DEF Goes
<1>5. \A j \in Jobs : j # r => ~Returns(j)
  BY <1>2 DEF Stays, Returns
<1>. DEFINE outcomes == [j \in Jobs |-> IF j = r THEN o ELSE result[j]]
<1>6. Reports(outcomes)
  <2>1. outcomes \in [Jobs -> {"none"} \cup Ends]
    BY DEF ServiceInv, JobTypes, Ends
  <2>2. pc[r] = "run" /\ pc'[r] = "release" /\ o # "none"
    BY <1>3 DEF Returns
  <2>. QED BY <1>5, <2>1, <2>2 DEF Reports
<1>. HIDE DEF outcomes
<1>7. Follow(outcomes, {})
  BY <1>1 DEF outcomes
<1>. QED BY <1>2, <1>4, <1>6, <1>7, FollowKeeps DEF PoolKnown

LEMMA RaisedKeeps ==
  ASSUME PoolKnown, ServiceInv, NEW j \in Jobs, Raised(j)
  PROVE  ServiceInv'
<1>0. j \in Requests
  BY ServiceAssumption
<1>1. GiveUp(j) \/ Cancel(j) \/ (pc[j] = "unwind" /\ UNCHANGED vars)
  BY DEF Raised
<1>2. [Next]_vars /\ life' = life /\ \A i \in Jobs : i # j => Stays(i)
  <2>1. CASE UNCHANGED vars
    BY <2>1 DEF vars, Stays
  <2>. QED BY <1>0, <1>1, <2>1, RequestServes DEF PoolKnown, RequestStep
<1>3. /\ Waits(j) \/ Returns(j) \/ Torn(j) \/ Stays(j)
      /\ pc[j] # "out" /\ pc'[j] \in {"unwind", "release", "out"}
  <2>1. CASE GiveUp(j)
    <3>1. Waits(j)
      BY <1>0, <2>1, RequestGoes DEF PoolKnown
    <3>2. pc'[j] \in {"unwind", "out"}
      BY <1>0, <2>1 DEF GiveUp, PoolKnown, TypeInv, TypeOK
    <3>. QED BY <3>1, <3>2 DEF Waits
  <2>2. CASE Cancel(j)
    BY <1>0, <2>2, RequestGoes DEF PoolKnown, Returns, Torn
  <2>3. CASE pc[j] = "unwind" /\ UNCHANGED vars
    BY <2>3 DEF vars, Stays
  <2>. QED BY <1>1, <2>1, <2>2, <2>3
<1>4. \A i \in Jobs : Goes(i)
  BY <1>2, <1>3 DEF Goes
<1>5. \A i \in Jobs : i # j => ~Returns(i)
  BY <1>2 DEF Stays, Returns
<1>. DEFINE outcomes == [result EXCEPT ![j] = "cancelled"]
<1>6. Reports(outcomes)
  <2>1. outcomes \in [Jobs -> {"none"} \cup Ends]
    BY DEF ServiceInv, JobTypes, Ends
  <2>2. outcomes[j] = "cancelled" /\ \A i \in Jobs : i # j => outcomes[i] = result[i]
    BY DEF ServiceInv, JobTypes
  <2>. HIDE DEF outcomes
  <2>. QED BY <1>3, <1>5, <2>1, <2>2 DEF Reports
<1>. HIDE DEF outcomes
<1>7. Follow(outcomes, {j})
  BY DEF Raised, outcomes
<1>. QED BY <1>2, <1>4, <1>6, <1>7, FollowKeeps DEF PoolKnown

LEMMA GenerateKeeps ==
  ASSUME PoolKnown, ServiceInv, NEW r \in Requests, Generate(r)
  PROVE  ServiceInv'
<1>. USE DEF PoolKnown, TypeInv, TypeOK, Generate, counters, shutdown, jobVars
<1>1. /\ \A j \in Jobs : pc'[j] = pc[j] /\ worker'[j] = worker[j]
      /\ lock' = lock /\ releasing \subseteq releasing' /\ snapshot' = snapshot /\ life' = life
  BY ServiceAssumption DEF Arrive, Cancel, BeginRelease
<1>2. \A w \in Workers : proc[w] = "exiting" => proc'[w] = "exiting"
  BY DEF Arrive, Cancel, BeginRelease, Killed
<1>3. /\ store' \subseteq Jobs /\ deleting' \in [Deleters -> Jobs \cup {NoJob}]
      /\ \A j \in asked' : j \in Jobs /\ JobRuns(j)
      /\ stage' \in {"up", "jobs", "pool"} /\ (stage' = "pool" => ~Serving')
  BY <1>1 DEF ServiceInv, JobTypes, JobsServed, Serving
<1>. HIDE DEF PoolKnown, TypeInv, TypeOK
<1>4. UNCHANGED <<status, result, cli>>
  OBVIOUS
<1>. HIDE DEF Generate
<1>. QED BY <1>1, <1>2, <1>3, <1>4, NoJobMoves

\* Requests about jobs and the shutdown.
LEMMA HandlerKeeps ==
  ASSUME PoolKnown, ServiceInv,
         \/ List \/ Shutdown \/ StopPool \/ Ended \/ UNCHANGED serviceVars
         \/ \E d \in Deleters : (\E j \in Jobs : Delete(d, j)) \/ Answer(d)
  PROVE  ServiceInv'
<1>. USE DEF PoolKnown, TypeInv, TypeOK, counters, shutdown, jobVars, vars, serviceVars, Finished
<1>1. /\ UNCHANGED <<proc, lock, pc, worker, releasing, snapshot, status, result, cli>>
      /\ life' = life \/ (StopPool /\ life = "up" /\ life' = "stopping")
  BY DEF List, Shutdown, StopPool, Stop, Ended, Delete, Answer
<1>2. store' \subseteq Jobs /\ deleting' \in [Deleters -> Jobs \cup {NoJob}]
  BY DEF List, Shutdown, StopPool, Ended, Delete, Answer, ServiceInv, JobTypes
<1>3. \A j \in asked' : j \in Jobs /\ JobRuns(j)
  BY DEF List, Shutdown, StopPool, Ended, Delete, Answer, ServiceInv, JobTypes, JobsServed
<1>4. StopPool => \A j \in Jobs : pc[j] = "out"
  BY DEF StopPool, JobsAreOver, ServiceInv, JobsServed
<1>5. stage' \in {"up", "jobs", "pool"} /\ (stage' = "pool" => ~Serving')
  <2>1. CASE StopPool
    BY <2>1 DEF StopPool, Stop, Serving
  <2>2. CASE Shutdown
    BY <2>2 DEF Shutdown
  <2>3. CASE stage' = stage /\ life' = life
    BY <2>3 DEF ServiceInv, JobTypes, JobsServed, Serving
  <2>. QED BY <2>1, <2>2, <2>3 DEF List, Ended, Delete, Answer
<1>. HIDE DEF PoolKnown, TypeInv, TypeOK
<1>. QED BY <1>1, <1>2, <1>3, <1>4, <1>5, NoJobMoves

LEMMA ServiceKeeps == PoolKnown /\ ServiceInv /\ [ServiceNext]_serviceVars => ServiceInv'
BY BackgroundKeeps, TaskKeeps, RunReturnsKeeps, GenerateKeeps, SubmitKeeps, RaisedKeeps, HandlerKeeps
   DEF ServiceNext, PoolKnown

LEMMA ServiceAlways == ServiceSpec => [](TypeInv /\ OwnInv /\ ServiceInv)
<1>1. ServiceSpec => [](TypeInv /\ OwnInv)
  BY ServiceRunsThePool, OwnAlways
<1>2. TypeInv /\ OwnInv /\ (TypeInv /\ OwnInv)' /\ ServiceInv /\ [ServiceNext]_serviceVars => ServiceInv'
  BY ServiceKeeps DEF PoolKnown
<1>. QED BY <1>1, <1>2, ServiceInit0, PTL DEF ServiceSpec

\* Whatever is deleted, timed out or torn from its release, no process of a job is alive
\* when the daemon has stopped, also when the drain has timed out.
THEOREM NoJobIsLeftRunning == ServiceSpec => []NoJobOutlivesDaemon
<1>1. ServiceInv => NoJobOutlivesDaemon
  BY DEF ServiceInv, JobsServed, CliDies, NoJobOutlivesDaemon
<1>. QED BY <1>1, ServiceAlways, PTL

\* stop() has waited for every release of a job, those included that nobody awaited.
THEOREM DrainedMeansReaped == ServiceSpec => DrainReapsJobs
<1>. DEFINE Reaps == DrainDone => \A j \in Jobs : cli[j] \notin Workers
<1>1. ServiceInv => Reaps
  BY DEF ServiceInv, JobsServed, CliDies, DrainDone, Drained
<1>2. TypeInv /\ OwnInv /\ ServiceInv /\ [ServiceNext]_serviceVars => [Reaps]_serviceVars
  BY <1>1
<1>. QED BY <1>2, ServiceAlways, PTL DEF ServiceSpec, DrainReapsJobs

----------------------------------------------------------------------------
(* The job store behind the pool is module JobStore's *)

\* What JobStore sees of a job stays as it is.
Same(j) ==
  /\ Task(j)' = Task(j) /\ Outcome(j)' = Outcome(j)
  /\ CliOf(j)' = CliOf(j) /\ status'[j] = status[j]

EndsAs(j, o) ==
  /\ Task(j)' = "none" /\ Outcome(j)' = o
  /\ CliOf(j)' = CliOf(j) /\ status'[j] = o

\* It changes as in a step of the job's task, or of its worker.
JobTurn(j) ==
  \/ /\ Task(j) = "acquire" /\ Task(j)' = "run" /\ CliOf(j)' = "running"
     /\ Outcome(j)' = Outcome(j) /\ status'[j] = status[j]
  \/ Task(j) = "acquire" /\ EndsAs(j, "failed")
  \/ /\ CliOf(j) = "running" /\ CliOf(j)' = "dead"
     /\ Task(j)' = Task(j) /\ Outcome(j)' = Outcome(j) /\ status'[j] = status[j]
  \/ /\ Task(j) = "run" /\ CliOf(j) = "dead" /\ Task(j)' = "release"
     /\ Outcome(j)' \in {"succeeded", "failed"}
     /\ CliOf(j)' = CliOf(j) /\ status'[j] = status[j]
  \/ /\ Task(j) = "struck" /\ Task(j)' = "release"
     /\ Outcome(j)' = Outcome(j) /\ CliOf(j)' = CliOf(j) /\ status'[j] = status[j]
  \/ Task(j) = "release" /\ CliOf(j) = "dead" /\ EndsAs(j, Outcome(j))
  \/ Task(j) = "unwind" /\ EndsAs(j, "cancelled")

LEMMA AllSame ==
  ASSUME JobTypes, JobTypes', \A j \in Jobs : Same(j), UNCHANGED <<store, deleting, stage>>
  PROVE  UNCHANGED Store!vars
<1>1. status' = status
  BY DEF JobTypes, Same
<1>. QED BY <1>1 DEF Same, Store!vars

LEMMA OneTurn ==
  ASSUME JobTypes, JobTypes', NEW j \in Jobs, JobTurn(j), \A i \in Jobs : i # j => Same(i),
         UNCHANGED <<store, deleting, stage>>
  PROVE  Store!JobStep(j)
<1>. DEFINE tasks == [i \in Jobs |-> Task(i)]
            outs  == [i \in Jobs |-> Outcome(i)]
            clis  == [i \in Jobs |-> CliOf(i)]
            stay  == CASE stage = "up" -> "up" [] stage = "jobs" -> "closing" [] OTHER -> "down"
<1>1. tasks' = [tasks EXCEPT ![j] = Task(j)']
  BY DEF Same
<1>2. outs' = [outs EXCEPT ![j] = Outcome(j)']
  BY DEF Same
<1>3. clis' = [clis EXCEPT ![j] = CliOf(j)']
  BY DEF Same
<1>4. status' = [status EXCEPT ![j] = status'[j]]
  BY DEF Same, JobTypes
<1>5. /\ tasks[j] = Task(j) /\ outs[j] = Outcome(j) /\ clis[j] = CliOf(j) /\ stay' = stay
      /\ tasks = [tasks EXCEPT ![j] = Task(j)] /\ outs = [outs EXCEPT ![j] = Outcome(j)]
      /\ clis = [clis EXCEPT ![j] = CliOf(j)] /\ status = [status EXCEPT ![j] = status[j]]
  BY DEF JobTypes
<1>. QED BY <1>1, <1>2, <1>3, <1>4, <1>5
  DEF JobTurn, EndsAs, Store!JobStep, Store!Submit, Store!Acquired, Store!Refused, Store!CliEnds,
      Store!RunEnds, Store!Struck, Store!Released, Store!Unwound, Store!Finish

\* A process comes to life only by a spawn.
LEMMA NoResurrection ==
  ASSUME TypeInv, [Next]_vars, NEW w \in Workers, IsAlive(w)'
  PROVE  IsAlive(w) \/ proc[w] = "starting"
<1>. USE DEF TypeInv, TypeOK, counters, shutdown, IsAlive
<1>1. ASSUME NEW r \in Requests, RequestStep(r) PROVE IsAlive(w)
  <2>1. CASE Arrive(r) \/ GiveUp(r) \/ Unwind(r)
    BY <2>1 DEF Arrive, GiveUp, Unwind
  <2>2. ASSUME NEW n, Turn(r, n) PROVE IsAlive(w)
    BY <2>2 DEF Turn, Drop, Dropped
  <2>3. CASE Enter(r) \/ Wake(r)
    BY <2>2, <2>3 DEF Enter, Wake
  <2>4. CASE RunTimeout(r) \/ RunEnds(r) \/ Cancel(r)
    BY <2>4 DEF RunTimeout, RunEnds, Cancel, BeginRelease, Killed
  <2>. QED BY <1>1, <2>1, <2>3, <2>4 DEF RequestStep
<1>2. ASSUME NEW v \in Workers, WorkerStep(v) PROVE IsAlive(w) \/ proc[w] = "starting"
  <2>1. CASE Exit(v) \/ Reap(v) \/ SpawnOk(v) \/ SpawnFail(v)
    BY <2>1 DEF Exit, Reap, SpawnOk, SpawnFail
  <2>2. CASE Release(v)
    BY <2>2 DEF Release, Dropped, StartSpawn
  <2>. QED BY <1>2, <2>1, <2>2 DEF WorkerStep
<1>3. CASE Start \/ Grow
  BY <1>3 DEF Start, Grow, StartSpawn
<1>4. CASE Sweep \/ SweepNext
  BY <1>4 DEF Sweep, SweepNext, NextVictim, Dropped
<1>5. CASE StopStep
  <2>1. CASE Stop \/ Snapshot \/ DrainDone \/ TakeIdle
    BY <2>1 DEF Stop, Snapshot, DrainDone, TakeIdle
  <2>2. CASE DrainTimeout
    BY <2>2 DEF DrainTimeout, Dropped
  <2>3. CASE StopKill \/ StopNext
    BY <2>3 DEF StopKill, StopNext, NextVictim, Dropped
  <2>. QED BY <1>5, <2>1, <2>2, <2>3 DEF StopStep
<1>6. CASE Finished \/ UNCHANGED vars
  BY <1>6 DEF Finished, vars
<1>. QED BY <1>1, <1>2, <1>3, <1>4, <1>5, <1>6 DEF Next

\* What a step that Follow completes does to the variables of one job.
LEMMA Followed ==
  ASSUME JobTypes, NEW outcomes, NEW heard, Follow(outcomes, heard), NEW j \in Jobs
  PROVE  /\ pc'[j] # "out" \/ ~JobRuns(j) =>
              result'[j] = outcomes[j] /\ status'[j] = status[j] /\ (j \in asked' <=> j \in asked \ heard)
         /\ pc'[j] = "out" /\ JobRuns(j) =>
              result'[j] = Final(j, outcomes[j]) /\ status'[j] = Final(j, outcomes[j]) /\ j \notin asked'
         /\ pc'[j] = "run" => cli'[j] = worker'[j]
         /\ pc'[j] # "run" =>
              cli'[j] = IF cli[j] \in Workers /\ proc'[cli[j]] \notin {"alive", "exiting"}
                          THEN "over" ELSE cli[j]
<1>. DEFINE over == {i \in Jobs : JobRuns(i) /\ pc'[i] = "out"}
<1>1. /\ result' = [i \in Jobs |-> IF i \in over THEN Final(i, outcomes[i]) ELSE outcomes[i]]
      /\ status' = [i \in Jobs |-> IF i \in over THEN result'[i] ELSE status[i]]
      /\ asked' = asked \ (over \cup heard)
      /\ cli' = [i \in Jobs |->
                   IF pc'[i] = "run" THEN worker'[i]
                   ELSE IF cli[i] \in Workers /\ proc'[cli[i]] \notin {"alive", "exiting"}
                     THEN "over" ELSE cli[i]]
  BY DEF Follow
<1>2. j \in over <=> JobRuns(j) /\ pc'[j] = "out"
  OBVIOUS
<1>. HIDE DEF over
<1>3. j \in asked' <=> j \in asked /\ j \notin over /\ j \notin heard
  BY <1>1
<1>4. result'[j] = IF j \in over THEN Final(j, outcomes[j]) ELSE outcomes[j]
  BY <1>1
<1>5. status'[j] = IF j \in over THEN result'[j] ELSE status[j]
  BY <1>1
<1>6. cli'[j] = IF pc'[j] = "run" THEN worker'[j]
                ELSE IF cli[j] \in Workers /\ proc'[cli[j]] \notin {"alive", "exiting"}
                  THEN "over" ELSE cli[j]
  BY <1>1
<1>. QED BY <1>2, <1>3, <1>4, <1>5, <1>6

\* The worker of a job that neither gets nor loses one: it may be reaped.
LEMMA CliStays ==
  ASSUME TypeInv, OwnInv, ServiceInv, [Next]_vars, NEW j \in Jobs,
         NEW outcomes, NEW heard, Follow(outcomes, heard),
         pc'[j] = "run" => pc[j] = "run" /\ worker'[j] = worker[j]
  PROVE  \/ CliOf(j)' = CliOf(j)
         \/ CliOf(j) = "running" /\ CliOf(j)' = "dead" /\ cli[j] \in Workers /\ Reap(cli[j])
<1>0. NoWorker \notin Workers /\ "over" \notin Workers /\ "over" # NoWorker /\ j \in Requests
  BY ServiceAssumption, PoolAssumption
<1>1. /\ pc'[j] = "run" => cli'[j] = worker'[j]
      /\ pc'[j] # "run" =>
           cli'[j] = IF cli[j] \in Workers /\ proc'[cli[j]] \notin {"alive", "exiting"}
                       THEN "over" ELSE cli[j]
  BY Followed DEF ServiceInv
<1>2. pc[j] = "run" => cli[j] = worker[j] /\ cli[j] \in Workers /\ proc[cli[j]] # "starting"
  BY <1>0 DEF ServiceInv, CliFits, TypeInv, RunHasWorker, OwnInv, OwnedLaunched, Launched
<1>3. pc[j] # "run" /\ cli[j] \in Workers => proc[cli[j]] = "exiting"
  BY DEF ServiceInv, CliDies
<1>4. CASE cli[j] \in Workers
  <2>0. PICK w \in Workers : w = cli[j]
    BY <1>4
  <2>1. proc[w] \in {"alive", "exiting"} => proc'[w] \in {"alive", "exiting"} \/ Reap(w)
    BY ProcessesEnd
  <2>2. proc'[w] \in {"alive", "exiting"} => proc[w] \in {"alive", "exiting"}
    BY <1>2, <1>3, <2>0, NoResurrection DEF IsAlive
  <2>3. CliOf(j) = IF proc[w] \in {"alive", "exiting"} THEN "running" ELSE "dead"
    BY <1>0, <2>0 DEF CliOf, IsAlive
  <2>4. CASE cli'[j] = w
    <3>1. CliOf(j)' = IF proc'[w] \in {"alive", "exiting"} THEN "running" ELSE "dead"
      BY <1>0, <2>4 DEF CliOf, IsAlive
    <3>. QED BY <2>0, <2>1, <2>2, <2>3, <3>1
  <2>5. CASE cli'[j] = "over" /\ proc'[w] \notin {"alive", "exiting"}
    <3>1. CliOf(j)' = "dead"
      BY <1>0, <2>5 DEF CliOf
    <3>. QED BY <2>0, <2>1, <2>3, <2>5, <3>1
  <2>6. cli'[j] = w \/ (cli'[j] = "over" /\ proc'[w] \notin {"alive", "exiting"})
    BY <1>1, <1>2, <2>0
  <2>. QED BY <2>4, <2>5, <2>6
<1>5. CASE cli[j] \notin Workers
  <2>1. cli'[j] = cli[j]
    BY <1>1, <1>2, <1>5
  <2>. QED BY <1>5, <2>1 DEF CliOf
<1>. QED BY <1>4, <1>5

\* A job that nothing happens to but that its worker may be reaped.
LEMMA StayingTurn ==
  ASSUME TypeInv, OwnInv, ServiceInv, [Next]_vars, NEW j \in Jobs,
         NEW outcomes, NEW heard, Follow(outcomes, heard),
         Stays(j), outcomes[j] = result[j], j \notin heard
  PROVE  Same(j) \/ (JobTurn(j) /\ cli[j] \in Workers /\ Reap(cli[j]))
<1>1. \/ CliOf(j)' = CliOf(j)
      \/ CliOf(j) = "running" /\ CliOf(j)' = "dead" /\ cli[j] \in Workers /\ Reap(cli[j])
  BY CliStays DEF Stays
<1>2. JobRuns(j) <=> pc[j] # "out"
  BY DEF ServiceInv, JobsServed
<1>3. result'[j] = result[j] /\ status'[j] = status[j] /\ (j \in asked' <=> j \in asked)
  BY <1>2, Followed DEF Stays, ServiceInv
<1>4. Task(j)' = Task(j) /\ Outcome(j)' = Outcome(j)
  BY <1>3 DEF Task, Outcome, JobRuns, Stays
<1>. QED BY <1>1, <1>3, <1>4 DEF Same, JobTurn

\* A job that is over reports, and nothing else becomes of it.
LEMMA OverEnds ==
  ASSUME ServiceInv, NEW j \in Jobs, NEW outcomes, NEW heard, Follow(outcomes, heard),
         pc[j] # "out", pc'[j] = "out", CliOf(j)' = CliOf(j),
         Final(j, outcomes[j]) # "running"
  PROVE  EndsAs(j, Final(j, outcomes[j]))
<1>1. /\ status'[j] = Final(j, outcomes[j]) /\ result'[j] = Final(j, outcomes[j])
      /\ j \notin asked'
  BY Followed DEF ServiceInv, JobsServed
<1>. QED BY <1>1 DEF EndsAs, Task, Outcome, JobRuns

\* The steps that no request takes.
LEMMA BackgroundTurn ==
  ASSUME PoolKnown, ServiceInv, Background, NEW j \in Jobs
  PROVE  \/ Same(j)
         \/ JobTurn(j) /\ ((cli[j] \in Workers /\ Reap(cli[j])) \/ Returned(j) \/ Rests(j))
<1>. USE DEF PoolKnown
<1>0. "over" \notin Workers /\ NoWorker # "over"
  BY ServiceAssumption
<1>1. [Next]_vars /\ Follow(result, {}) /\ (Stays(j) \/ Returned(j) \/ Rests(j))
  BY BackgroundGoes DEF Background, ServiceInv, Next, StopStep
<1>2. CASE Stays(j)
  BY <1>1, <1>2, StayingTurn
<1>3. CASE Returned(j) \/ Rests(j)
  <2>1. /\ pc[j] \in {"release", "respawn"} /\ pc'[j] \in {"out", "respawn"}
        /\ pc'[j] = "respawn" => pc[j] = "release"
    BY <1>3 DEF Returned, Rests
  <2>2. cli[j] = "over"
    <3>1. Returned(j) => proc[worker[j]] = "dead"
      BY DEF Returned
    <3>. QED BY <1>3, <3>1 DEF Rests, Returned, ServiceInv, CliFits, CliDies, JobTypes, TypeInv, TypeOK
  <2>3. cli'[j] = "over" /\ CliOf(j) = "dead" /\ CliOf(j)' = "dead"
    <3>1. cli'[j] = "over"
      BY <1>0, <1>1, <2>1, <2>2, Followed DEF ServiceInv
    <3>. QED BY <1>0, <2>2, <3>1 DEF CliOf
  <2>4. /\ JobRuns(j) /\ result[j] \in Ends
        /\ Task(j) = IF j \in asked THEN "unwind" ELSE "release"
        /\ Outcome(j) = IF j \in asked THEN "cancelled" ELSE result[j]
    BY <2>1 DEF ServiceInv, JobsServed, ResultFits, JobTypes, Task, Outcome
  <2>5. CASE pc'[j] = "respawn"
    <3>1. result'[j] = result[j] /\ status'[j] = status[j] /\ (j \in asked' <=> j \in asked)
      BY <1>1, <2>5, Followed DEF ServiceInv
    <3>2. Same(j)
      BY <2>1, <2>3, <2>4, <2>5, <3>1 DEF Same, Task, Outcome, JobRuns
    <3>. QED BY <3>2
  <2>6. CASE pc'[j] = "out"
    <3>1. Final(j, result[j]) = IF j \in asked THEN "cancelled" ELSE result[j]
      BY <2>4 DEF Final, Ends
    <3>2. EndsAs(j, Final(j, result[j]))
      BY <1>1, <2>1, <2>3, <2>4, <2>6, <3>1, OverEnds DEF Ends
    <3>. QED BY <1>3, <2>3, <2>4, <3>1, <3>2 DEF JobTurn
  <2>. QED BY <2>1, <2>5, <2>6
<1>. QED BY <1>1, <1>2, <1>3

\* A step that changes what the store sees of one job at most is one of its steps.
LEMMA OneOrNone ==
  ASSUME ServiceInv, ServiceInv', UNCHANGED <<store, deleting, stage>>,
         \A j \in Jobs : Same(j) \/ JobTurn(j),
         \A i, j \in Jobs : i = j \/ Same(i) \/ Same(j)
  PROVE  [Store!Next]_(Store!vars)
<1>1. CASE \A j \in Jobs : Same(j)
  BY <1>1, AllSame DEF ServiceInv
<1>2. CASE \E j \in Jobs : ~Same(j)
  <2>1. PICK j \in Jobs : ~Same(j)
    BY <1>2
  <2>2. Store!JobStep(j)
    BY <2>1, OneTurn DEF ServiceInv
  <2>. QED BY <2>2 DEF Store!Next
<1>. QED BY <1>1, <1>2

LEMMA BackgroundServes ==
  ASSUME PoolKnown, ServiceInv, ServiceInv', Background
  PROVE  [Store!Next]_(Store!vars)
<1>1. \A j \in Jobs : Same(j) \/ JobTurn(j)
  BY BackgroundTurn
<1>2. ASSUME NEW i \in Jobs, NEW j \in Jobs, i # j, ~Same(i), ~Same(j) PROVE FALSE
  <2>1. \A k \in {i, j} : \/ cli[k] \in Workers /\ Reap(cli[k])
                         \/ Returned(k) \/ Rests(k)
    BY <1>2, BackgroundTurn
  <2>2. /\ cli[i] = cli[j] => cli[i] \notin Workers
        /\ pc[i] = "release" /\ pc[j] = "release" => worker[i] # worker[j]
        /\ ~(pc[i] = "respawn" /\ pc[j] = "respawn")
    BY <1>2 DEF ServiceInv, JobsApart
  <2>3. ASSUME NEW k \in Jobs, NEW w \in Workers, Reap(w), Returned(k) \/ Rests(k) PROVE FALSE
    BY <2>3 DEF Reap, Returned, Rests
  <2>4. ASSUME NEW v \in Workers, NEW w \in Workers, Reap(v), Reap(w) PROVE v = w
    BY <2>4 DEF Reap, PoolKnown, TypeInv, TypeOK
  <2>5. ASSUME NEW k \in Jobs, NEW m \in Jobs, Returned(k), Rests(m) PROVE FALSE
    BY <2>5 DEF Returned, Rests, ServiceInv, CliFits
  <2>6. ASSUME Returned(i), Returned(j) PROVE FALSE
    <3>1. PICK v \in releasing : releasing' = releasing \ {v} /\ pc[i] = "release" /\ worker[i] = v
      BY <2>6 DEF Returned
    <3>2. PICK w \in releasing : releasing' = releasing \ {w} /\ pc[j] = "release" /\ worker[j] = w
      BY <2>6 DEF Returned
    <3>3. v = w
      BY <3>1, <3>2
    <3>. QED BY <2>2, <3>1, <3>2, <3>3
  <2>7. CASE cli[i] \in Workers /\ Reap(cli[i])
    <3>1. PICK v \in Workers : v = cli[i] /\ Reap(v)
      BY <2>7
    <3>2. ~Returned(j) /\ ~Rests(j)
      BY <2>3, <3>1
    <3>3. PICK w \in Workers : w = cli[j] /\ Reap(w)
      BY <2>1, <3>2
    <3>. QED BY <2>2, <2>4, <3>1, <3>3
  <2>8. CASE cli[j] \in Workers /\ Reap(cli[j])
    <3>1. PICK v \in Workers : v = cli[j] /\ Reap(v)
      BY <2>8
    <3>2. ~Returned(i) /\ ~Rests(i)
      BY <2>3, <3>1
    <3>. QED BY <2>1, <2>7, <3>2
  <2>9. CASE Rests(i) /\ Rests(j)
    BY <2>2, <2>9 DEF Rests
  <2>. QED BY <2>1, <2>5, <2>6, <2>7, <2>8, <2>9
<1>. QED BY <1>1, <1>2, OneOrNone DEF Background, Follow

\* No request's step reaps a process.
LEMMA RequestsReapNothing ==
  ASSUME TypeInv, NEW r \in Requests, RequestStep(r), NEW w \in Workers, Reap(w)
  PROVE  FALSE
<1>. USE DEF TypeInv, TypeOK, counters, shutdown
<1>1. proc[w] = "exiting" /\ proc'[w] = "dead"
  BY DEF Reap
<1>2. CASE Arrive(r) \/ GiveUp(r) \/ Unwind(r)
  BY <1>1, <1>2 DEF Arrive, GiveUp, Unwind
<1>3. ASSUME NEW n, Turn(r, n) PROVE FALSE
  BY <1>1, <1>3 DEF Turn, Drop, Dropped, IsAlive
<1>4. CASE Enter(r) \/ Wake(r)
  BY <1>1, <1>3, <1>4 DEF Enter, Wake
<1>5. CASE RunTimeout(r) \/ RunEnds(r) \/ Cancel(r)
  BY <1>1, <1>5 DEF RunTimeout, RunEnds, Cancel, BeginRelease, Killed
<1>. QED BY <1>2, <1>4, <1>5 DEF RequestStep

\* What the step of one request is to the store, once it is known what it is to its own job.
LEMMA RequestServed ==
  ASSUME PoolKnown, ServiceInv, ServiceInv', NEW r \in Requests, RequestStep(r) \/ UNCHANGED vars,
         NEW outcomes, NEW heard, Follow(outcomes, heard),
         \A j \in Jobs : j # r => outcomes[j] = result[j] /\ j \notin heard,
         r \in Jobs => Same(r) \/ JobTurn(r)
  PROVE  [Store!Next]_(Store!vars)
<1>1. [Next]_vars /\ \A j \in Jobs : j # r => Stays(j)
  <2>1. CASE UNCHANGED vars
    BY <2>1 DEF vars, Stays
  <2>. QED BY <2>1, RequestServes DEF PoolKnown
<1>2. \A w \in Workers : ~Reap(w)
  <2>1. CASE UNCHANGED vars
    BY <2>1 DEF vars, Reap, PoolKnown, TypeInv, TypeOK
  <2>. QED BY <2>1, RequestsReapNothing DEF PoolKnown
<1>3. ASSUME NEW j \in Jobs, j # r PROVE Same(j)
  <2>1. Same(j) \/ (JobTurn(j) /\ cli[j] \in Workers /\ Reap(cli[j]))
    BY <1>1, <1>3, StayingTurn DEF PoolKnown
  <2>. QED BY <1>2, <2>1
<1>4. \A j \in Jobs : Same(j) \/ JobTurn(j)
  BY <1>3
<1>5. \A i, j \in Jobs : i = j \/ Same(i) \/ Same(j)
  BY <1>3
<1>. QED BY <1>4, <1>5, OneOrNone DEF Follow

\* A job waits on, is served, refused or gives up.
LEMMA TaskTurn ==
  ASSUME PoolKnown, ServiceInv, NEW j \in Jobs, TaskStep(j)
  PROVE  Same(j) \/ JobTurn(j)
<1>0. /\ j \in Requests /\ "over" \notin Workers /\ NoWorker # "over" /\ NoWorker \notin Workers
      /\ Follow(result, {})
  BY ServiceAssumption, PoolAssumption DEF TaskStep
<1>1. [Next]_vars /\ \A w \in Workers : ~Reap(w)
  BY <1>0, RequestServes, RequestsReapNothing DEF PoolKnown, TaskStep, RequestStep
<1>2. \/ j \notin asked /\ (Waits(j) \/ Gets(j) \/ Stays(j))
      \/ Leaves(j)
  BY <1>0, RequestGoes DEF TaskStep, PoolKnown
<1>3. CASE Stays(j)
  BY <1>0, <1>1, <1>3, StayingTurn DEF PoolKnown
<1>4. ASSUME pc[j] \in Waiting, pc'[j] # "run"
      PROVE  CliOf(j) = "none" /\ CliOf(j)' = CliOf(j)
  <2>1. cli[j] = NoWorker
    BY <1>4 DEF ServiceInv, CliFits
  <2>2. cli'[j] = NoWorker
    BY <1>0, <1>4, <2>1, Followed DEF ServiceInv
  <2>. QED BY <2>1, <2>2 DEF CliOf
<1>5. JobRuns(j) <=> pc[j] # "out"
  BY DEF ServiceInv, JobsServed
<1>6. CASE j \notin asked /\ Waits(j)
  <2>1. Task(j) = "acquire" /\ result[j] = "none" /\ Outcome(j) = "none"
    BY <1>5, <1>6 DEF Waits, ServiceInv, ResultFits, Task, Outcome
  <2>2. CASE pc'[j] = "out"
    <3>1. Final(j, result[j]) = "failed"
      BY <1>6, <2>1 DEF Final
    <3>2. EndsAs(j, "failed")
      BY <1>0, <1>4, <1>6, <2>2, <3>1, OverEnds DEF Waits, Waiting
    <3>. QED BY <2>1, <3>2 DEF JobTurn
  <2>3. CASE pc'[j] # "out"
    <3>1. result'[j] = "none" /\ status'[j] = status[j] /\ j \notin asked'
      BY <1>0, <1>6, <2>1, <2>3, Followed DEF ServiceInv
    <3>2. Task(j)' = "acquire" /\ Outcome(j)' = "none"
      BY <1>5, <1>6, <2>3, <3>1 DEF Task, Outcome, JobRuns, Waits
    <3>. QED BY <1>4, <1>6, <2>1, <3>1, <3>2 DEF Same, Waits, Waiting
  <2>. QED BY <2>2, <2>3
<1>7. CASE j \notin asked /\ Gets(j)
  <2>1. Task(j) = "acquire" /\ result[j] = "none" /\ Outcome(j) = "none"
    BY <1>5, <1>7 DEF Gets, ServiceInv, ResultFits, Task, Outcome
  <2>2. /\ result'[j] = "none" /\ status'[j] = status[j] /\ j \notin asked'
        /\ cli'[j] = worker'[j]
    BY <1>0, <1>7, <2>1, Followed DEF ServiceInv, Gets
  <2>3. Task(j)' = "run" /\ Outcome(j)' = "none"
    BY <1>5, <1>7, <2>2 DEF Gets, Task, Outcome, JobRuns
  <2>4. CliOf(j)' = "running"
    <3>1. worker'[j] \in Workers /\ proc'[worker'[j]] \in {"alive", "exiting"}
      BY <1>7 DEF Gets, IsAlive, PoolKnown, TypeInv, TypeOK
    <3>. QED BY <1>0, <2>2, <3>1 DEF CliOf, IsAlive
  <2>. QED BY <2>1, <2>2, <2>3, <2>4 DEF JobTurn
<1>8. CASE Leaves(j)
  <2>1. result[j] \in {"none", "cancelled"} /\ JobRuns(j)
    BY <1>5, <1>8 DEF Leaves, ServiceInv, ResultFits
  <2>2. Final(j, result[j]) = IF j \in asked \/ result[j] = "cancelled" THEN "cancelled" ELSE "failed"
    BY <2>1 DEF Final
  <2>3. EndsAs(j, Final(j, result[j]))
    BY <1>0, <1>4, <1>8, <2>2, OverEnds DEF Leaves, Waiting
  <2>4. Task(j) = IF j \in asked \/ result[j] = "cancelled" THEN "unwind" ELSE "acquire"
    BY <1>8, <2>1 DEF Leaves, Task
  <2>. QED BY <2>2, <2>3, <2>4 DEF JobTurn
<1>. QED BY <1>2, <1>3, <1>6, <1>7, <1>8

LEMMA TaskServes ==
  ASSUME PoolKnown, ServiceInv, ServiceInv', NEW r \in Requests, TaskStep(r)
  PROVE  [Store!Next]_(Store!vars)
<1>1. RequestStep(r) /\ Follow(result, {})
  BY DEF TaskStep, RequestStep
<1>2. r \in Jobs => Same(r) \/ JobTurn(r)
  BY TaskTurn
<1>. QED BY <1>1, <1>2, RequestServed

\* execute() has its answer: the process is reaped.
LEMMA ReturnTurn ==
  ASSUME PoolKnown, ServiceInv, NEW j \in Jobs, j \notin asked, RunEnds(j),
         NEW outcomes, Follow(outcomes, {}), outcomes[j] \in {"succeeded", "failed"}
  PROVE  JobTurn(j)
<1>0. /\ j \in Requests /\ "over" \notin Workers /\ NoWorker # "over" /\ NoWorker \notin Workers
      /\ JobRuns(j) <=> pc[j] # "out"
  BY ServiceAssumption, PoolAssumption DEF ServiceInv, JobsServed
<1>1. Returns(j) /\ pc[j] = "run" /\ proc[worker[j]] = "dead"
  BY <1>0, RequestGoes DEF PoolKnown, RunEnds
<1>2. PICK w \in Workers : w = worker[j]
  BY <1>0, <1>1 DEF PoolKnown, TypeInv, RunHasWorker
<1>3. cli[j] = w /\ proc[w] = "dead" /\ proc'[w] = "dead"
  BY <1>1, <1>2 DEF ServiceInv, CliFits, RunEnds, BeginRelease, Killed, PoolKnown, TypeInv, TypeOK
<1>4. /\ cli'[j] = "over" /\ result'[j] = outcomes[j] /\ status'[j] = status[j]
      /\ j \notin asked' /\ pc'[j] = "release"
  BY <1>1, <1>2, <1>3, Followed DEF ServiceInv, Returns
<1>5. CliOf(j) = "dead" /\ CliOf(j)' = "dead"
  BY <1>0, <1>2, <1>3, <1>4 DEF CliOf, IsAlive
<1>6. Task(j) = "run" /\ Task(j)' = "release" /\ Outcome(j)' = outcomes[j]
  BY <1>0, <1>1, <1>4 DEF Task, Outcome, JobRuns
<1>. QED BY <1>4, <1>5, <1>6 DEF JobTurn

LEMMA RunReturnsServes ==
  ASSUME PoolKnown, ServiceInv, ServiceInv', NEW r \in Requests, RunReturns(r)
  PROVE  [Store!Next]_(Store!vars)
<1>1. PICK o \in {"succeeded", "failed"} : Follow([j \in Jobs |-> IF j = r THEN o ELSE result[j]], {})
  BY DEF RunReturns
<1>. DEFINE outcomes == [j \in Jobs |-> IF j = r THEN o ELSE result[j]]
<1>2. (r \in Jobs => outcomes[r] = o) /\ \A j \in Jobs : j # r => outcomes[j] = result[j]
  OBVIOUS
<1>. HIDE DEF outcomes
<1>3. Follow(outcomes, {})
  BY <1>1 DEF outcomes
<1>4. RequestStep(r) /\ r \notin asked /\ RunEnds(r)
  BY DEF RunReturns, RequestStep
<1>5. r \in Jobs => JobTurn(r)
  BY <1>2, <1>3, <1>4, ReturnTurn
<1>. QED BY <1>2, <1>3, <1>4, <1>5, RequestServed

\* A pending cancellation is raised: the run stops, or the task leaves what it awaited.
LEMMA RaisedTurn ==
  ASSUME PoolKnown, ServiceInv, NEW j \in Jobs, j \in asked,
         GiveUp(j) \/ Cancel(j) \/ (pc[j] = "unwind" /\ UNCHANGED vars),
         NEW outcomes, Follow(outcomes, {j}), outcomes[j] = "cancelled"
  PROVE  Same(j) \/ JobTurn(j)
<1>0. /\ j \in Requests /\ "over" \notin Workers /\ NoWorker # "over" /\ NoWorker \notin Workers
      /\ JobRuns(j) <=> pc[j] # "out"
      /\ [Next]_vars
  BY ServiceAssumption, PoolAssumption DEF ServiceInv, JobsServed, Next, RequestStep
<1>1. \A w \in Workers : ~Reap(w)
  <2>1. CASE UNCHANGED vars
    BY <2>1 DEF vars, Reap, PoolKnown, TypeInv, TypeOK
  <2>. QED BY <1>0, <2>1, RequestsReapNothing DEF PoolKnown, RequestStep
<1>2. /\ pc[j] \in {"enter", "parked", "woken", "unwind", "run", "release", "respawn"}
      /\ pc'[j] = CASE pc[j] \in {"parked", "woken", "unwind"} -> "unwind"
                    [] pc[j] = "run" -> "release"
                    [] OTHER -> "out"
      /\ pc[j] = "unwind" => UNCHANGED vars
  BY <1>0 DEF GiveUp, Cancel, BeginRelease, vars, PoolKnown, TypeInv, TypeOK
<1>3. CliOf(j)' = CliOf(j)
  <2>1. pc'[j] # "run"
    BY <1>2
  <2>. QED BY <1>0, <1>1, <2>1, CliStays DEF PoolKnown
<1>4. Final(j, outcomes[j]) = "cancelled" /\ JobRuns(j) /\ Outcome(j) = "cancelled"
  BY <1>0, <1>2 DEF Final, Outcome
<1>5. pc'[j] # "out" => result'[j] = "cancelled" /\ status'[j] = status[j] /\ j \notin asked'
  BY Followed DEF ServiceInv
<1>6. CASE pc[j] \in {"enter", "release", "respawn"}
  <2>1. Task(j) = "unwind"
    BY <1>4, <1>6 DEF Task
  <2>2. EndsAs(j, Final(j, outcomes[j]))
    BY <1>2, <1>3, <1>4, <1>6, OverEnds
  <2>. QED BY <1>4, <2>1, <2>2 DEF JobTurn
<1>7. CASE pc[j] = "run"
  <2>1. Task(j) = "struck" /\ Task(j)' = "release" /\ Outcome(j)' = "cancelled"
    BY <1>2, <1>4, <1>5, <1>7 DEF Task, Outcome, JobRuns
  <2>. QED BY <1>2, <1>3, <1>4, <1>5, <1>7, <2>1 DEF JobTurn
<1>8. CASE pc[j] \in {"parked", "woken", "unwind"}
  <2>1. Task(j) = "unwind" /\ Task(j)' = "unwind" /\ Outcome(j)' = "cancelled"
    BY <1>2, <1>4, <1>5, <1>8 DEF Task, Outcome, JobRuns
  <2>. QED BY <1>2, <1>3, <1>4, <1>5, <1>8, <2>1 DEF Same
<1>. QED BY <1>2, <1>6, <1>7, <1>8

LEMMA RaisedServes ==
  ASSUME PoolKnown, ServiceInv, ServiceInv', NEW j \in Jobs, Raised(j)
  PROVE  [Store!Next]_(Store!vars)
<1>. DEFINE outcomes == [result EXCEPT ![j] = "cancelled"]
<1>1. outcomes[j] = "cancelled" /\ \A i \in Jobs : i # j => outcomes[i] = result[i]
  BY DEF ServiceInv, JobTypes
<1>. HIDE DEF outcomes
<1>2. /\ j \in asked /\ Follow(outcomes, {j})
      /\ GiveUp(j) \/ Cancel(j) \/ (pc[j] = "unwind" /\ UNCHANGED vars)
  BY DEF Raised, outcomes
<1>3. Same(j) \/ JobTurn(j)
  BY <1>1, <1>2, RaisedTurn
<1>4. j \in Requests /\ (RequestStep(j) \/ UNCHANGED vars)
  BY <1>2, ServiceAssumption DEF RequestStep
<1>. QED BY <1>1, <1>2, <1>3, <1>4, RequestServed

\* What the store sees of a job whose request stays where it is.
LEMMA SameJob ==
  ASSUME NEW j \in Jobs, pc'[j] = pc[j], result'[j] = result[j], status'[j] = status[j],
         cli'[j] = cli[j], j \in asked' <=> j \in asked,
         cli[j] \in Workers => (IsAlive(cli[j])' <=> IsAlive(cli[j]))
  PROVE  Same(j)
<1>1. Task(j)' = Task(j) /\ Outcome(j)' = Outcome(j)
  BY DEF Task, Outcome, JobRuns
<1>2. CliOf(j)' = CliOf(j)
  BY DEF CliOf, IsAlive
<1>. QED BY <1>1, <1>2 DEF Same

LEMMA GenerateServes ==
  ASSUME PoolKnown, ServiceInv, ServiceInv', NEW r \in Requests, Generate(r)
  PROVE  UNCHANGED Store!vars
<1>1. UNCHANGED jobVars /\ \A j \in Jobs : pc'[j] = pc[j]
  BY ServiceAssumption DEF Generate, Arrive, Cancel, BeginRelease, PoolKnown, TypeInv, TypeOK
<1>2. \A w \in Workers : IsAlive(w)' <=> IsAlive(w)
  BY DEF Generate, Arrive, Cancel, BeginRelease, Killed, IsAlive, PoolKnown, TypeInv, TypeOK
<1>3. \A j \in Jobs : Same(j)
  <2>. SUFFICES ASSUME NEW j \in Jobs PROVE Same(j)
    OBVIOUS
  <2>1. cli[j] \in Workers => (IsAlive(cli[j])' <=> IsAlive(cli[j]))
    BY <1>1, <1>2 DEF jobVars, IsAlive
  <2>. QED BY <1>1, <2>1, SameJob DEF jobVars
<1>. QED BY <1>1, <1>3, AllSame DEF ServiceInv, jobVars

LEMMA SubmitServes ==
  ASSUME PoolKnown, ServiceInv, ServiceInv', NEW j \in Jobs, Submit(j)
  PROVE  Store!Submit(j)
<1>. DEFINE tasks == [i \in Jobs |-> Task(i)]
            outs  == [i \in Jobs |-> Outcome(i)]
            clis  == [i \in Jobs |-> CliOf(i)]
            stay  == CASE stage = "up" -> "up" [] stage = "jobs" -> "closing" [] OTHER -> "down"
<1>1. /\ stage = "up" /\ status[j] = "unknown"
      /\ pc[j] = "out" /\ pc' = [pc EXCEPT ![j] = "enter"]
      /\ \E S \in Store!Droppable : store' = (store \ S) \cup {j}
      /\ status' = [status EXCEPT ![j] = "running"]
      /\ UNCHANGED <<deleting, result, asked, cli, stage, proc>>
  BY DEF Submit, Arrive
<1>2. j \in Requests /\ j \notin asked /\ result[j] = "none"
  BY <1>1, ServiceAssumption DEF ServiceInv, JobsServed, JobRuns
<1>3. pc'[j] = "enter" /\ status'[j] = "running" /\ \A i \in Jobs : i # j => pc'[i] = pc[i]
  BY <1>1, <1>2, ServiceAssumption DEF PoolKnown, TypeInv, TypeOK, ServiceInv, JobTypes
<1>4. \A i \in Jobs : i # j => Same(i)
  BY <1>1, <1>3, SameJob DEF IsAlive
<1>5. Task(j)' = "acquire" /\ Outcome(j)' = Outcome(j) /\ CliOf(j)' = CliOf(j)
  BY <1>1, <1>2, <1>3 DEF Task, Outcome, CliOf, JobRuns, IsAlive
<1>6. tasks' = [tasks EXCEPT ![j] = "acquire"] /\ outs' = outs /\ clis' = clis
  BY <1>4, <1>5 DEF Same
<1>7. stay = "up" /\ stay' = stay
  BY <1>1
<1>. QED BY <1>1, <1>6, <1>7 DEF Store!Submit, Store!NewId

\* A handler that moves no request and touches no job's task.
LEMMA HandlerSame ==
  ASSUME ServiceInv, UNCHANGED <<proc, pc, status, result, asked, cli>>
  PROVE  /\ UNCHANGED [j \in Jobs |-> Task(j)]
         /\ UNCHANGED [j \in Jobs |-> Outcome(j)]
         /\ UNCHANGED [j \in Jobs |-> CliOf(j)]
<1>1. \A j \in Jobs : Same(j)
  BY SameJob DEF IsAlive
<1>. QED BY <1>1 DEF Same

LEMMA ListServes ==
  ASSUME ServiceInv, List
  PROVE  Store!List
<1>1. stage = "up" /\ UNCHANGED <<proc, pc, status, deleting, result, asked, cli, stage>>
  BY DEF List, vars
<1>2. \E S \in Store!Droppable : store' = store \ S
  BY DEF List
<1>. QED BY <1>1, <1>2, HandlerSame DEF Store!List

\* cancel() on the tasks of some jobs: where each is suspended decides what becomes of it.
LEMMA CancelsTasks ==
  ASSUME ServiceInv, NEW S \in SUBSET Jobs, UNCHANGED <<proc, pc, status, result, cli>>,
         asked' = asked \cup {j \in S : JobRuns(j)}
  PROVE  Store!CancelTasks(S) /\ UNCHANGED [j \in Jobs |-> CliOf(j)]
<1>. DEFINE tasks == [j \in Jobs |-> Task(j)]
            outs  == [j \in Jobs |-> Outcome(j)]
            live  == {j \in Jobs : tasks[j] # "none"}
<1>1. \A j \in Jobs : j \in live <=> JobRuns(j)
  BY DEF Task
<1>2. ASSUME NEW j \in Jobs, j \notin S \cap live
      PROVE  Task(j)' = Task(j) /\ Outcome(j)' = Outcome(j)
  <2>1. j \in asked' <=> j \in asked
    BY <1>1, <1>2
  <2>. QED BY <2>1 DEF Task, Outcome, JobRuns
<1>3. ASSUME NEW j \in Jobs, j \in S \cap live
      PROVE  /\ Outcome(j)' = "cancelled"
             /\ Task(j)' = IF Task(j) \in {"run", "struck"} THEN "struck" ELSE "unwind"
  <2>1. j \in asked' /\ JobRuns(j)
    BY <1>1, <1>3
  <2>2. pc[j] = "run" <=> Task(j) \in {"run", "struck"}
    BY <2>1 DEF Task
  <2>. QED BY <2>1, <2>2 DEF Task, Outcome, JobRuns
<1>4. tasks' = [j \in Jobs |->
                  IF j \notin S \cap live THEN tasks[j]
                  ELSE IF tasks[j] \in {"run", "struck"} THEN "struck" ELSE "unwind"]
  BY <1>2, <1>3
<1>5. outs' = [j \in Jobs |-> IF j \in S \cap live THEN "cancelled" ELSE outs[j]]
  BY <1>2, <1>3
<1>. QED BY <1>4, <1>5 DEF Store!CancelTasks, Store!CancelledOutcomes, Store!Live, CliOf, IsAlive

LEMMA DeleteServes ==
  ASSUME ServiceInv, NEW d \in Deleters, NEW j \in Jobs, Delete(d, j)
  PROVE  Store!Delete(d, j)
<1>1. /\ stage = "up" /\ deleting[d] = NoJob /\ j \in store
      /\ deleting' = [deleting EXCEPT ![d] = j]
      /\ UNCHANGED <<proc, pc, store, status, result, cli, stage>>
  BY DEF Delete, vars
<1>2. asked' = asked \cup {i \in {j} : JobRuns(i)}
  BY DEF Delete
<1>3. Store!CancelTasks({j}) /\ UNCHANGED [i \in Jobs |-> CliOf(i)]
  BY <1>1, <1>2, CancelsTasks
<1>. QED BY <1>1, <1>3 DEF Store!Delete

LEMMA AnswerServes ==
  ASSUME ServiceInv, NEW d \in Deleters, Answer(d)
  PROVE  Store!Answer(d)
<1>1. /\ deleting[d] # NoJob /\ ~JobRuns(deleting[d]) /\ deleting' = [deleting EXCEPT ![d] = NoJob]
      /\ UNCHANGED <<proc, pc, store, status, result, asked, cli, stage>>
  BY DEF Answer, vars
<1>2. deleting[d] \in Jobs /\ Task(deleting[d]) = "none"
  BY <1>1 DEF ServiceInv, JobTypes, Task
<1>. QED BY <1>1, <1>2, HandlerSame DEF Store!Answer, Store!Done

LEMMA ShutdownServes ==
  ASSUME ServiceInv, Shutdown
  PROVE  Store!Shutdown
<1>1. /\ stage = "up" /\ stage' = "jobs"
      /\ UNCHANGED <<proc, pc, store, status, deleting, result, cli>>
  BY DEF Shutdown, vars
<1>2. asked' = asked \cup {j \in Jobs : JobRuns(j)}
  BY DEF Shutdown, ServiceInv, JobTypes, JobsServed
<1>3. Store!CancelTasks(Jobs) /\ UNCHANGED [i \in Jobs |-> CliOf(i)]
  BY <1>1, <1>2, CancelsTasks
<1>. QED BY <1>1, <1>3 DEF Store!Shutdown

LEMMA StopPoolServes ==
  ASSUME ServiceInv, StopPool
  PROVE  Store!Down
<1>1. /\ stage = "jobs" /\ stage' = "pool" /\ \A j \in Jobs : ~JobRuns(j)
      /\ UNCHANGED <<proc, pc, store, status, deleting, result, asked, cli>>
  BY DEF StopPool, JobsAreOver, Stop
<1>2. \A j \in Jobs : Task(j) = "none"
  BY <1>1 DEF Task
<1>. QED BY <1>1, <1>2, HandlerSame DEF Store!Down, Store!Done

LEMMA StillServes ==
  ASSUME ServiceInv, Ended \/ UNCHANGED serviceVars
  PROVE  UNCHANGED Store!vars
<1>1. UNCHANGED <<proc, pc, store, status, deleting, result, asked, cli, stage>>
  BY DEF Ended, Finished, vars, jobVars, serviceVars
<1>. QED BY <1>1, HandlerSame DEF Store!vars

----------------------------------------------------------------------------
(* The refinement *)

LEMMA StoreStarts == ServiceInit => Store!Init
<1>. SUFFICES ASSUME ServiceInit PROVE Store!Init
  OBVIOUS
<1>1. \A j \in Jobs : Task(j) = "none" /\ Outcome(j) = "none" /\ CliOf(j) = "none"
  BY DEF ServiceInit, Task, Outcome, CliOf, JobRuns
<1>. QED BY <1>1 DEF ServiceInit, Store!Init

LEMMA StoreServes ==
  PoolKnown /\ ServiceInv /\ ServiceInv' /\ [ServiceNext]_serviceVars => [Store!Next]_(Store!vars)
<1>. SUFFICES ASSUME PoolKnown, ServiceInv, ServiceInv', [ServiceNext]_serviceVars
              PROVE  [Store!Next]_(Store!vars)
  OBVIOUS
<1>1. CASE Background
  BY <1>1, BackgroundServes
<1>2. ASSUME NEW r \in Requests, TaskStep(r) \/ RunReturns(r) \/ Generate(r)
      PROVE  [Store!Next]_(Store!vars)
  BY <1>2, TaskServes, RunReturnsServes, GenerateServes
<1>3. ASSUME NEW j \in Jobs, Raised(j) PROVE [Store!Next]_(Store!vars)
  BY <1>3, RaisedServes
<1>4. ASSUME NEW j \in Jobs, Submit(j) PROVE Store!Next
  BY <1>4, SubmitServes DEF Store!Next, Store!JobStep
<1>5. ASSUME NEW d \in Deleters, (\E j \in Jobs : Delete(d, j)) \/ Answer(d) PROVE Store!Next
  BY <1>5, DeleteServes, AnswerServes DEF Store!Next
<1>6. CASE List \/ Shutdown \/ StopPool
  BY <1>6, ListServes, ShutdownServes, StopPoolServes DEF Store!Next
<1>7. CASE Ended \/ UNCHANGED serviceVars
  BY <1>7, StillServes
<1>. QED BY <1>1, <1>2, <1>3, <1>4, <1>5, <1>6, <1>7 DEF ServiceNext

\* With the real pool behind it, the job store is the one of module JobStore, for any number
\* of jobs, calls and workers: its theorems hold of the jobs of the daemon.
THEOREM JobsAreServed == ServiceSpec => ServesJobs
<1>1. TypeInv /\ OwnInv /\ ServiceInv /\ (TypeInv /\ OwnInv /\ ServiceInv)'
        /\ [ServiceNext]_serviceVars => [Store!Next]_(Store!vars)
  BY StoreServes DEF PoolKnown
<1>. QED BY <1>1, StoreStarts, ServiceAlways, PTL DEF ServiceSpec, ServesJobs, Store!Spec

\* What module JobStoreProofs proves of a job store, on this one.
StoreProofs == INSTANCE JobStoreProofs WITH
  Callers <- Deleters,
  task <- [j \in Jobs |-> Task(j)],
  outcome <- [j \in Jobs |-> Outcome(j)],
  cli <- [j \in Jobs |-> CliOf(j)],
  life <- CASE stage = "up" -> "up" [] stage = "jobs" -> "closing" [] OTHER -> "down"

\* It is the same store: the two instances differ by name only.
LEMMA SameStore ==
  /\ Store!Init <=> StoreProofs!Init
  /\ [Store!Next]_(Store!vars) <=> [StoreProofs!Next]_(StoreProofs!vars)
<1>1. Store!Init <=> StoreProofs!Init
  BY DEF Store!Init, StoreProofs!Init
<1>2. \A S : Store!Cardinality(S) = StoreProofs!Cardinality(S)
  BY DEF Store!Cardinality, StoreProofs!Cardinality
<1>3. Store!Droppable = StoreProofs!Droppable
  BY <1>2 DEF Store!Droppable, StoreProofs!Droppable, Store!Ended, StoreProofs!Ended,
              Store!Terminal, StoreProofs!Terminal
<1>4. \A j \in Jobs : Store!JobStep(j) <=> StoreProofs!JobStep(j)
  BY <1>3 DEF Store!JobStep, StoreProofs!JobStep, Store!Submit, StoreProofs!Submit,
              Store!Acquired, StoreProofs!Acquired, Store!Refused, StoreProofs!Refused,
              Store!RunEnds, StoreProofs!RunEnds, Store!CliEnds, StoreProofs!CliEnds,
              Store!Struck, StoreProofs!Struck, Store!Released, StoreProofs!Released,
              Store!Unwound, StoreProofs!Unwound, Store!NewId, StoreProofs!NewId, Store!Finish,
              StoreProofs!Finish
<1>5. ASSUME NEW c \in Deleters
      PROVE  /\ \A j \in Jobs : Store!Delete(c, j) <=> StoreProofs!Delete(c, j)
             /\ Store!Answer(c) <=> StoreProofs!Answer(c)
  BY DEF Store!Delete, StoreProofs!Delete, Store!Answer, StoreProofs!Answer, Store!CancelTasks,
         StoreProofs!CancelTasks, Store!CancelledOutcomes, StoreProofs!CancelledOutcomes,
         Store!Live, StoreProofs!Live, Store!Done, StoreProofs!Done
<1>6. /\ Store!List <=> StoreProofs!List
      /\ Store!Shutdown <=> StoreProofs!Shutdown
      /\ Store!Down <=> StoreProofs!Down
      /\ Store!Finished <=> StoreProofs!Finished
  BY <1>3 DEF Store!List, StoreProofs!List, Store!Shutdown, StoreProofs!Shutdown, Store!Down,
              StoreProofs!Down, Store!Finished, StoreProofs!Finished, Store!CancelTasks,
              StoreProofs!CancelTasks, Store!CancelledOutcomes, StoreProofs!CancelledOutcomes,
              Store!Live, StoreProofs!Live, Store!Done, StoreProofs!Done, Store!vars,
              StoreProofs!vars
<1>7. Store!Next <=> StoreProofs!Next
  BY <1>4, <1>5, <1>6 DEF Store!Next, StoreProofs!Next
<1>8. UNCHANGED Store!vars <=> UNCHANGED StoreProofs!vars
  BY DEF Store!vars, StoreProofs!vars
<1>. QED BY <1>1, <1>7, <1>8

\* And whatever JobStoreProofs assumes of its constants is so.
LEMMA StoreOfTheDaemon ==
  StoreProofs!JobStoreAssumption /\ (ServiceSpec => StoreProofs!Spec)
<1>1. ServiceSpec => StoreProofs!Spec
  BY JobsAreServed, SameStore, PTL DEF ServesJobs, Store!Spec, StoreProofs!Spec
<1>2. StoreProofs!JobStoreAssumption
  BY ServiceAssumption DEF StoreProofs!JobStoreAssumption, IsFiniteSet, StoreProofs!IsFiniteSet
<1>. QED BY <1>1, <1>2

\* So what JobStoreProofs shows of a store holds of the daemon's, whatever the pool does to
\* its jobs: a running job stays stored, shutdown() ends every job and a result, once
\* there, is final until it leaves.
THEOREM DaemonKeepsResults ==
  ServiceSpec => /\ []StoreProofs!RunningNeverDropped
                 /\ []StoreProofs!ShutdownEndsJobs
                 /\ StoreProofs!KeepsResults
<1>1. StoreProofs!Spec => []StoreProofs!RunningNeverDropped
  BY StoreOfTheDaemon, StoreProofs!RunningJobsStay
<1>2. StoreProofs!Spec => []StoreProofs!ShutdownEndsJobs
  BY StoreOfTheDaemon, StoreProofs!ShutdownIsComplete
<1>3. StoreProofs!Spec => StoreProofs!KeepsResults
  BY StoreOfTheDaemon, StoreProofs!StoreKeepsResults
<1>. QED BY <1>1, <1>2, <1>3, StoreOfTheDaemon

\* And while it serves, one DELETE at a time is answered when the job's worker is dead, also
\* when the job was waiting for a worker, losing one or getting one spawned.
THEOREM DaemonDeletesHonestly ==
  ASSUME \A c, d \in Deleters : c = d
  PROVE  ServiceSpec => StoreProofs!DeleteAnswersAfterKill
<1>1. StoreProofs!OneCaller
  BY DEF StoreProofs!OneCaller
<1>2. StoreProofs!Spec => StoreProofs!DeleteAnswersAfterKill
  BY <1>1, StoreOfTheDaemon, StoreProofs!OneDeleteIsHonest
<1>. QED BY <1>2, StoreOfTheDaemon
=============================================================================
