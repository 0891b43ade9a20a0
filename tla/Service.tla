------------------------------ MODULE Service ------------------------------
(* run_daemon (src/claude_pool/daemon.py) while it serves and shuts down:    *)
(* the pool (module Pool) and the job store on one event loop.  Some of the  *)
(* pool's requests are jobs, the others are /generate calls.                 *)
(*                                                                           *)
(* cancel() on a task and the CancelledError it raises are two steps: other  *)
(* callbacks run between them.  A job ends in the step in which its          *)
(* execute() returns or raises, for _run awaits it directly.                 *)
EXTENDS Pool

CONSTANTS
  Jobs,      \* the requests that are submitted as jobs
  Deleters,  \* DELETE requests in flight
  NoJob,
  MaxJobs

ASSUME ServiceAssumption ==
  /\ Jobs \subseteq Requests /\ IsFiniteSet(Jobs) /\ NoJob \notin Jobs /\ MaxJobs \in Nat
  /\ "over" \notin Workers \cup {NoWorker}

VARIABLES
  store, status, deleting,  \* as in module JobStore
  result,  \* what execute() will return or raise in a job
  asked,   \* jobs whose task has been cancelled and does not know it yet
  cli,     \* history: the worker a job has had, "over" once that is gone
  stage    \* of run_daemon: serving, in jobs.shutdown(), in pool.stop()

jobVars == <<store, status, deleting, result, asked, cli, stage>>
serviceVars == <<vars, jobVars>>

JobRuns(j) == status[j] = "running"

----------------------------------------------------------------------------
(* Module JobStore, on this state *)

\* Where JobStore has the job's task.  A timed-out acquire() that is still leaving
\* the wait is in "unwind" here and in "acquire" there.
Task(j) ==
  IF ~JobRuns(j) THEN "none"
  ELSE IF j \in asked THEN IF pc[j] = "run" THEN "struck" ELSE "unwind"
  ELSE IF pc[j] = "unwind" /\ result[j] = "cancelled" THEN "unwind"
  ELSE IF pc[j] = "run" THEN "run"
  ELSE IF pc[j] \in {"release", "respawn"} THEN "release"
  ELSE "acquire"

\* What _run will report: a pending cancellation overrides what execute() has.
Outcome(j) == IF j \in asked THEN "cancelled" ELSE result[j]

CliOf(j) ==
  IF cli[j] = NoWorker THEN "none"
  ELSE IF cli[j] \in Workers /\ IsAlive(cli[j]) THEN "running" ELSE "dead"

Store == INSTANCE JobStore WITH
  Callers <- Deleters,
  task <- [j \in Jobs |-> Task(j)],
  outcome <- [j \in Jobs |-> Outcome(j)],
  cli <- [j \in Jobs |-> CliOf(j)],
  life <- CASE stage = "up" -> "up" [] stage = "jobs" -> "closing" [] OTHER -> "down"

----------------------------------------------------------------------------
(* What a step of the pool does to the jobs *)

\* Mutant: a cancellation that is raised when execute() has its outcome is lost.
FirstOutcome(j, outcome) == IF outcome = "none" THEN "failed" ELSE outcome

\* The step after which job j is over ends its _run: by the CancelledError that was
\* pending, with what execute() returned, or because there was no worker for it.
Final(j, outcome) ==
  IF j \in asked THEN "cancelled" ELSE IF outcome = "none" THEN "failed" ELSE outcome

\* outcomes: what execute() has got to report by now; heard: whose CancelledError
\* this step raises.
Follow(outcomes, heard) ==
  LET over == {j \in Jobs : JobRuns(j) /\ pc'[j] = "out"} IN
  /\ result' = [j \in Jobs |-> IF j \in over THEN Final(j, outcomes[j]) ELSE outcomes[j]]
  /\ status' = [j \in Jobs |-> IF j \in over THEN result'[j] ELSE status[j]]
  /\ asked' = asked \ (over \cup heard)
  /\ cli' = [j \in Jobs |->
               IF pc'[j] = "run" THEN worker'[j]
               ELSE IF cli[j] \in Workers /\ proc'[cli[j]] \notin {"alive", "exiting"}
                 THEN "over" ELSE cli[j]]
  /\ UNCHANGED <<store, deleting, stage>>

\* Processes, grows, the sweep and what pool.stop() does after its first step.
Background ==
  /\ \/ \E w \in Workers : WorkerStep(w)
     \/ Start \/ Grow \/ Sweep \/ SweepNext
     \/ Snapshot \/ DrainDone \/ DrainTimeout \/ TakeIdle \/ StopKill \/ StopNext
  /\ Follow(result, {})

\* A request's own steps, and acquire()'s timeout.  A task with a pending
\* cancellation makes none of them but to get the lock back.
TaskStep(r) ==
  /\ \/ r \notin asked /\ (Enter(r) \/ Wake(r) \/ GiveUp(r) \/ RunTimeout(r))
     \/ Unwind(r)
  /\ Follow(result, {})

RunReturns(r) ==
  /\ r \notin asked /\ RunEnds(r)
  /\ \E o \in {"succeeded", "failed"} :
       Follow([j \in Jobs |-> IF j = r THEN o ELSE result[j]], {})

\* The CancelledError is raised where the job's task is suspended.  Condition.wait
\* keeps it back while it waits for the lock.
Raised(j) ==
  /\ j \in asked
  /\ GiveUp(j) \/ Cancel(j) \/ (pc[j] = "unwind" /\ UNCHANGED vars)
  /\ Follow([result EXCEPT ![j] = "cancelled"], {j})

----------------------------------------------------------------------------
(* Requests *)

\* POST /generate; aiohttp cancels a handler when it closes.
Generate(r) ==
  /\ r \notin Jobs
  /\ (stage = "up" /\ Arrive(r)) \/ Cancel(r)
  /\ UNCHANGED jobVars

\* POST /jobs: the task's first step is acquire().
Submit(j) ==
  /\ stage = "up" /\ status[j] = "unknown"
  /\ Arrive(j)
  /\ \E S \in Store!Droppable : store' = (store \ S) \cup {j}
  /\ status' = [status EXCEPT ![j] = "running"]
  /\ UNCHANGED <<deleting, result, asked, cli, stage>>

\* GET /jobs.
List ==
  /\ stage = "up"
  /\ \E S \in Store!Droppable : store' = store \ S
  /\ UNCHANGED <<vars, status, deleting, result, asked, cli, stage>>

\* DELETE /jobs/{id}.
Delete(d, j) ==
  /\ stage = "up" /\ deleting[d] = NoJob /\ j \in store
  /\ deleting' = [deleting EXCEPT ![d] = j]
  /\ asked' = IF JobRuns(j) THEN asked \cup {j} ELSE asked
  /\ UNCHANGED <<vars, store, status, result, cli, stage>>

Answer(d) ==
  /\ deleting[d] # NoJob /\ ~JobRuns(deleting[d])
  /\ deleting' = [deleting EXCEPT ![d] = NoJob]
  /\ UNCHANGED <<vars, store, status, result, asked, cli, stage>>

----------------------------------------------------------------------------
(* The finally of run_daemon *)

\* No request comes in any more, and jobs.shutdown() cancels every job's task.
Shutdown ==
  /\ stage = "up" /\ life = "up"
  /\ stage' = "jobs"
  /\ asked' = {j \in Jobs : JobRuns(j)}
  /\ UNCHANGED <<vars, store, status, deleting, result, cli>>

\* Mutant: jobs.shutdown() does not await the tasks it has cancelled.
JobsCancelled == TRUE

JobsAreOver == \A j \in Jobs : ~JobRuns(j)

\* gather() returns and pool.stop() begins.
StopPool ==
  /\ stage = "jobs" /\ JobsAreOver
  /\ stage' = "pool"
  /\ Stop
  /\ UNCHANGED <<store, status, deleting, result, asked, cli>>

Ended ==
  /\ Finished /\ \A d \in Deleters : deleting[d] = NoJob
  /\ UNCHANGED jobVars

----------------------------------------------------------------------------
(* Specification *)

ServiceInit ==
  /\ Init
  /\ store = {} /\ asked = {} /\ stage = "up"
  /\ status = [j \in Jobs |-> "unknown"]
  /\ result = [j \in Jobs |-> "none"]
  /\ cli = [j \in Jobs |-> NoWorker]
  /\ deleting = [d \in Deleters |-> NoJob]

ServiceNext ==
  \/ Background \/ List \/ Shutdown \/ StopPool \/ Ended
  \/ \E r \in Requests : TaskStep(r) \/ RunReturns(r) \/ Generate(r)
  \/ \E j \in Jobs : Submit(j) \/ Raised(j)
  \/ \E d \in Deleters : (\E j \in Jobs : Delete(d, j)) \/ Answer(d)

ServiceSpec == ServiceInit /\ [][ServiceNext]_serviceVars

----------------------------------------------------------------------------
(* Properties *)

\* With the real pool behind it, the job store behaves as module JobStore says, which
\* knows the pool by its answers only: whatever waits, dies, is refused, is swept or is
\* torn from its release, each step is a step of JobStore or none.
ServesJobs == Store!Spec

\* daemon.py:48-49: jobs are cancelled first so that their workers come back through
\* the pool, and pool.stop() drains them all, those included whose task was torn from
\* its release: when the drain ends in time no worker of a job is left.
DrainReapsJobs == [][DrainDone => \A j \in Jobs : cli[j] \notin Workers]_serviceVars

\* jobs.py:157: no worker of a job outlives the daemon, also when the drain times out.
NoJobOutlivesDaemon == life = "done" => \A j \in Jobs : cli[j] \in Workers => proc[cli[j]] # "alive"
=============================================================================
