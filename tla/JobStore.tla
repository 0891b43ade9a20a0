----------------------------- MODULE JobStore -----------------------------
(* JobStore (src/claude_pool/jobs.py): prompts run in the background, kept   *)
(* until they are read, cancelled by DELETE or trimmed.                      *)
(*                                                                           *)
(* A job's task runs execute() (runner.py), of which this module keeps the   *)
(* places where the task can be suspended and therefore cancelled; the pool  *)
(* behind it is reduced to its answers (module Service puts module Pool in   *)
(* their place).  A job is cancelled only after its task has started: the id *)
(* reaches a client in a response that is sent later than the task's first   *)
(* step.  finished_at comes from time.time(), which may be set back and is   *)
(* coarse: which finished jobs are past retention, and which are the oldest, *)
(* is nondeterministic.                                                      *)
EXTENDS Integers, FiniteSets

CONSTANTS
  Jobs,     \* job ids; token_urlsafe never gives one twice
  Callers,  \* DELETE requests in flight
  NoJob,
  MaxJobs   \* config.max_jobs

ASSUME JobStoreAssumption ==
  IsFiniteSet(Jobs) /\ NoJob \notin Jobs /\ MaxJobs \in Nat

VARIABLES
  store,     \* keys of _jobs
  status,    \* job.status; "unknown" before submit()
  task,      \* where the job's task is suspended; "none" once it is done
  outcome,   \* what _run will report when the task is done
  cli,       \* the worker process the job has acquired
  deleting,  \* the job whose task a DELETE awaits
  life       \* of the store: shutdown() cancels every task and waits

vars == <<store, status, task, outcome, cli, deleting, life>>

\* Mutant: cancelled is not listed.
TerminalButCancelled == {"succeeded", "failed"}

\* TERMINAL_STATUSES
Terminal == {"succeeded", "failed", "cancelled"}

TypeOK ==
  /\ store \subseteq Jobs
  /\ status \in [Jobs -> {"unknown", "running"} \cup Terminal]
  /\ task \in [Jobs -> {"none", "acquire", "run", "struck", "release", "unwind"}]
  /\ outcome \in [Jobs -> {"none"} \cup Terminal]
  /\ cli \in [Jobs -> {"none", "running", "dead"}]
  /\ deleting \in [Callers -> Jobs \cup {NoJob}]
  /\ life \in {"up", "closing", "down"}

Live == {j \in Jobs : task[j] # "none"}

----------------------------------------------------------------------------
(* _reap *)

Ended == {j \in store : status[j] \in Terminal}

\* Mutant: any job may be dropped to make room.
DroppableAny == {S \in SUBSET store : Cardinality(store \ S) <= MaxJobs}

\* Mutant: the cap is not enforced.
DroppableUncapped == SUBSET Ended

\* What one _reap may drop: finished jobs past retention, then the oldest of the
\* rest while the store exceeds max_jobs.  A running job is never dropped.
Droppable ==
  {S \in SUBSET Ended : S = Ended \/ Cardinality(store \ S) <= MaxJobs}

----------------------------------------------------------------------------
(* A job's task *)

Finish(j, result) ==
  /\ status' = [status EXCEPT ![j] = result]
  /\ outcome' = [outcome EXCEPT ![j] = result]
  /\ task' = [task EXCEPT ![j] = "none"]

NewId(j) == status[j] = "unknown"

\* submit: trim first, then add the job and start its task.
Submit(j) ==
  /\ life = "up" /\ NewId(j)
  /\ \E S \in Droppable : store' = (store \ S) \cup {j}
  /\ status' = [status EXCEPT ![j] = "running"]
  /\ task' = [task EXCEPT ![j] = "acquire"]
  /\ UNCHANGED <<outcome, cli, deleting, life>>

\* list() trims too.
List ==
  /\ life = "up"
  /\ \E S \in Droppable : store' = store \ S
  /\ UNCHANGED <<status, task, outcome, cli, deleting, life>>

Acquired(j) ==
  /\ task[j] = "acquire"
  /\ task' = [task EXCEPT ![j] = "run"]
  /\ cli' = [cli EXCEPT ![j] = "running"]
  /\ UNCHANGED <<store, status, outcome, deleting, life>>

\* PoolUnavailableError becomes a failed outcome.
Refused(j) ==
  /\ task[j] = "acquire"
  /\ Finish(j, "failed")
  /\ UNCHANGED <<store, cli, deleting, life>>

\* The worker's process ends: its turn is over, its timeout has come, or its
\* release, which outlives a cancelled task, has killed it.
CliEnds(j) ==
  /\ cli[j] = "running"
  /\ cli' = [cli EXCEPT ![j] = "dead"]
  /\ UNCHANGED <<store, status, task, outcome, deleting, life>>

\* run() returns, raises or times out, in each case with the process reaped.
RunEnds(j) ==
  /\ task[j] = "run" /\ cli[j] = "dead"
  /\ \E o \in {"succeeded", "failed"} : outcome' = [outcome EXCEPT ![j] = o]
  /\ task' = [task EXCEPT ![j] = "release"]
  /\ UNCHANGED <<store, status, cli, deleting, life>>

\* The CancelledError is raised in run(): the finally of execute() begins.
Struck(j) ==
  /\ task[j] = "struck"
  /\ task' = [task EXCEPT ![j] = "release"]
  /\ UNCHANGED <<store, status, outcome, cli, deleting, life>>

\* The shielded release is over: _run stores its outcome.
Released(j) ==
  /\ task[j] = "release" /\ cli[j] = "dead"
  /\ Finish(j, outcome[j])
  /\ UNCHANGED <<store, cli, deleting, life>>

\* Mutant: no except for CancelledError.
UnwoundSilently(j) ==
  /\ task[j] = "unwind"
  /\ task' = [task EXCEPT ![j] = "none"]
  /\ UNCHANGED <<store, status, outcome, cli, deleting, life>>

\* CancelledError reaches _run.
Unwound(j) ==
  /\ task[j] = "unwind"
  /\ Finish(j, "cancelled")
  /\ UNCHANGED <<store, cli, deleting, life>>

----------------------------------------------------------------------------
(* cancel and shutdown *)

CancelledOutcomes(S) ==
  [j \in Jobs |-> IF j \in S \cap Live THEN "cancelled" ELSE outcome[j]]

\* Mutant: a cancelled run does not wait for its release.
CancelTasksUnshielded(S) ==
  /\ task' = [j \in Jobs |-> IF j \in S \cap Live THEN "unwind" ELSE task[j]]
  /\ outcome' = CancelledOutcomes(S)

\* task.cancel(): a running prompt is struck and still awaits its release, but a
\* task that is already awaiting it is torn away from it.  A second cancel() before
\* the CancelledError of the first has been raised adds nothing.
CancelTasks(S) ==
  /\ task' = [j \in Jobs |->
                IF j \notin S \cap Live THEN task[j]
                ELSE IF task[j] \in {"run", "struck"} THEN "struck" ELSE "unwind"]
  /\ outcome' = CancelledOutcomes(S)

\* Mutant: a cancelled task is not awaited.
DoneOrNot(j) == TRUE

\* gather(task) returns.
Done(j) == task[j] = "none"

\* DELETE of a stored job: cancel its task and await it; a finished job is left
\* as it is.  The branch for a job that has neither a task nor a result needs a
\* task cancelled before its first step, which no client is quick enough for.
Delete(c, j) ==
  /\ life = "up" /\ deleting[c] = NoJob /\ j \in store
  /\ deleting' = [deleting EXCEPT ![c] = j]
  /\ CancelTasks({j})
  /\ UNCHANGED <<store, status, cli, life>>

Answer(c) ==
  /\ deleting[c] # NoJob /\ Done(deleting[c])
  /\ deleting' = [deleting EXCEPT ![c] = NoJob]
  /\ UNCHANGED <<store, status, task, outcome, cli, life>>

Shutdown ==
  /\ life = "up"
  /\ life' = "closing"
  /\ CancelTasks(Jobs)
  /\ UNCHANGED <<store, status, cli, deleting>>

Down ==
  /\ life = "closing" /\ \A j \in Jobs : Done(j)
  /\ life' = "down"
  /\ UNCHANGED <<store, status, task, outcome, cli, deleting>>

Finished ==
  /\ life = "down" /\ \A c \in Callers : deleting[c] = NoJob
  /\ UNCHANGED vars

----------------------------------------------------------------------------
(* Specification *)

Init ==
  /\ store = {} /\ life = "up"
  /\ status = [j \in Jobs |-> "unknown"]
  /\ task = [j \in Jobs |-> "none"]
  /\ outcome = [j \in Jobs |-> "none"]
  /\ cli = [j \in Jobs |-> "none"]
  /\ deleting = [c \in Callers |-> NoJob]

JobStep(j) ==
  \/ Submit(j) \/ Acquired(j) \/ Refused(j) \/ RunEnds(j)
  \/ CliEnds(j) \/ Struck(j) \/ Released(j) \/ Unwound(j)

Next ==
  \/ \E j \in Jobs : JobStep(j)
  \/ \E c \in Callers : (\E j \in Jobs : Delete(c, j)) \/ Answer(c)
  \/ List \/ Shutdown \/ Down \/ Finished

Spec == Init /\ [][Next]_vars

\* acquire() and run() are bounded by timeouts, a killed process is reaped, and
\* the event loop runs what is ready.
Fairness ==
  /\ \A j \in Jobs :
       /\ WF_vars(Acquired(j) \/ Refused(j)) /\ WF_vars(RunEnds(j))
       /\ WF_vars(CliEnds(j)) /\ WF_vars(Struck(j)) /\ WF_vars(Released(j)) /\ WF_vars(Unwound(j))
  /\ \A c \in Callers : WF_vars(Answer(c))
  /\ WF_vars(Down)

FairSpec == Spec /\ Fairness

----------------------------------------------------------------------------
(* Properties *)

\* jobs.py:174-176: a running job is never dropped, so its result has somewhere
\* to land, and what is stored without a task has a result to show.
RunningNeverDropped ==
  Live \subseteq store /\ \A j \in store \ Live : status[j] \in Terminal

\* jobs.py:149-150: while the daemon serves, the worker is killed before DELETE
\* answers, or "cancelled" would be a claim and not a fact.
DeleteAnswersAfterKill ==
  [][\A c \in Callers :
       life = "up" /\ Answer(c) => cli[deleting[c]] # "running"]_vars

\* When shutdown() returns no job is still running (jobs.py:157).
ShutdownEndsJobs == life = "down" => \A j \in Jobs : status[j] # "running"

\* Every submitted job ends, whatever happens to its callers.
EveryJobEnds == \A j \in Jobs : status[j] = "running" ~> status[j] \in Terminal

----------------------------------------------------------------------------
(* What the store promises, as module ResultStore states it *)

\* A job that is no longer stored has left with its result.
resultMap ==
  [j \in Jobs |-> IF status[j] = "unknown" THEN "absent"
                  ELSE IF j \in store THEN status[j] ELSE "gone"]

Results == INSTANCE ResultStore WITH
  Limit <- MaxJobs, result <- resultMap, asked <- deleting, closed <- life = "down"

\* JobStore keeps the promise of module ResultStore: through cancellation, trimming
\* and shutdown a result is final, it leaves only to make room or when it is old, and
\* nobody is answered about a job that has none.
KeepsResults == Results!ResultSpec
=============================================================================
