---------------------------- MODULE ResultStore ----------------------------
(* What JobStore (src/claude_pool/jobs.py) promises about results, without   *)
(* its tasks, cancellations and workers: each job is absent, running, has    *)
(* one result, or is gone with it.                                           *)
EXTENDS Integers, FiniteSets

CONSTANTS Jobs, Callers, NoJob,
  Limit   \* how much is kept for callers that never collect

VARIABLES
  result,   \* what GET /jobs/{id} would show
  asked,    \* the job a caller's DELETE is about
  closed    \* the store has been shut down

resultVars == <<result, asked, closed>>

Final == {"succeeded", "failed", "cancelled"}

Unfinished == {j \in Jobs : result[j] = "running"}
Collectable == {j \in Jobs : result[j] \in Final}

Kept(S) == Collectable \ S

\* The collectable results S are forgotten, and j, if there is one, begins to run.
Forgetting(S, new) ==
  result' = [j \in Jobs |-> IF j \in S THEN "gone"
                            ELSE IF j \in new THEN "running" ELSE result[j]]

ResultInit ==
  /\ result = [j \in Jobs |-> "absent"]
  /\ asked = [c \in Callers |-> NoJob]
  /\ closed = FALSE

\* A new job is taken on: finished ones make room for it, running ones need not.
TakeOn(j) ==
  /\ ~closed /\ result[j] = "absent"
  /\ \E S \in SUBSET Collectable :
       /\ Kept(S) = {} \/ Cardinality(Unfinished) + Cardinality(Kept(S)) <= Limit
       /\ Forgetting(S, {j})
  /\ UNCHANGED <<asked, closed>>

Forget ==
  /\ ~closed
  /\ \E S \in SUBSET Collectable : Forgetting(S, {})
  /\ UNCHANGED <<asked, closed>>

\* A running job gets its one result.
Conclude(j) ==
  /\ result[j] = "running"
  /\ \E o \in Final : result' = [result EXCEPT ![j] = o]
  /\ UNCHANGED <<asked, closed>>

Ask(c, j) ==
  /\ ~closed /\ asked[c] = NoJob /\ result[j] \notin {"absent", "gone"}
  /\ asked' = [asked EXCEPT ![c] = j]
  /\ UNCHANGED <<result, closed>>

\* Only what is final is answered, though it may be gone by then.
Reply(c) ==
  /\ asked[c] # NoJob /\ result[asked[c]] \in Final \cup {"gone"}
  /\ asked' = [asked EXCEPT ![c] = NoJob]
  /\ UNCHANGED <<result, closed>>

Close ==
  /\ ~closed /\ Unfinished = {}
  /\ closed' = TRUE
  /\ UNCHANGED <<result, asked>>

ResultNext ==
  \/ \E j \in Jobs : TakeOn(j) \/ Conclude(j)
  \/ \E c \in Callers : (\E j \in Jobs : Ask(c, j)) \/ Reply(c)
  \/ Forget \/ Close

ResultSpec == ResultInit /\ [][ResultNext]_resultVars
=============================================================================
