-------------------------- MODULE JobStoreProofs ---------------------------
(* What JobStore keeps to for any number of jobs and of DELETEs in flight,   *)
(* and that it implements ResultStore.                                       *)
EXTENDS JobStore, FiniteSetTheorems, TLAPS

\* A job is running as long as it has a task.
Paired == \A j \in Jobs : status[j] = "running" <=> task[j] # "none"

\* Whoever awaits a release has a result to report.
Settled == \A j \in Jobs : task[j] \in {"struck", "release"} => outcome[j] \in Terminal

\* A DELETE is about a job that was submitted.
AskedKnown == \A c \in Callers : deleting[c] # NoJob => status[deleting[c]] # "unknown"

\* A store that is down has no task.
Quiet == life = "down" => \A j \in Jobs : task[j] = "none"

JobInv == TypeOK /\ RunningNeverDropped /\ Paired /\ Settled /\ AskedKnown /\ Quiet

USE DEF Terminal

\* What may be dropped has its result.
LEMMA DroppedAreEnded ==
  ASSUME NEW S \in Droppable
  PROVE  S \subseteq store /\ \A j \in S : status[j] \in Terminal
  BY DEF Droppable, Ended

LEMMA JobInit == Init => JobInv
  BY DEF Init, JobInv, TypeOK, RunningNeverDropped, Paired, Settled, AskedKnown, Quiet, Live

\* Cancelling leaves the types, who has a task, and gives the struck an outcome.
LEMMA CancelKeeps ==
  ASSUME JobInv, NEW S \in SUBSET Jobs, CancelTasks(S)
  PROVE  /\ task' \in [Jobs -> {"none", "acquire", "run", "struck", "release", "unwind"}]
         /\ outcome' \in [Jobs -> {"none"} \cup Terminal]
         /\ \A j \in Jobs : task'[j] = "none" <=> task[j] = "none"
         /\ Settled'
  BY DEF JobInv, TypeOK, CancelTasks, CancelledOutcomes, Settled, Live

LEMMA SubmitStep ==
  ASSUME JobInv, NEW j \in Jobs, Submit(j)
  PROVE  JobInv'
  <1> USE DEF JobInv
  <1>1. PICK S \in Droppable : store' = (store \ S) \cup {j}
    BY DEF Submit
  <1>2. S \subseteq store /\ \A k \in S : status[k] \in Terminal
    BY <1>1, DroppedAreEnded
  <1>3. TypeOK'
    BY <1>1 DEF Submit, TypeOK
  <1>4. \A k \in S : task[k] = "none"
    BY <1>2 DEF Paired, TypeOK
  <1>5. RunningNeverDropped'
    BY <1>1, <1>4 DEF Submit, RunningNeverDropped, Live, TypeOK
  <1>6. Paired' /\ Settled' /\ Quiet'
    BY DEF Submit, Paired, Settled, Quiet, TypeOK
  <1>7. AskedKnown'
    BY JobStoreAssumption DEF Submit, AskedKnown, TypeOK
  <1> QED
    BY <1>3, <1>5, <1>6, <1>7

LEMMA ListStep ==
  ASSUME JobInv, List
  PROVE  JobInv'
  <1> USE DEF JobInv
  <1>1. PICK S \in Droppable : store' = store \ S
    BY DEF List
  <1>2. \A k \in S : status[k] \in Terminal
    BY <1>1, DroppedAreEnded
  <1>3. \A k \in S : k \in Jobs => task[k] = "none"
    BY <1>2 DEF Paired, TypeOK
  <1>4. RunningNeverDropped'
    BY <1>1, <1>3 DEF List, RunningNeverDropped, Live
  <1> QED
    BY <1>1, <1>4 DEF List, TypeOK, Paired, Settled, AskedKnown, Quiet

\* A task that ends leaves its result in the store.
LEMMA FinishStep ==
  ASSUME JobInv, NEW j \in Jobs, task[j] # "none", NEW o \in Terminal, Finish(j, o),
         UNCHANGED <<store, cli, deleting, life>>
  PROVE  JobInv'
  <1> USE DEF JobInv, Finish
  <1>1. TypeOK'
    BY DEF TypeOK
  <1>2. RunningNeverDropped'
    BY DEF RunningNeverDropped, Live, TypeOK
  <1>3. Paired' /\ Settled'
    BY DEF Paired, Settled, TypeOK
  <1>4. AskedKnown' /\ Quiet'
    BY JobStoreAssumption DEF AskedKnown, Quiet, TypeOK
  <1> QED
    BY <1>1, <1>2, <1>3, <1>4

LEMMA TaskStep ==
  ASSUME JobInv, NEW j \in Jobs,
         Acquired(j) \/ RunEnds(j) \/ CliEnds(j) \/ Struck(j)
  PROVE  JobInv'
  <1> USE DEF JobInv
  <1>1. CASE Acquired(j)
    BY <1>1 DEF Acquired, TypeOK, RunningNeverDropped, Live, Paired, Settled, AskedKnown, Quiet
  <1>2. CASE RunEnds(j)
    BY <1>2 DEF RunEnds, TypeOK, RunningNeverDropped, Live, Paired, Settled, AskedKnown, Quiet
  <1>3. CASE CliEnds(j)
    BY <1>3 DEF CliEnds, TypeOK, RunningNeverDropped, Live, Paired, Settled, AskedKnown, Quiet
  <1>4. CASE Struck(j)
    BY <1>4 DEF Struck, TypeOK, RunningNeverDropped, Live, Paired, Settled, AskedKnown, Quiet
  <1> QED
    BY <1>1, <1>2, <1>3, <1>4

LEMMA CancelStep ==
  ASSUME JobInv, NEW S \in SUBSET Jobs, CancelTasks(S), UNCHANGED <<store, status, cli>>
  PROVE  RunningNeverDropped' /\ Paired' /\ Settled'
  BY CancelKeeps DEF JobInv, RunningNeverDropped, Live, Paired

LEMMA RequestStep ==
  ASSUME JobInv, NEW c \in Callers, Answer(c) \/ \E j \in Jobs : Delete(c, j)
  PROVE  JobInv'
  <1> USE DEF JobInv
  <1>1. CASE Answer(c)
    BY <1>1 DEF Answer, TypeOK, RunningNeverDropped, Live, Paired, Settled, AskedKnown, Quiet
  <1>2. ASSUME NEW j \in Jobs, Delete(c, j) PROVE JobInv'
    <2>1. RunningNeverDropped' /\ Paired' /\ Settled'
      BY <1>2, CancelStep DEF Delete
    <2>2. TypeOK'
      BY <1>2, CancelKeeps DEF Delete, TypeOK
    <2>3. status[j] # "unknown"
      BY <1>2 DEF Delete, RunningNeverDropped, Live, Paired, TypeOK
    <2>4. AskedKnown' /\ Quiet'
      BY <1>2, <2>3 DEF Delete, AskedKnown, Quiet, TypeOK
    <2> QED
      BY <2>1, <2>2, <2>4
  <1> QED
    BY <1>1, <1>2

LEMMA EndStep ==
  ASSUME JobInv, Shutdown \/ Down
  PROVE  JobInv'
  <1> USE DEF JobInv
  <1>1. CASE Shutdown
    <2>1. RunningNeverDropped' /\ Paired' /\ Settled'
      BY <1>1, CancelStep DEF Shutdown
    <2>2. TypeOK'
      BY <1>1, CancelKeeps DEF Shutdown, TypeOK
    <2> QED
      BY <1>1, <2>1, <2>2 DEF Shutdown, AskedKnown, Quiet
  <1>2. CASE Down
    BY <1>2 DEF Down, Done, TypeOK, RunningNeverDropped, Live, Paired, Settled, AskedKnown, Quiet
  <1> QED
    BY <1>1, <1>2

LEMMA JobStepKeeps == JobInv /\ [Next]_vars => JobInv'
  <1> SUFFICES ASSUME JobInv, [Next]_vars PROVE JobInv'
    OBVIOUS
  <1>1. ASSUME NEW j \in Jobs, Refused(j) \/ Released(j) \/ Unwound(j) PROVE JobInv'
    BY <1>1, FinishStep DEF Refused, Released, Unwound, JobInv, Settled
  <1>2. CASE Finished \/ UNCHANGED vars
    BY <1>2 DEF Finished, vars, JobInv, TypeOK, RunningNeverDropped, Live, Paired, Settled,
                AskedKnown, Quiet
  <1> QED
    BY <1>1, <1>2, SubmitStep, ListStep, TaskStep, RequestStep, EndStep DEF Next, JobStep

LEMMA JobInvariant == Spec => []JobInv
  BY JobInit, JobStepKeeps, PTL DEF Spec

THEOREM TypeCorrect == Spec => []TypeOK
  BY JobInvariant, PTL DEF JobInv

\* Whatever is trimmed, cancelled and torn away, a running job is in the store.
THEOREM RunningJobsStay == Spec => []RunningNeverDropped
  BY JobInvariant, PTL DEF JobInv

\* shutdown() returns when every job has its result.
THEOREM ShutdownIsComplete == Spec => []ShutdownEndsJobs
  <1>1. JobInv => ShutdownEndsJobs
    BY DEF JobInv, Quiet, Paired, ShutdownEndsJobs
  <1> QED
    BY <1>1, JobInvariant, PTL

----------------------------------------------------------------------------
(* Refinement *)

SameView == UNCHANGED Results!resultVars

\* The promise's words for the store's state.
LEMMA Views ==
  ASSUME JobInv
  PROVE  /\ resultMap \in [Jobs -> {"absent", "running", "gone"} \cup Terminal]
         /\ Results!Unfinished = Live
         /\ Results!Collectable = Ended
  <1> USE DEF JobInv
  <1>1. \A j \in store : status[j] \in Terminal \/ task[j] # "none"
    BY DEF RunningNeverDropped, Live, TypeOK
  <1>2. resultMap \in [Jobs -> {"absent", "running", "gone"} \cup Terminal]
    BY DEF resultMap, TypeOK
  <1>3. Results!Unfinished = Live
    BY DEF Results!Unfinished, resultMap, Live, Paired, RunningNeverDropped, TypeOK
  <1>4. Results!Collectable = Ended
    BY DEF Results!Collectable, Results!Final, resultMap, Ended, TypeOK
  <1> QED
    BY <1>2, <1>3, <1>4

LEMMA InitialView == Init => Results!ResultInit
  BY DEF Init, Results!ResultInit, resultMap

\* What may be dropped makes room in the sense of the promise.
LEMMA RoomIsMade ==
  ASSUME JobInv, NEW S \in Droppable
  PROVE  /\ S \in SUBSET Results!Collectable
         /\ \/ Results!Kept(S) = {}
            \/ Results!Cardinality(Results!Unfinished)
                 + Results!Cardinality(Results!Kept(S)) <= MaxJobs
  <1> USE DEF JobInv
  <1>1. Results!Unfinished = Live /\ Results!Collectable = Ended
    BY Views
  <1>2. S \in SUBSET Ended /\ (S = Ended \/ Cardinality(store \ S) <= MaxJobs)
    BY DEF Droppable
  <1>3. Results!Kept(S) = Ended \ S
    BY <1>1 DEF Results!Kept
  <1>4. CASE S = Ended
    BY <1>1, <1>2, <1>3, <1>4
  <1>5. CASE Cardinality(store \ S) <= MaxJobs
    <2>1. Live \cap (Ended \ S) = {}
      BY DEF Ended, Live, Paired, TypeOK
    <2>2. Live \cup (Ended \ S) = store \ S
      BY <1>2, <2>1 DEF Ended, Live, Paired, RunningNeverDropped, TypeOK
    <2>3. IsFiniteSet(Live) /\ IsFiniteSet(Ended \ S)
      <3>1. Live \in SUBSET Jobs /\ Ended \ S \in SUBSET Jobs
        BY DEF Live, Ended, TypeOK
      <3> QED
        BY <3>1, FS_Subset, JobStoreAssumption
    <2>4. Cardinality(store \ S) = Cardinality(Live) + Cardinality(Ended \ S)
      <3>1. Cardinality(Live \cup (Ended \ S)) =
              Cardinality(Live) + Cardinality(Ended \ S) - Cardinality(Live \cap (Ended \ S))
        BY <2>3, FS_Union
      <3>2. Cardinality(Live) \in Nat /\ Cardinality(Ended \ S) \in Nat /\ Cardinality({}) = 0
        BY <2>3, FS_CardinalityType, FS_EmptySet
      <3>3. Cardinality(Live \cap (Ended \ S)) = 0
        BY <2>1, <3>2, Zenon
      <3>4. Cardinality(Live \cup (Ended \ S)) = Cardinality(store \ S)
        BY <2>2, Zenon
      <3> HIDE DEF JobInv
      <3> QED
        BY <3>1, <3>2, <3>3, <3>4
    <2>5. /\ Results!Cardinality(Live) = Cardinality(Live)
          /\ Results!Cardinality(Ended \ S) = Cardinality(Ended \ S)
      BY DEF Results!Cardinality, Cardinality
    <2>6. Cardinality(Live) + Cardinality(Ended \ S) <= MaxJobs
      BY <1>5, <2>4
    <2>7. Results!Cardinality(Results!Unfinished)
            + Results!Cardinality(Results!Kept(S)) <= MaxJobs
      BY <1>1, <1>3, <2>5, <2>6, Zenon
    <2> QED
      BY <1>1, <1>2, <2>7
  <1> QED
    BY <1>2, <1>4, <1>5

LEMMA SubmitTakesOn ==
  ASSUME JobInv, NEW j \in Jobs, Submit(j)
  PROVE  Results!TakeOn(j)
  <1> USE DEF JobInv
  <1>1. PICK S \in Droppable : store' = (store \ S) \cup {j}
    BY DEF Submit
  <1>2. S \in SUBSET store /\ \A k \in S : status[k] \in Terminal
    BY <1>1, DroppedAreEnded
  <1>3. resultMap[j] = "absent" /\ life # "down"
    BY DEF Submit, NewId, resultMap
  <1>4. resultMap' = [k \in Jobs |-> IF k \in S THEN "gone"
                                     ELSE IF k \in {j} THEN "running" ELSE resultMap[k]]
    <2>1. \A k \in Jobs : resultMap'[k] = IF k \in S THEN "gone"
                                          ELSE IF k \in {j} THEN "running" ELSE resultMap[k]
      BY <1>1, <1>2 DEF Submit, NewId, resultMap, TypeOK
    <2> QED
      BY <2>1 DEF resultMap
  <1>5. Results!Forgetting(S, {j})
    BY <1>4 DEF Results!Forgetting
  <1> HIDE DEF JobInv
  <1> QED
    BY <1>3, <1>5, RoomIsMade DEF Results!TakeOn, Submit

LEMMA ListForgets ==
  ASSUME JobInv, List
  PROVE  Results!Forget
  <1> USE DEF JobInv
  <1>1. PICK S \in Droppable : store' = store \ S
    BY DEF List
  <1>2. S \in SUBSET store /\ \A k \in S : status[k] \in Terminal
    BY <1>1, DroppedAreEnded
  <1>3. resultMap' = [k \in Jobs |-> IF k \in S THEN "gone"
                                     ELSE IF k \in {} THEN "running" ELSE resultMap[k]]
    <2>1. \A k \in Jobs : resultMap'[k] = IF k \in S THEN "gone" ELSE resultMap[k]
      BY <1>1, <1>2 DEF List, resultMap, TypeOK
    <2> QED
      BY <2>1 DEF resultMap
  <1>4. Results!Forgetting(S, {})
    BY <1>3 DEF Results!Forgetting
  <1> HIDE DEF JobInv
  <1> QED
    BY <1>4, RoomIsMade DEF Results!Forget, List

LEMMA FinishConcludes ==
  ASSUME JobInv, NEW j \in Jobs, task[j] # "none", NEW o \in Terminal, Finish(j, o),
         UNCHANGED <<store, deleting, life>>
  PROVE  Results!Conclude(j)
  <1>1. j \in store /\ status[j] = "running"
    BY DEF JobInv, RunningNeverDropped, Live, Paired
  <1>2. resultMap' = [resultMap EXCEPT ![j] = o]
    BY <1>1 DEF Finish, resultMap, JobInv, TypeOK
  <1>3. resultMap[j] = "running"
    BY <1>1 DEF resultMap
  <1> QED
    BY <1>2, <1>3 DEF Results!Conclude, Results!Final

LEMMA TaskIsInvisible ==
  ASSUME NEW j \in Jobs, Acquired(j) \/ RunEnds(j) \/ CliEnds(j) \/ Struck(j)
  PROVE  SameView
  BY DEF Acquired, RunEnds, CliEnds, Struck, SameView, Results!resultVars, resultMap

LEMMA DeleteAsks ==
  ASSUME JobInv, NEW c \in Callers, NEW j \in Jobs, Delete(c, j)
  PROVE  Results!Ask(c, j)
  <1>1. status[j] # "unknown" /\ status[j] # "absent" /\ status[j] # "gone"
    BY DEF Delete, JobInv, RunningNeverDropped, Live, Paired, TypeOK
  <1>2. resultMap[j] \notin {"absent", "gone"}
    BY <1>1 DEF Delete, resultMap
  <1>3. resultMap' = resultMap
    BY DEF Delete, resultMap
  <1> QED
    BY <1>2, <1>3 DEF Delete, Results!Ask

LEMMA AnswerReplies ==
  ASSUME JobInv, NEW c \in Callers, Answer(c)
  PROVE  Results!Reply(c)
  <1> DEFINE j == deleting[c]
  <1>1. j \in Jobs /\ task[j] = "none"
    BY DEF Answer, Done, JobInv, TypeOK
  <1>2. status[j] \in Terminal
    BY <1>1 DEF Answer, JobInv, TypeOK, Paired, AskedKnown
  <1>3. resultMap[j] \in Results!Final \cup {"gone"}
    BY <1>1, <1>2 DEF resultMap, Results!Final
  <1>4. resultMap' = resultMap
    BY DEF Answer, resultMap
  <1> QED
    BY <1>3, <1>4 DEF Answer, Results!Reply

LEMMA DownCloses ==
  ASSUME JobInv, Down
  PROVE  Results!Close
  <1>1. Results!Unfinished = {}
    BY Views DEF Down, Done, Live
  <1>2. resultMap' = resultMap
    BY DEF Down, resultMap
  <1> QED
    BY <1>1, <1>2 DEF Down, Results!Close

LEMMA StoreStepsMap == JobInv /\ [Next]_vars => [Results!ResultNext]_(Results!resultVars)
  <1> SUFFICES ASSUME JobInv, [Next]_vars
               PROVE  Results!ResultNext \/ SameView
    BY DEF SameView
  <1>1. ASSUME NEW j \in Jobs, JobStep(j) PROVE Results!ResultNext \/ SameView
    <2>1. CASE Submit(j)
      BY <2>1, SubmitTakesOn DEF Results!ResultNext
    <2>2. CASE Refused(j) \/ Released(j) \/ Unwound(j)
      BY <2>2, FinishConcludes DEF Refused, Released, Unwound, JobInv, Settled, Results!ResultNext
    <2> QED
      BY <1>1, <2>1, <2>2, TaskIsInvisible DEF JobStep
  <1>2. ASSUME NEW c \in Callers, Answer(c) \/ \E j \in Jobs : Delete(c, j)
        PROVE  Results!ResultNext
    BY <1>2, DeleteAsks, AnswerReplies DEF Results!ResultNext
  <1>3. CASE List \/ Down
    BY <1>3, ListForgets, DownCloses DEF Results!ResultNext
  <1>4. CASE Shutdown \/ Finished \/ UNCHANGED vars
    BY <1>4 DEF Shutdown, Finished, vars, SameView, Results!resultVars, resultMap
  <1> QED
    BY <1>1, <1>2, <1>3, <1>4 DEF Next

\* Through cancellation, trimming and shutdown the store keeps what ResultStore promises.
THEOREM StoreKeepsResults == Spec => KeepsResults
  BY InitialView, StoreStepsMap, JobInvariant, PTL DEF Spec, KeepsResults, Results!ResultSpec

----------------------------------------------------------------------------
(* One DELETE at a time *)

OneCaller == \A c, d \in Callers : c = d

\* A running worker has a task that will see its end.
Attended == \A j \in Jobs : cli[j] = "running" => task[j] \in {"run", "struck", "release"}

\* A task that outlives its cancellation is awaited by a DELETE.
Awaited == \A j \in Jobs :
             task[j] = "struck" \/ (task[j] = "release" /\ cli[j] = "running")
               => \E c \in Callers : deleting[c] = j

Escort == life = "up" => Attended /\ Awaited

EscortInv == JobInv /\ Escort

LEMMA EscortInit == Init => Escort
  BY DEF Init, Escort, Attended, Awaited

LEMMA EscortThroughTasks ==
  ASSUME EscortInv, NEW j \in Jobs, JobStep(j)
  PROVE  Escort'
  <1> USE DEF EscortInv, Escort, Attended, Awaited, JobInv, TypeOK
  <1>1. CASE Submit(j)
    BY <1>1 DEF Submit, NewId, Paired
  <1>2. CASE Acquired(j)
    BY <1>2 DEF Acquired
  <1>3. CASE Refused(j)
    BY <1>3 DEF Refused, Finish
  <1>4. CASE RunEnds(j)
    BY <1>4 DEF RunEnds
  <1>5. CASE CliEnds(j)
    BY <1>5 DEF CliEnds
  <1>6. CASE Struck(j)
    BY <1>6 DEF Struck
  <1>7. CASE Released(j)
    BY <1>7 DEF Released, Finish
  <1>8. CASE Unwound(j)
    BY <1>8 DEF Unwound, Finish
  <1> QED
    BY <1>1, <1>2, <1>3, <1>4, <1>5, <1>6, <1>7, <1>8 DEF JobStep

LEMMA EscortThroughDelete ==
  ASSUME OneCaller, EscortInv, NEW c \in Callers, NEW j \in Jobs, Delete(c, j)
  PROVE  Escort'
  <1> USE DEF EscortInv, JobInv, TypeOK
  <1>1. life = "up" /\ Attended /\ Awaited
    BY DEF Delete, Escort
  <1>2. \A k \in Jobs : task[k] # "struck" /\ (task[k] = "release" => cli[k] # "running")
    BY <1>1, JobStoreAssumption DEF Delete, OneCaller, Awaited
  <1>3. deleting'[c] = j /\ cli' = cli
    BY DEF Delete
  <1>4. \A k \in Jobs : task'[k] = IF k \notin {j} \cap Live THEN task[k]
                                   ELSE IF task[k] \in {"run", "struck"} THEN "struck" ELSE "unwind"
    BY DEF Delete, CancelTasks
  <1>5. Attended'
    BY <1>1, <1>2, <1>3, <1>4 DEF Attended
  <1>6. Awaited'
    BY <1>2, <1>3, <1>4 DEF Awaited
  <1> QED
    BY <1>5, <1>6 DEF Escort

LEMMA EscortThroughAnswer ==
  ASSUME OneCaller, EscortInv, NEW c \in Callers, Answer(c)
  PROVE  Escort'
  <1> USE DEF EscortInv, JobInv, TypeOK
  <1>1. ASSUME NEW k \in Jobs, NEW d \in Callers, deleting[d] = k PROVE task[k] = "none"
    BY <1>1 DEF OneCaller, Answer, Done
  <1> QED
    BY <1>1 DEF Answer, Escort, Attended, Awaited

LEMMA EscortKept ==
  ASSUME OneCaller
  PROVE  EscortInv /\ [Next]_vars => EscortInv'
  <1> SUFFICES ASSUME EscortInv, [Next]_vars PROVE Escort'
    BY JobStepKeeps DEF EscortInv
  <1>1. CASE List \/ Finished \/ UNCHANGED vars
    BY <1>1 DEF List, Finished, vars, EscortInv, Escort, Attended, Awaited
  <1>2. CASE Shutdown \/ Down
    BY <1>2 DEF Shutdown, Down, Escort
  <1> QED
    BY <1>1, <1>2, EscortThroughTasks, EscortThroughDelete, EscortThroughAnswer DEF Next

\* With one DELETE at a time its answer is a fact: the job's worker has ended.  Two
\* at a time break it (run jobs_double_delete), so the assumption is needed.
THEOREM OneDeleteIsHonest ==
  ASSUME OneCaller
  PROVE  Spec => DeleteAnswersAfterKill
  <1>1. Init => EscortInv
    BY JobInit, EscortInit DEF EscortInv
  <1>2. EscortInv /\ [Next]_vars =>
          [\A c \in Callers : life = "up" /\ Answer(c) => cli[deleting[c]] # "running"]_vars
    BY DEF EscortInv, Escort, Attended, Answer, Done, JobInv, TypeOK
  <1> QED
    BY <1>1, <1>2, EscortKept, PTL DEF Spec, DeleteAnswersAfterKill
=============================================================================
