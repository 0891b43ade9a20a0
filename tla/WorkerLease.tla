--------------------------- MODULE WorkerLease ----------------------------
(* What WorkerPool promises (src/claude_pool/pool.py, README.md): a bounded  *)
(* number of workers, each of which is provided, lent to one request at      *)
(* most, retired, and forgotten when its process has ended.  A worker never  *)
(* returns from a request to the pool.                                       *)
(*                                                                           *)
(* No locks, counters, waiters, tasks or shutdown: module Pool implements    *)
(* this one, and there they are.                                             *)
EXTENDS Integers, FiniteSets

CONSTANTS
  Borrowers,
  Workers,
  NoWorker,
  Limit      \* how many workers there may be at a time

VARIABLES
  stage,   \* of a worker: "absent", "ready", "lent" or "retired"
  running, \* the workers whose process has not ended
  lease    \* the worker of a borrower

leaseVars == <<stage, running, lease>>

At(s) == {w \in Workers : stage[w] = s}

Move(S, s) == stage' = [w \in Workers |-> IF w \in S THEN s ELSE stage[w]]

Provide(w) ==
  /\ stage[w] = "absent"
  /\ Cardinality(Workers \ At("absent")) < Limit
  /\ Move({w}, "ready")
  /\ running' = running \cup {w}
  /\ UNCHANGED lease

Ends(w) ==
  /\ w \in running
  /\ running' = running \ {w}
  /\ UNCHANGED <<stage, lease>>

\* Ready workers that have ended are of no use to anybody.
Discard(S) ==
  /\ S \subseteq At("ready") \ running
  /\ Move(S, "absent")
  /\ UNCHANGED <<running, lease>>

\* Those found on the way to a better one are discarded.
Lend(b, w, S) ==
  /\ lease[b] = NoWorker /\ stage[w] = "ready"
  /\ S \subseteq At("ready") \ (running \cup {w})
  /\ lease' = [lease EXCEPT ![b] = w]
  /\ stage' = [v \in Workers |-> IF v = w THEN "lent" ELSE IF v \in S THEN "absent" ELSE stage[v]]
  /\ UNCHANGED running

GiveBack(b) ==
  /\ lease[b] # NoWorker
  /\ Move({lease[b]}, "retired")
  /\ lease' = [lease EXCEPT ![b] = NoWorker]
  /\ UNCHANGED running

Retire(S) ==
  /\ S \subseteq At("ready")
  /\ Move(S, "retired")
  /\ UNCHANGED <<running, lease>>

\* Only a worker whose process has ended makes room for another.
Forget(w) ==
  /\ stage[w] = "retired" /\ w \notin running
  /\ Move({w}, "absent")
  /\ UNCHANGED <<running, lease>>

LeaseInit ==
  /\ stage = [w \in Workers |-> "absent"]
  /\ running = {}
  /\ lease = [b \in Borrowers |-> NoWorker]

LeaseNext ==
  \/ \E w \in Workers : Provide(w) \/ Ends(w) \/ Forget(w)
  \/ \E S \in SUBSET Workers : Discard(S) \/ Retire(S)
  \/ \E b \in Borrowers, w \in Workers, S \in SUBSET Workers : Lend(b, w, S)
  \/ \E b \in Borrowers : GiveBack(b)

LeaseSpec == LeaseInit /\ [][LeaseNext]_leaseVars
=============================================================================
