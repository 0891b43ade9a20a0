--------------------------- MODULE PoolRefusals ---------------------------
(* Pool with a memory of failed spawns.  _last_spawn_error stays set until a *)
(* spawn succeeds, however long that takes, and decides over callers that    *)
(* came later; `seen` keeps apart for whom a recorded failure is news.       *)
EXTENDS Pool

VARIABLE seen  \* the callers inside wait() that were there when a spawn failed

SpawnFails == \E w \in Workers : proc[w] = "starting" /\ proc'[w] = "none"

\* What a caller has seen counts until it leaves wait() for good.
Remember == seen' = (IF SpawnFails THEN seen \cup Waiters ELSE seen) \cap Waiters'

RefusalSpec ==
  /\ Init /\ seen = {}
  /\ [][Next /\ Remember]_<<vars, seen>>

\* pool.py:163-172: a waiter is told that a spawn failed only when one has failed
\* while it waited, never for a failure from before its time that nobody has
\* cleared: an old error and a wake-up for another reason do not refuse it.
RefusalIsFresh ==
  [][\A r \in Requests :
       life = "up" /\ pc[r] = "woken" /\ pc'[r] = "out" => r \in seen]_<<vars, seen>>
=============================================================================
