------------------------------ MODULE MCPool ------------------------------
(* Pool on small sets for TLC.                                               *)
EXTENDS Pool, TLC

PoolSymmetry == Permutations(Requests) \cup Permutations(Workers)
=============================================================================
