-------------------------- MODULE MCPoolRefusals --------------------------
(* PoolRefusals on small sets for TLC.                                       *)
EXTENDS PoolRefusals, TLC

RefusalSymmetry == Permutations(Requests) \cup Permutations(Workers)
=============================================================================
