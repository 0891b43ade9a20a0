---------------------------- MODULE MCService ----------------------------
(* Service on small sets for TLC.                                            *)
EXTENDS Service, TLC

ServiceSymmetry == Permutations(Workers) \cup Permutations(Jobs)
=============================================================================
