---------------------------- MODULE MCJobStore ----------------------------
(* JobStore on small sets for TLC.                                           *)
EXTENDS JobStore, TLC

JobSymmetry == Permutations(Jobs)
=============================================================================
