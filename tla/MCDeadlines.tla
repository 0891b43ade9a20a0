--------------------------- MODULE MCDeadlines ---------------------------
(* Deadlines for TLC; the constants are small lengths in a common unit.      *)
EXTENDS Deadlines
=============================================================================
