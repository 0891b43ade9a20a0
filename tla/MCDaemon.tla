----------------------------- MODULE MCDaemon -----------------------------
(* Daemon for TLC: processes and ports are interchangeable.                *)
EXTENDS Daemon, TLC

DaemonSymmetry == Permutations(Pids) \cup Permutations(Ports)
=============================================================================
