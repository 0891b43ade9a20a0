\* One operator, one command after the other; either way to end a daemon, and daemons that crash.
SPECIFICATION FairSpec
CONSTANTS
  Pids = {p1, p2, p3}
  NoPid = NoPid
  Ports = {a, b}
  Commands = {c1}
  Terminators = {"SIGTERM", "taskkill"}
  HardKills = TRUE
  SlowPorts = {b}
INVARIANTS
  TypeOK
  ServingDaemonIsNamed
PROPERTIES
  StartFindsPortFree
  DaemonSettles
