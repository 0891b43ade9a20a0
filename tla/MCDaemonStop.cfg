\* One operator; SIGTERM.
SPECIFICATION Spec
CONSTANTS
  Pids = {p1, p2}
  NoPid = NoPid
  Ports = {a, b}
  Commands = {c1}
  Terminators = {"SIGTERM"}
  HardKills = FALSE
  SlowPorts = {}
SYMMETRY DaemonSymmetry
PROPERTY StoppedIsGone
