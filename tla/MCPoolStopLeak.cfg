\* An on-demand pool whose sweep has two workers to kill when stop() comes.
SPECIFICATION Spec
CONSTANTS
  Requests = {r1, r2}
  Workers = {w1, w2}
  NoWorker = NoWorker
  MinWorkers = 0
  MaxWorkers = 2
  IdleScaleToZero = FALSE
  SpawnMayFail = FALSE
  RenotifyOnCancel = TRUE
  GrowBound = 2
INVARIANT StopKillsTheRest
