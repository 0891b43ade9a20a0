\* Liveness in the hostile environment of MCPoolSafety.cfg.
SPECIFICATION FairSpec
CONSTANTS
  Requests = {r1, r2}
  Workers = {w1}
  NoWorker = NoWorker
  MinWorkers = 1
  MaxWorkers = 1
  IdleScaleToZero = TRUE
  SpawnMayFail = TRUE
  RenotifyOnCancel = FALSE
  GrowBound = 2
PROPERTIES
  EveryRequestAnswered
  HandedOutWorkerDies
  StopReturns
