\* The pool drains to zero; nothing else is out of the ordinary.
SPECIFICATION Spec
CONSTANTS
  Requests = {r1, r2}
  Workers = {w1}
  NoWorker = NoWorker
  MinWorkers = 1
  MaxWorkers = 1
  IdleScaleToZero = TRUE
  SpawnMayFail = FALSE
  RenotifyOnCancel = TRUE
  GrowBound = 2
INVARIANT DrainedPoolServes
