\* Every nondeterminism of the environment at once: spawns fail, processes die,
\* callers give up, the pool drains, sweeps and stops.
SPECIFICATION RefusalSpec
CONSTANTS
  Requests = {r1, r2, r3}
  Workers = {w1, w2, w3, w4}
  NoWorker = NoWorker
  MinWorkers = 1
  MaxWorkers = 3
  IdleScaleToZero = TRUE
  SpawnMayFail = TRUE
  RenotifyOnCancel = FALSE
  GrowBound = 3
SYMMETRY RefusalSymmetry
INVARIANTS
  TypeOK
  ProcessesWithinMax
  CountIsExact
  SoleOwner
  NoOrphan
  WaitingIsExact
  StoppedIsEmpty
PROPERTIES
  SweepSparesTheBusyPool
  KeepsLease
  RefusalIsFresh
