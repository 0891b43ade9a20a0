\* Two jobs and a /generate call on two workers, through the shutdown; no spawn fails,
\* the pool keeps its floor, and a cancelled waiter passes its wake-up on.
SPECIFICATION ServiceSpec
CONSTANTS
  Requests = {j1, j2, r1}
  Jobs = {j1, j2}
  Deleters = {d1}
  NoJob = NoJob
  MaxJobs = 1
  Workers = {w1, w2}
  NoWorker = NoWorker
  MinWorkers = 1
  MaxWorkers = 2
  IdleScaleToZero = FALSE
  SpawnMayFail = FALSE
  RenotifyOnCancel = TRUE
  GrowBound = 3
SYMMETRY ServiceSymmetry
INVARIANTS
  NoStrandedWaiter
  StopKillsTheRest
  NoJobOutlivesDaemon
PROPERTIES
  ServesJobs
  DrainReapsJobs
