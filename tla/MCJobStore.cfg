\* One DELETE at a time, more jobs than the store keeps.
SPECIFICATION FairSpec
CONSTANTS
  Jobs = {j1, j2, j3}
  Callers = {c1}
  NoJob = NoJob
  MaxJobs = 1
INVARIANTS
  TypeOK
  RunningNeverDropped
  ShutdownEndsJobs
PROPERTIES
  KeepsResults
  DeleteAnswersAfterKill
  EveryJobEnds
