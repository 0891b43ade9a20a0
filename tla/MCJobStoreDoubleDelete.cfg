\* Two clients delete the same job.
SPECIFICATION Spec
CONSTANTS
  Jobs = {j1, j2}
  Callers = {c1, c2}
  NoJob = NoJob
  MaxJobs = 2
PROPERTY DeleteAnswersAfterKill
