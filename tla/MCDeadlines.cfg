\* A grace that covers acquire and release, but not the daemon's longer default; results
\* are kept longer than a poll takes.
SPECIFICATION Spec
CONSTANTS
  MaxTries = 2
  AcquireTimeout = 1
  LockTime = 1
  TimeoutSec = 3
  DefaultTimeout = 5
  ClientDefault = 3
  ReleaseTime = 1
  Grace = 3
  PollInterval = 2
  Latency = 1
  WaitTimeout = 3
  Retention = 3
INVARIANTS
  TypeOK
  HeardIfGraceFits
  RetryRunsAlone
  WaitEndsInTime
  ResultIsCollected
