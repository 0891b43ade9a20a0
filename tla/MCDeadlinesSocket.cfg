\* The proportions of the defaults, with the same default on both sides: a wait for a
\* worker that is longer than the grace.
SPECIFICATION Spec
CONSTANTS
  MaxTries = 1
  AcquireTimeout = 2
  LockTime = 0
  TimeoutSec = 3
  DefaultTimeout = 3
  ClientDefault = 3
  ReleaseTime = 0
  Grace = 1
  PollInterval = 1
  Latency = 0
  WaitTimeout = 3
  Retention = 3
INVARIANT HearsTheDaemon
