\* One source that asks once for a delay and says nothing of it again.
CONSTANTS
  Sources = {a}
  Concurrency = 1
  Threshold = 2
  Interval = 1
  Base = 1
  Cooldown = 1
  Delays = {2}
  LockFaults = FALSE

SPECIFICATION Spec

PROPERTY SuccessWaitsAsReported
