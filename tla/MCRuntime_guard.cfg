\* Two sources that share one permit: rate limits, open circuits, locked
\* databases, restarts and --once.
CONSTANTS
  Sources = {a, b}
  Concurrency = 1
  Threshold = 3
  Interval = 2
  Base = 1
  Cooldown = 3
  Delays = {1, 3}
  LockFaults = TRUE

SPECIFICATION FairSpec

INVARIANT Inv
PROPERTIES
  FailuresSurvive
  RateLimitRespected
  EverySourceIsPolled
