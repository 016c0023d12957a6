\* Three requests that share two permits, or that follow one another.
CONSTANTS
  Total = 3
  Modes <- EveryMode
  Capacity = 2
  MaxAttempts = 3
  Backoffs = {0, 1}
  MaxDelay = 2
  RetryAfters = {3}
  Deadlines <- GivenTimes
  Revocations = 2
  None = None

SPECIFICATION FairSpec

INVARIANTS
  Inv
  SleepFits
  EffortBounded
PROPERTIES
  NothingSentLate
  RetryAfterHonoured
  EveryCallEnds
