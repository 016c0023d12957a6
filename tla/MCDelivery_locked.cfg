\* A store call of a worker meets a locked database.
CONSTANTS
  Events = {e1}
  Payloads = {p}
  Sinks = {s1}
  None = None
  Backfill = {s1}
  BatchSize = 1
  MaxAttempts = 2
  Dedup = FALSE
  MaxLate = 0
  LockFaults = TRUE

SPECIFICATION FairSpec

PROPERTY OpenRowsSettle
