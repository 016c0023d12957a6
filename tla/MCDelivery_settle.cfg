\* Two events that compete for a batch of one.
CONSTANTS
  Events = {e1, e2}
  Payloads = {p, q}
  Sinks = {s1}
  None = None
  Backfill = {s1}
  BatchSize = 1
  MaxAttempts = 2
  Dedup = FALSE
  MaxLate = 0
  LockFaults = FALSE

SPECIFICATION FairSpec

INVARIANT DeliveredIsHeld
PROPERTY OpenRowsSettle
