\* The smallest instance in which an event changes while it is in flight.
CONSTANTS
  Events = {e1}
  Payloads = {p, q}
  Sinks = {s1}
  None = None
  Backfill = {s1}
  BatchSize = 1
  MaxAttempts = 2
  Dedup = FALSE
  MaxLate = 0
  LockFaults = FALSE

SPECIFICATION Spec

PROPERTY RetryBudgetSpent
