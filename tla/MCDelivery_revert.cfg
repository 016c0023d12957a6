\* A consumer that honours the idempotency key, and an event that changes back.
CONSTANTS
  Events = {e1}
  Payloads = {p, q}
  Sinks = {s1}
  None = None
  Backfill = {s1}
  BatchSize = 1
  MaxAttempts = 2
  Dedup = TRUE
  MaxLate = 0
  LockFaults = FALSE

SPECIFICATION Spec

INVARIANT DeliveredIsHeld
