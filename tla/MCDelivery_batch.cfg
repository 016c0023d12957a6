\* One sink, two events: batches, order within the outbox, stale reads,
\* late requests, restarts and locked databases.
CONSTANTS
  Events = {e1, e2}
  Payloads = {p, q}
  Sinks = {s1}
  None = None
  Backfill = {s1}
  BatchSize = 2
  MaxAttempts = 2
  Dedup = FALSE
  MaxLate = 1
  LockFaults = TRUE

SPECIFICATION Spec

INVARIANTS
  Inv
  BusyRowsAreOpen
  BudgetRespected
  OutboxComplete
  DeliveredWasReceived
PROPERTIES
  BudgetNeverRefunded
  ImplementsAtLeastOnce
