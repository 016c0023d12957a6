\* Two runs of one source at once, the worker and a one-shot collect; two
\* items, the first one filtered and both of them edited.
CONSTANTS
  Events = {1, 2}
  Payloads = {p, q}
  Sinks = {}
  None = None
  Runs = {r1, r2}
  Horizon = 2
  Filtered = {1}
  Limit = 2
  MaxPages = 2

SPECIFICATION FairSpec

INVARIANTS
  Inv
  NoGap
PROPERTIES
  CheckpointKept
  EverythingCollected
