\* An RSS feed that loses and reorders entries in the middle of a walk.
CONSTANTS
  Configs <- Feed
  MaxItems = 4
  Backlog = 3
  Cap = 3
  MaxRev = 2
  MaxTime = 1
  Limits = {1, 2}
  MidWalk = {"rss"}
  Window = 3
  MaxMissing = 1
  PageSize = 2
  MaxPerPage = 2
  SearchCap = 4
  Refresh = 2
  None = None

SPECIFICATION Spec

INVARIANT ChangedFeedRestarts
