\* The six collectors and listings of three items that change under them.
CONSTANTS
  Configs <- AllCollectors
  MaxItems = 4
  Backlog = 3
  Cap = 3
  MaxRev = 2
  MaxTime = 2
  Limits = {1, 3}
  MidWalk = {}
  Window = 3
  MaxMissing = 1
  PageSize = 2
  MaxPerPage = 2
  SearchCap = 4
  Refresh = 2
  None = None

SPECIFICATION FairSpec

INVARIANTS
  Inv
  ValidatorHidesNothing
  NothingBehindWatermark
  ChangedFeedRestarts
PROPERTIES
  SourceIsMirrored
  RecentThreadsAreRead
  EveryWalkEnds
