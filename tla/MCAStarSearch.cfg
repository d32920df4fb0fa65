CONSTANTS
  MaxNodes = 14
  MaxSearches = 2
  Maps <- MCMaps
  Starts <- MCStarts
  Goals <- MCGoals
SPECIFICATION Spec
INVARIANTS TypeOK NodesAccounted OneNodePerTile PoppedChainSound NoNullFollowed
PROPERTY ReachedTilesKept
