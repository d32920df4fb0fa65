CONSTANTS
  MaxNodes = 20
  MaxSearches = 1
  MaxSteps = 600
  Maps <- DetourMaps
  Starts <- DetourStarts
  Goals <- DetourGoals
SPECIFICATION NavSpec
INVARIANT ShortestPath
