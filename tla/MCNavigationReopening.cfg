CONSTANTS
  MaxNodes = 24
  MaxSearches = 1
  MaxSteps = 600
  Maps <- ReopeningMaps
  Starts <- ReopeningStarts
  Goals <- ReopeningGoals
SPECIFICATION NavSpec
INVARIANT PathWithinTwice
PROPERTIES ImplementsPathWalk
