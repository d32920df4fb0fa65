CONSTANTS
  MaxNodes = 19
  MaxSearches = 1
  Maps <- ExhaustingMaps
  Starts <- ExhaustingStarts
  Goals <- ExhaustingGoals
SPECIFICATION Spec
INVARIANT StartIsFirst
