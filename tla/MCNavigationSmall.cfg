CONSTANTS
  MaxNodes = 9
  MaxSearches = 2
  MaxSteps = 5
  Maps <- SmallMaps
  Starts <- SmallStarts
  Goals <- SmallGoals
SPECIFICATION NavSpec
INVARIANTS NavTypeOK MemoryFreed StepIsOnPath FailureJustified
PROPERTIES GoToReturns UsesSearchLegally ImplementsPathWalk
