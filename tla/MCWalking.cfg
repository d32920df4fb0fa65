CONSTANTS
  TileWidth = 32
  Box <- MCBox
  Unit = 10
  Strides <- BatStrides
  Offsets <- MCOffsets
  Drift = 26
  Paths <- MCPaths
SPECIFICATION Spec
INVARIANTS EndsNearGoal PositionDefined IdleAtGoal
PROPERTIES WalkEnds MovesAsShown
