CONSTANTS
  TileWidth = 32
  Box <- MCBox
  Unit = 10
  Strides <- HeroStrides
  Offsets <- MCOffsets
  Drift = 26
  Paths <- MCPaths
SPECIFICATION Spec
INVARIANT ArrivesOnGoal
