CONSTANTS
  MaxLoads = 2
  Screen <- MCScreen
  TileSizes <- MCTileSizes
  LayerSizes <- MCLayerSizes
  Heros <- MCHeros
SPECIFICATION Spec
PROPERTY OffsetIsDrawn
