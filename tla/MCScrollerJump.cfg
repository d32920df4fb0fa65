CONSTANTS
  MaxLoads = 1
  Screen <- MCScreen
  TileSizes <- MCTileSizes
  LayerSizes <- MCLayerSizes
  Heros <- MCHeros
SPECIFICATION Spec
INVARIANT DrawsMapTiles
