CONSTANTS
  Word = 64
  RectWord = 36
  MaxLoads = 2
  MaxParsed = 2
  Screen <- MCScreen
  TileSizes <- MCTileSizes
  LayerSizes <- MCLayerSizes
  Heros <- MCHeros
  Files <- MCFiles
  Sheet <- MCSheet
  Boxes <- MCBoxes
  Places <- MCPlaces
SPECIFICATION SceneSpec
INVARIANTS TypeOK ViewInBackground ShowsView ForegroundCovers
INVARIANTS PictureRight WallsBlock WallsAreFromFiles ClickHitsShownTile
PROPERTY DrawsMapTilesWalking
