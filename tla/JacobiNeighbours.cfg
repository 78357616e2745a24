SPECIFICATION SpecIdeal
CONSTANTS
  Rows = 1
  Cols = 1
  Channels = 1
  PoolSize = 1
  TileWork <- OnePixel
  MirrorAliases = FALSE
  ITERATIONS = 1
  NoisedMats <- OneMat
  OutsideContents <- Surroundings
PROPERTIES
  NeighboursArePixels
