SPECIFICATION SpecIdeal
CONSTANTS
  Rows = 4
  Cols = 5
  Channels = 2
  PoolSize = 3
  TileWork <- PairsInFour
  MirrorAliases = FALSE
  ITERATIONS = 2
  Images <- OneImage
INVARIANTS
  FeedsBackSquare
  DeliversSquare
  WavefrontInv
PROPERTIES
  DiagonalInputStable
  Returns
