SPECIFICATION Spec
CONSTANTS
  Rows = 2
  Cols = 2
  Channels = 1
  PoolSize = 2
  TileWork <- OneElement
  MirrorAliases = FALSE
  Images <- GradientOnly
  ITERATIONS = 1
INVARIANTS
  BlackUsesFreshRed
