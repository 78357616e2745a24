SPECIFICATION Spec
CONSTANTS
  Rows = 3
  Cols = 3
  Channels = 1
  PoolSize = 9
  TileWork <- OneElement
  MirrorAliases = FALSE
  Images <- AllImages
  ITERATIONS = 2
INVARIANTS
  TypeOK
  BorderBlack
  IInv
  OneWriter
PROPERTIES
  KernelInputStable
  SmoothsWholeImage
