SPECIFICATION ProgramSpec
CONSTANTS
  Rows = 2
  Cols = 2
  Channels = 2
  Images <- NoStart
  NOISE_ITER = 3
  Pictures <- TwoPictures
  NoiseFields <- TwoDraws
  Garbage <- Remains
  PoolSize = 6
  TileWork <- OneElement
  MirrorAliases = TRUE
  ITERATIONS = 2
INVARIANTS
  StageTypeOK
  IInv
PROPERTIES
  Denoises
  Returns
