SPECIFICATION ProgramSpec
CONSTANTS
  Rows = 3
  Cols = 3
  Channels = 2
  PoolSize = 2
  TileWork <- OnePixel
  MirrorAliases = TRUE
  ITERATIONS = 2
  NoisedMats <- NoMats
  OutsideContents <- Surroundings
  NOISE_ITER = 2
  Pictures <- OnePicture
  NoiseFields <- TwoDraws
  Garbage <- Remains
INVARIANTS
  TypeOK
  LightCone
  WholePixels
  DeliveredCore
  JacobiInv
PROPERTIES
  NoisesAndSaves
  Ends
