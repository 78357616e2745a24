SPECIFICATION SpecBefore
CONSTANTS
  Rows = 2
  Cols = 2
  Channels = 1
  Programs <- OnlyJacobi
  ITERATIONS = 1
  NoisedMats <- Textures
  OutsideContents <- NothingInFront
INVARIANTS
  JacobiEquations
