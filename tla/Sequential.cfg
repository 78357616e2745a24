SPECIFICATION SpecBefore
CONSTANTS
  Rows = 2
  Cols = 7
  Channels = 2
  Programs <- Both
  ITERATIONS = 2
  NoisedMats <- Textures
  OutsideContents <- InFront
INVARIANTS
  TypeOK
  GaussSeidelEquations
  ReadsInBuffer
PROPERTIES
  SweepsEnd
