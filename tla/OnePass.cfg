SPECIFICATION SpecStart
CONSTANTS
  Rows = 3
  Cols = 3
  Channels = 2
  PoolSize = 3
  PaddedMats <- OnePadded
  PlainMats <- OnePlain
  OutsideContents <- Surroundings
INVARIANTS
  Delivered
  ReadsNearView
  SmoothsComplete
  OnePassInv
PROPERTIES
  ProgramsEnd
