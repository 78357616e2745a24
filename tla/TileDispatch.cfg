SPECIFICATION Spec
CONSTANTS
  MaxExtent = 3
  MaxChunk = 3
  MaxPool = 7
INVARIANTS
  EachTileOnce
  TilesAreElements
CHECK_DEADLOCK FALSE
