SPECIFICATION Spec
CONSTANTS
  PoolSize = 4
  Programs <- FewPrograms
  IntMax = 8
CHECK_DEADLOCK FALSE
INVARIANTS
  TeamInv
  AtMostOnce
  AllExecuted
  NoLapping
  NobodyStealsEarly
  BarrierReusable
PROPERTIES
  LaunchesReturn
