SPECIFICATION Spec
CONSTANTS
  b1 = b1
  b2 = b2
  b3 = b3
  b4 = b4
  b5 = b5
  Blocks <- MC_Blocks
  IRGs <- MC_IRGs
  Correlated = 1
  AgeEvery = 3
  MaxTime = 8
  INFINITY = 100
SYMMETRY Symmetric
CHECK_DEADLOCK FALSE
INVARIANTS
  TypeOK
  IndexExact
PROPERTIES
  HitTakesItself
  IsPriorityQueue
