SPECIFICATION Spec
CONSTANTS
  UMod = 65536
  FirstSize = 1
  LargeSegment = 1
  Blocks <- MC_Blocks
  Vnodes = {1, 2, 3}
  MaxBlk = 5
  Traces <- MC_Traces
  Reads = 4
  MaxTime = 28
  cachesize = 7
  SeqSize = 1
  FreeSizes = {0, 1}
  MINIMUMLRUSIZE = 1
  MAXSEQLOOPs = 2
  thresholdSeQSize = 3
  expo_alpha = 50
  AgeEvery = 5
  HalveEvery = 5
INVARIANTS
  TypeOK
  LruIsRecency
  PeriodsMeasured
  HitRatioAtMostOne
PROPERTIES
  UsesQueue
  Termination
