SPECIFICATION Spec
CONSTANTS
  f1 = f1
  f2 = f2
  f3 = f3
  f4 = f4
  Vnodes <- MC_Vnodes
  MaxBlk = 3
  MAXSEQLOOPs = 3
  thresholdSeQSize = 3
  expo_alpha = 50
  IRGs <- MC_IRGs
  MaxTime = 7
SYMMETRY Files
CHECK_DEADLOCK FALSE
INVARIANTS
  TypeOK
  OneUnitPerFile
  PeriodOfLoops
  PositionInRun
  RunWasRead
  RunsAreShort
  ScanPicksVictim
PROPERTIES
  EvictsShortest
