SPECIFICATION Spec
CONSTANTS
  Ranks <- ThreeRanks
  Dimensions = 2
  Neighbours <- RowOfThree
  Substeps = 3
  WaveSpeeds = {1}
  Cfl = 2
  EndTime = 2
  MayThrow = TRUE
INVARIANTS NoStaleHalo ThrowStopsAll CFLHolds
PROPERTY ImplementsLockstep
CHECK_DEADLOCK FALSE
