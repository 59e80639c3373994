SPECIFICATION Spec
CONSTANTS
  MultiSample = 2
  MultiSpatial = 1
  NumberOfSamples = 4
  SampleStart = 0
  Lengths <- OneParameter
  StepSizes <- OneOrThree
  EndTime = 6
  SampleInterval = 3
  StatisticsInterval = 2
  WriteInitialTimestep = TRUE
  BallTime = 1
  BallRadius = 1
  MayThrow = FALSE
INVARIANTS IndependentSamples
CHECK_DEADLOCK FALSE
