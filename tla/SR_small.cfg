SPECIFICATION Spec
CONSTANTS
  MultiSample = 3
  MultiSpatial = 2
  NumberOfSamples = 6
  SampleStart = 0
  Lengths <- OneParameter
  StepSizes <- OneOrThree
  EndTime = 6
  SampleInterval = 3
  StatisticsInterval = 2
  WriteInitialTimestep = TRUE
  BallTime = 1
  BallRadius = 1
  MayThrow = TRUE
INVARIANTS TypeOK CollectivesMatch FilesHoldSamples StatisticsOfAllSamples
PROPERTY Completes
CHECK_DEADLOCK FALSE
