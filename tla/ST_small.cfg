SPECIFICATION Spec
CONSTANTS
  Setups <- SaverSetups
  RoundedSetups <- RoundedFixedSetups
  StepSizes = {1, 2, 5}
  CellLength = 1
  EndTime = 12
  MaxSaves = 8
INVARIANTS TypeOK SavedOnTime EndsExactly WeightsCoverBall AverageOnce
PROPERTY StepsForward
CHECK_DEADLOCK FALSE
