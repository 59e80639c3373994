SPECIFICATION Spec
CONSTANTS
  Setups <- LaterBall
  RoundedSetups = {}
  StepSizes = {2, 5}
  CellLength = 1
  EndTime = 12
  MaxSaves = 6
INVARIANTS WeightsCoverBall
CHECK_DEADLOCK FALSE
