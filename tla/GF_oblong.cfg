SPECIFICATION FileSpec
CONSTANTS
  Grids <- OblongGrid
  Splits <- TwoRanks
  Writers = {"NetCDFMPIWriter"}
INVARIANTS FileInOrder
CHECK_DEADLOCK FALSE
