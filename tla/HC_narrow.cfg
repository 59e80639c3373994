SPECIFICATION HaloSpec
CONSTANTS
  Grids <- NarrowGrids
  Splits <- OneRank
  Cases <- NarrowCases
  NumberOfH = 4
  NarrowBlocks = TRUE
INVARIANTS GhostsFromInterior
CHECK_DEADLOCK FALSE
