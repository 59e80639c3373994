SPECIFICATION HaloSpec
CONSTANTS
  Grids <- HaloGrids
  Splits <- HaloSplits
  Cases <- HaloCases
  NumberOfH = 4
  NarrowBlocks = FALSE
INVARIANTS CellsRight ReceiveFillsGhostLayer StripsCorrespond PairsOfLine
PROPERTY EverySideFilled
CHECK_DEADLOCK FALSE
