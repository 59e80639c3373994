SPECIFICATION FileSpec
CONSTANTS
  Grids <- SmallGrids
  Splits <- SmallSplits
  Writers <- FileWriters
INVARIANTS TypeOK NeighboursAgree BlocksPartition BlocksAbut KeptAtEnds EqualGridsInOrder
CHECK_DEADLOCK FALSE
