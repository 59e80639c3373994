SPECIFICATION Spec
CONSTANTS
  Dimensions = 2
  Schemes <- PlaneSchemes
  Sizes <- PlaneSizes
INVARIANT DiffusionReadsItsRow
CHECK_DEADLOCK FALSE
