SPECIFICATION Spec
CONSTANTS
  Dimensions = 3
  Schemes <- SpaceSchemes
  Sizes <- SpaceSizes
INVARIANTS TypeOK EachCellOnce WaveSpeedOfAllFaces InnerDependsOnInterior InnerTouchesInterior FacesAreFilled
CHECK_DEADLOCK FALSE
