SPECIFICATION Spec
CONSTANTS
  Ranks <- TwoRanks
  Dimensions = 1
  Neighbours <- RingOfTwo
  Substeps = 2
  WaveSpeeds = {1, 2}
  Cfl = 2
  EndTime = 2
  MayThrow = FALSE
INVARIANTS TypeOK NoStaleHalo SidesReadFreshGhosts MPISerialized SameClock CFLHolds ChannelBounded
PROPERTY Completes
