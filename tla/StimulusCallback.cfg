CONSTANTS
  SteadyFields = {"kind"}
  SweepFields = {"kind", "end_hz"}
  MaxCalls = 2
  MaxFrames = 3
  CapacityFrames = 3
  BlockSizes = {2, 4}
  MaxPublished = 2
  MaxOffered = 8
SPECIFICATION Spec
CHECK_DEADLOCK FALSE
INVARIANTS
  ReferenceIsPlayed
  NothingStalePlayed
  PlayedUnbroken
