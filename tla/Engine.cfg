CONSTANTS
  Modes = {TRUE, FALSE}
  CapacityFrames = 3
  BlockSizes = {1, 3}
  DrainFrames = 2
  FftSize = 2
  Hop = 1
  FinderSize = 3
  DelayCapacity = 3
  Estimates <- SomeEstimates
  MostFrames = 3
  Delays = {2}
  Lengths = {0, 3}
  MaxOffered = 5
  MaxCalls = 2
SPECIFICATION FairSpec
CHECK_DEADLOCK FALSE
INVARIANTS
  HandedIsComplete
  GapsAreStamped
  ResetIsNotLost
  WindowIsFresh
  PublicationKeepsUp
PROPERTIES
  StopReturns
  RecordingFills
