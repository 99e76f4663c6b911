SPECIFICATION Spec
CONSTANTS
  FullScale = 16
  Magnitude <- FewBits
  MostBytes = 120
  Parts = 2
  MostRate = 16
  Numbers <- NumberTokens
  Commands <- TestCommands
  Disks <- TestDisks
  Waves <- TestWaves
  ReportRows <- TestRows
  TornLevels <- LevelsCut
  RingFrames = 4
  Slack = 1
  MaxRuns = 2
  Grain = 8
  Block = 2
  Headroom = 1
  MaxPublished = 2
INVARIANTS
  HeardIsSource
  HalfFilesRefused
  FailureIsContained
  GeneratedReadsBack
  ToleranceHolds
PROPERTIES
  Exits
CHECK_DEADLOCK FALSE
