CONSTANTS
  Playing = TRUE
  SweepFrames = 3
  TailFrames = 6
  CapacityFrames = 2
  DrainFrames = 2
  BlockSizes = {2}
  MaxRuns = 1
  MaxChanges = 0
  MaxOffered = 12
SPECIFICATION MeasurementSpec
CHECK_DEADLOCK FALSE
INVARIANTS
  ArrivalIsTheLag
