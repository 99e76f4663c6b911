CONSTANTS
  Playing = TRUE
  SweepFrames = 3
  TailFrames = 6
  CapacityFrames = 2
  DrainFrames = 2
  BlockSizes = {2}
  MaxRuns = 2
  MaxChanges = 1
  MaxOffered = 12
SPECIFICATION MeasurementSpec
CHECK_DEADLOCK FALSE
INVARIANTS
  SessionAgrees
  ResultHoldsSweep
