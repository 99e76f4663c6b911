CONSTANTS
  Size = 4
  DelayCapacity = 3
  BlockSizes = {1, 2, 6}
  Delays = {0, 2, 3, 5}
  MaxSamples = 9
  MaxDelayChanges = 2
  MaxResets = 1
SPECIFICATION FramingSpec
CHECK_DEADLOCK FALSE
INVARIANTS
  ReferenceIsDelayed
  FramesAreWindows
