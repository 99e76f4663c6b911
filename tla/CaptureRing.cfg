CONSTANTS
  Channels = 2
  CapacityFrames = 3
  WriteSizes = {1, 2, 4, 6, 8}
  ReadSizes = {1, 3, 4, 8}
  MaxOffered = 16
  MaxRagged = 1
SPECIFICATION FairSpec
CHECK_DEADLOCK FALSE
INVARIANTS
  NoSlotShared
  NoSilentLoss
PROPERTIES
  ImplementsFifo
  PublishedIsRead
