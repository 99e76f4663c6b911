SPECIFICATION BuffersSpec
CONSTANTS
  MaxBufferFrames = 3
  MaskBits = 32
  MostRenderChannels = 3
  Configs <- MCConfigs
  Hardware <- MCHardware
  Grants <- MCGrants
  InputShapes <- MCInputShapes
  OutputShapes <- MCOutputShapes
  FrameCounts = {0, 1, 2, 4}
  MaxBlocks = 2
INVARIANTS HeardIsRecorded PlayedIsWritten
CHECK_DEADLOCK FALSE
