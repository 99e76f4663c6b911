CONSTANTS
  Platforms = {"coreaudio", "ios"}
  Programs = {"session", "live"}
  Rates = {r44, r48}
  NoRate = none
  MaxStarts = 2
  MaxRateChanges = 2
SPECIFICATION FairSpec
CHECK_DEADLOCK FALSE
INVARIANTS
  CallbackOnLiveState
  DrainedWhileFed
  NothingLeftRunning
PROPERTIES
  CallsReturn
