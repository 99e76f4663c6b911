CONSTANTS
  SteadyFields = {"kind", "amplitude", "hz"}
  SweepFields = {"kind", "amplitude", "hz", "end_hz", "seconds"}
  MaxCalls = 2
SPECIFICATION HandoffFairSpec
CHECK_DEADLOCK FALSE
INVARIANTS
  SeenIsWritten
PROPERTIES
  LastChoicePlays
