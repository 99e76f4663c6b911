CONSTANTS
  Fields = {bins, average, overruns}
  MaxPublishes = 6
SPECIFICATION FairSpec
CHECK_DEADLOCK FALSE
INVARIANTS
  NoTornRead
PROPERTIES
  ImplementsRegister
