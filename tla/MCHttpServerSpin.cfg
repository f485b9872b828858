SPECIFICATION FairSpec
CONSTANTS
  Conns = {k1, k2}
  Setups <- MCExternal
PROPERTIES
  StopEndsAccepting
CHECK_DEADLOCK FALSE
