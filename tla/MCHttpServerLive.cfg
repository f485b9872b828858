SPECIFICATION FairSpec
CONSTANTS
  Conns = {k1, k2}
  Setups <- MCOneThread
INVARIANTS
  AcceptChains
PROPERTIES
  ClosedIsReleased
  ReadsEnd
  DestructReleases
CHECK_DEADLOCK FALSE
