SPECIFICATION Spec
CONSTANTS
  Members = {m1, m2}
  Joiners = {j1}
  MayFail = TRUE
  MayGarble = TRUE
  MaxBlocks = 2
INVARIANTS
  JoinerIsKnown
  SentSoFar
CHECK_DEADLOCK FALSE
