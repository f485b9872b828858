SPECIFICATION FairSpec
CONSTANTS
  Callers = {c1, c2, c3}
  Stoppers = {t1, t2}
INVARIANTS
  CountIsInside
PROPERTIES
  GateSpec
  StopReturns
