SPECIFICATION Spec
CONSTANTS
  Conns = {k1, k2, k3}
  Setups <- MCSetups
SYMMETRY Symmetry
INVARIANTS
  OneOperation
  ResponseExclusive
  WaitIsTimed
  NoDanglingConnection
  
PROPERTIES
  SessionSpec
CHECK_DEADLOCK FALSE
