SPECIFICATION Spec
CONSTANTS
  Runs = {r1}
  Payments = {p1}
  PemLines = 3
  MayFail = FALSE
  MaxKeys = 3
INVARIANTS
  CodesKeepTheirOwner
CHECK_DEADLOCK FALSE
