SPECIFICATION Spec
CONSTANTS
  Runs = {r1, r2}
  Payments = {p1}
  PemLines = 3
  MayFail = TRUE
  MaxKeys = 3
INVARIANTS
  NoBlankKey
  KeyOnDisk
CHECK_DEADLOCK FALSE
