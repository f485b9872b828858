SPECIFICATION Spec
CONSTANTS
  Requests = {r1, r2}
  Origins = {a, b}
  MaxRedirects = 2
  PoolSize = 1
INVARIANTS CalledBackOnce
PROPERTIES CallbackComes DestructorReturns
CHECK_DEADLOCK FALSE
