SPECIFICATION Spec
CONSTANTS
  Timeout = 3
  MaxLate = 2
CHECK_DEADLOCK FALSE
INVARIANT FallbackTried
