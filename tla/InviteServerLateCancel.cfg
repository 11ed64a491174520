SPECIFICATION Spec
CONSTANTS
  Unreliable = TRUE
  MaxProv = 1
  Faults = {}
INVARIANT EndsOnce
CHECK_DEADLOCK FALSE
