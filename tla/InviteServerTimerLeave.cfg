SPECIFICATION Spec
CONSTANTS
  Unreliable = TRUE
  MaxProv = 1
  Faults = {"timer"}
INVARIANT RefusedResponseNotKept
CHECK_DEADLOCK FALSE
