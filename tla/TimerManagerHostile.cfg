SPECIFICATION Spec
CONSTANTS
  Sec = 2
  MaxAfter = 5
  InternalAfter = 3
  HwDelay = 2
  Durations = {1, 7}
  MaxTimers = 2
  IdMax = 4
  Overdue = 1
  Shifts = {3}
  Faults = {"add", "internal"}
INVARIANT StoreConsistent
INVARIANT IdleInCallback
