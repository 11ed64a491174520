SPECIFICATION FairSpec
CONSTANTS
  Sec = 2
  MaxAfter = 5
  InternalAfter = 3
  HwDelay = 2
  Durations = {0, 1, 3, 5, 7}
  MaxTimers = 3
  IdMax = 5
  Overdue = 1
  Shifts = {}
  Faults = {"add"}
INVARIANT TypeOK
INVARIANT HeadIsArmed
PROPERTY KeepsPromise
PROPERTY HeldExpires
