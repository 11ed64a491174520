SPECIFICATION FairSpec
CONSTANTS
  Unreliable = TRUE
  MaxProv = 2
  Faults = {}
INVARIANT ErrorIsRepeated
PROPERTY FinalIsFreed
PROPERTY RouterCannotStall
CHECK_DEADLOCK FALSE
PROPERTY KeepsPromise
