CONSTANTS
  Transports = {TRUE, FALSE}
  MaxProv = 2
  Faults = {"send", "fail", "timer", "store", "queue", "owner", "dialog"}
SPECIFICATION FairSpec
INVARIANT ServerIsBounded
INVARIANT ClientIsBounded
INVARIANT OneAnswer
PROPERTY BothEnd
CHECK_DEADLOCK FALSE
