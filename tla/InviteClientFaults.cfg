CONSTANTS
  Transports = {TRUE, FALSE}
  Keepalive = TRUE
  Owns = {FALSE}
  Secure = TRUE
  MaxTa = 2
  Faults = {"send", "timer", "alloc", "delete", "sec", "owner", "dialog", "fail"}
SPECIFICATION Spec
INVARIANTS
  TypeOK
  OneCurrent
  LiveTaHasDeadline
  OwnerHearsTheEnd
  OneOutcome
  UserAgentIsFound
  FreedOnce
  RefusedIsUndone
PROPERTY NoInviteAfterFinal
CHECK_DEADLOCK FALSE
