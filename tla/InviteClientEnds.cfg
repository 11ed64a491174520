CONSTANTS
  Transports = {TRUE}
  Keepalive = TRUE
  Owns = {TRUE}
  Secure = TRUE
  MaxTa = 2
  Faults = {"fail", "send"}
SPECIFICATION FairSpec
PROPERTIES
  UserAgentStops
  EverythingEnds
CHECK_DEADLOCK FALSE
