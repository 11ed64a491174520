CONSTANTS
  Transports = {TRUE}
  Keepalive = TRUE
  Owns = {TRUE}
  Secure = FALSE
  MaxTa = 1
  Faults = {"send"}
SPECIFICATION Spec
INVARIANT WaitsForATransaction
CHECK_DEADLOCK FALSE
