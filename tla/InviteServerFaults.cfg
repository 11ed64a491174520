SPECIFICATION Spec
CONSTANTS
  Unreliable = TRUE
  MaxProv = 2
  Faults = {"send", "store", "queue", "timer", "delete", "owner"}
INVARIANT TypeOK
INVARIANT TransmitterOwned
INVARIANT Freed2xxOnce
INVARIANT NoRequestToSending2xx
INVARIANT EndsOnceUnlessCanceledLate
INVARIANT OwnerHearsTheEnd
PROPERTY ResponsesInOrder
CHECK_DEADLOCK FALSE
