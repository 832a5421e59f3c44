CONSTANTS
  MaxChunks = 2
  Codes <- MCCodes
  None = None
SPECIFICATION Spec
INVARIANTS
  TrafficDelivered
CHECK_DEADLOCK FALSE
