CONSTANTS
  MaxChunks = 2
  Codes <- MCCodes
  None = None
SPECIFICATION MCSpec
INVARIANTS
  TypeOK
  StreamsIntact
  ExitStatusPassedOn
  ProcessNotLeft
PROPERTIES
  RunEnds
  EndPassedOn
CHECK_DEADLOCK FALSE
