SPECIFICATION PFairSpec
CONSTANTS
  MaxRequests = 4
  MaxCloses = 1
  MaxFaults = 1
  PingWhilePending = FALSE
INVARIANTS
  PTypeOK
  AnswerMatches
  NoSilentFailure
  OneInFlight
PROPERTIES
  OperationReturns
CHECK_DEADLOCK FALSE
