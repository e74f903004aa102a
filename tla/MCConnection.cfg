SPECIFICATION FairSpec
CONSTANTS
  MaxRequests = 3
  MaxCloses = 1
INVARIANTS
  TypeOK
  PollAgrees
  SuccessDelivers
  NoStaleResponse
  StopIsSafe
PROPERTIES
  CallReturns
  MailboxSpec
