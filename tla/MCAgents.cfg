SPECIFICATION FairSpec
CONSTANTS
  Settings <- MCSettings
  MaxAgents = 2
  MaxGames = 2
  MaxFaults = 1
INVARIANTS
  TypeOK
  EndIsAnnounced
  EventsComeOnce
  NextGameStarts
  AgentsInStep
PROPERTIES
  CallsReturn
  UpdateLoopEnds
CHECK_DEADLOCK FALSE
