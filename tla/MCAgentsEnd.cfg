SPECIFICATION Spec
CONSTANTS
  Settings <- MCInTurns
  MaxAgents = 2
  MaxGames = 1
  MaxFaults = 0
INVARIANTS
  EndIsAnnouncedAlways
CHECK_DEADLOCK FALSE
