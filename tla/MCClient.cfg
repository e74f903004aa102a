SPECIFICATION Spec
CONSTANTS
  Programs <- MCPrograms
  Tables = {"abilities", "units"}
  MaxCommands = 2
  MaxGames = 2
  MaxLoops = 2
  MaxFaults = 1
INVARIANTS
  TypeOK
  CommandsComeOnce
  CommandsAreKept
  IdleIsReported
  DataIsCurrent
CHECK_DEADLOCK FALSE
