SPECIFICATION Spec
CONSTANTS
  Tags = {"own", "enemy"}
  Alliance <- MCAlliance
  ENTRY_SIZE = 2
  MaxLoops = 2
  MaxGames = 2
INVARIANTS
  CreatedWhenFirstSeen
CHECK_DEADLOCK FALSE
