SPECIFICATION Spec
CONSTANTS
  Tags = {"own", "enemy", "mineral"}
  Alliance <- MCAlliance
  ENTRY_SIZE = 2
  MaxLoops = 2
  MaxGames = 1
INVARIANTS
  TypeOK
  PointersAreStable
  CreatedWhenFirstSeen
  EnteredWhenSighted
  ChangesAreReported
  EventsAreCurrent
CHECK_DEADLOCK FALSE
