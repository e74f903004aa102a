SPECIFICATION Spec
CONSTANTS
  PortStart = 10
  MaxClients = 3
  MaxProcesses = 7
  MaxCalls = 3
INVARIANTS
  TypeOK
  EachItsProcess
  GamePortsFree
CHECK_DEADLOCK FALSE
