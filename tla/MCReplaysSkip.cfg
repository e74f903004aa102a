SPECIFICATION Spec
CONSTANTS
  NumObservers = 1
  NumReplays = 3
  MaxLoops = 2
  MaxFaults = 1
INVARIANTS
  FailureSkipsOne
CHECK_DEADLOCK FALSE
