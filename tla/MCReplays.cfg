SPECIFICATION FairSpec
CONSTANTS
  NumObservers = 2
  NumReplays = 3
  MaxLoops = 2
  MaxFaults = 1
INVARIANTS
  TypeOK
  EveryReplayHasItsTurn
  ReplaysRunOnce
  CallbacksInOrder
  LoadingIsLeftAlone
  EndIsAnnounced
PROPERTIES
  UpdateLoopEnds
CHECK_DEADLOCK FALSE
