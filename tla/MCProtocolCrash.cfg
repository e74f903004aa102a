SPECIFICATION PSpec
CONSTANTS
  MaxRequests = 4
  MaxCloses = 1
  MaxFaults = 1
  PingWhilePending = FALSE
INVARIANTS
  CrashMeansExited
CHECK_DEADLOCK FALSE
