SPECIFICATION Spec
CONSTANTS
  Threads = {t1, t2}
  MaxStarts = 2
PROPERTY
  TerminateReturns
CHECK_DEADLOCK FALSE
