CONSTANTS
  NumWorkers = 1
  NumConns = 3
  Talkers = {1, 2, 3}
  MaxReads = 1
  Timeout = 1
SPECIFICATION Spec
INVARIANT EveryReadTimed
CHECK_DEADLOCK FALSE
