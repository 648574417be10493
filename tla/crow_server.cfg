CONSTANTS
  NumWorkers = 2
  NumConns = 3
  Talkers = {1, 3}
  MaxReads = 1
  Timeout = 1
SPECIFICATION FairSpec
INVARIANTS TypeOK OwnDeadline QueueLengths
PROPERTIES DealtOut IdleDropped StopEnds
CHECK_DEADLOCK FALSE
