CONSTANTS
  Runner = {r1, r2}
  Outsider = {m}
  NumOps = 2
  Sock = {s}
  Guards = 1
  MaxData = 2
  MaxOpens = 1
  None = None
SPECIFICATION FairSpec
PROPERTY Progress
INVARIANTS TypeOK OneReactor EnqueuedOnce WorkExact StopsWhenTold WorkConserving NoLostData
CHECK_DEADLOCK FALSE
