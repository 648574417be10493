CONSTANTS
  t1 = t1
  t2 = t2
  t3 = t3
  t4 = t4
  t5 = t5
  t6 = t6
  Timer = {t1, t2, t3, t4, t5, t6}
  Nil = Nil
  Early <- SixEarly
  Delays = {3}
  NumWaits = 7
  MaxCalls = 3
  Usec = 2
  MaxUsec = 1
  MaxTime = 7
  MaxSlip = 1
SPECIFICATION FairSpec
PROPERTIES  EveryWaitEnds
INVARIANTS TypeOK QueueSound ArmedInTime
CHECK_DEADLOCK FALSE
