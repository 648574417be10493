CONSTANTS
  Atom <- MCAtom
  IntAtom <- MCIntAtom
  Thread = {w1, w2}
  Request <- MCRequest
  NoRequest = NoRequest
  Amount = {}
  Version = {}
  InitText <- MCInitText
  StrayText = {}
  Fault = {}
  FineClock = TRUE
  QuietStart = TRUE
  MaxTime = 4
  MaxOutage = 0
SPECIFICATION Spec
INVARIANT ChangesSaved
