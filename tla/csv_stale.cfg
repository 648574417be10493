CONSTANTS
  Atom <- MCAtom
  IntAtom <- MCIntAtom
  Thread = {w1}
  Request <- MCRequest
  NoRequest = NoRequest
  Amount <- MCAmount
  Version <- MCVersion
  InitText <- MCInitText
  StrayText <- MCStrayText
  Fault = {}
  FineClock = FALSE
  QuietStart = FALSE
  MaxTime = 3
  MaxOutage = 1
SPECIFICATION Spec
INVARIANT UpToDate
CHECK_DEADLOCK FALSE
