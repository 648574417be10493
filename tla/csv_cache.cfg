CONSTANTS
  Atom <- MCAtom
  IntAtom <- MCIntAtom
  Thread = {w1}
  Request <- MCRequest
  NoRequest = NoRequest
  Amount <- MCAmount
  Version <- MCVersion
  InitText <- MCInitText
  StrayText <- MCStrayText
  Fault = {"open", "write"}
  FineClock = TRUE
  QuietStart = TRUE
  MaxTime = 3
  MaxOutage = 1
SPECIFICATION Spec
INVARIANTS TypeOK UpToDate UsesVersionOfCall ChangesSaved
CHECK_DEADLOCK FALSE
