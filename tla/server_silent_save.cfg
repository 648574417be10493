CONSTANTS
  Base = 3
  HalfLen = 2
  ValLen = 1
  Atom <- MCAtom
  IntAtom <- MCIntAtom
  Worker = {w1}
  Update <- MCFewUpdates
  InitEntry <- MCInitEntry
  InitTable <- MCInitTable
  Stray = {0}
  StrayText = {}
  MaxBytes = 60
  InitText <- MCInitText
  NoRequest = NoRequest
  Limit <- MCLimit
  Version = {}
  BinFault = {"open"}
  CsvFault = {}
  FineClock = TRUE
  QuietStart = TRUE
  MaxTime = 4
  MaxOutage = 0
SPECIFICATION Spec
INVARIANT OkMeansBoth
