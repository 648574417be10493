CONSTANTS
  Base = 3
  HalfLen = 2
  ValLen = 1
  Atom <- MCAtom
  IntAtom <- MCIntAtom
  Worker = {w1}
  Update <- MCUpdate
  InitEntry <- MCInitEntry
  InitTable <- MCInitTable
  Stray = {0}
  StrayText = {}
  MaxBytes = 60
  InitText <- MCInitText
  NoRequest = NoRequest
  Limit <- MCLimit
  Version = {}
  BinFault = {}
  CsvFault = {"open"}
  FineClock = TRUE
  QuietStart = TRUE
  MaxTime = 6
  MaxOutage = 2
SPECIFICATION FairSpec
INVARIANTS TypeOK OkMeansBoth StoresAgree
PROPERTIES StoresImplemented Answered
CHECK_DEADLOCK FALSE
