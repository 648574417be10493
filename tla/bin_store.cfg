CONSTANTS
  Base = 3
  HalfLen = 2
  ValLen = 1
  Thread = {w1}
  Request <- MCRequest
  NoRequest = NoRequest
  InitTable <- MCInitTable
  Stray = {0}
  MaxBytes = 40
  Fault = {}
SPECIFICATION Spec
INVARIANTS TypeOK InSync
PROPERTY ImplementsStore
