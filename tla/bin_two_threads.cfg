CONSTANTS
  Base = 3
  HalfLen = 2
  ValLen = 1
  Thread = {w1, w2}
  Request <- MCTwoRequests
  NoRequest = NoRequest
  InitTable <- MCInitTable
  Stray = {0}
  MaxBytes = 40
  Fault = {}
SPECIFICATION Spec
PROPERTY KeepsFraming
