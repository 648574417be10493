CONSTANTS
  Base = 3
  HalfLen = 2
  ValLen = 1
  Thread = {w1}
  Request <- MCFewRequests
  NoRequest = NoRequest
  InitTable <- MCInitTable
  Stray = {0}
  MaxBytes = 26
  Fault = {"open", "write"}
SPECIFICATION Spec
INVARIANT VariableLength
PROPERTY KeepsFraming
