SPECIFICATION Spec
CONSTANTS
  v0 = v0
  v1 = v1
  w0 = w0
  x0 = x0
  NumCPUs = 2
  VCores = {v0, v1, w0, x0}
  VIndex <- MCVIndex
  Overheads = {TRUE, FALSE}
  MaxBlocks = 4
INVARIANTS
  TypeOK
  CoreExclusive
  FirstComeFirstServed
PROPERTIES
  OverheadPaid
  EventuallyAnswered
CHECK_DEADLOCK FALSE
