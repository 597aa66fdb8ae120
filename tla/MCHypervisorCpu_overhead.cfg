SPECIFICATION Spec
CONSTANTS
  v0 = v0
  v1 = v1
  w0 = w0
  x0 = x0
  NumCPUs = 2
  VCores = {v0, v1, w0, x0}
  VIndex <- MCVIndex
  Overheads = {TRUE}
  MaxBlocks = 4
INVARIANT SavedAnswered
CHECK_DEADLOCK FALSE
