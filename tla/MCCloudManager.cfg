SPECIFICATION Spec
CONSTANTS
  a = a
  b = b
  c = c
  Users = {a, b, c}
  NumNodes = 2
  MaxVMs = 1
  NumJobs <- JobsMC
  Quantity <- QuantityMC
  Servers <- ServersMC
INVARIANTS TypeOK CapacityKept Accounted JoinComplete NoJobOnDyingVM GoneUsersClean FailsOnlyByOverread FilesDeleted
PROPERTIES UsersLeave
CHECK_DEADLOCK FALSE
