SPECIFICATION Spec
CONSTANTS
  a = a
  b = b
  c = c
  Users = {a}
  NumNodes = 2
  MaxVMs = 1
  NumJobs <- JobsMC
  Quantity <- QuantityMC
  Servers <- ServersRemote
INVARIANTS FilesDeleted
CHECK_DEADLOCK FALSE
