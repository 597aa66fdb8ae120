SPECIFICATION Spec
CONSTANTS
  n1 = n1
  n2 = n2
  u1 = u1
  u2 = u2
  Node <- MCNode
  User <- MCUser
  IpBasis = 100
  VM <- MCVM
  OwnerOf <- MCOwner
  Host <- MCHost
  Workloads <- MCWorkloads
  Early = FALSE
  MaxTimes = 1
  ConnectionTimeout = 0
  FirstPort = 1
  LastPort = 8
  EphemeralPorts <- MCEphemeral
INVARIANTS
  TypeOK
  AlarmAhead
  ReachesTarget
  AddressesKept
  GoneLeavesNothing
PROPERTIES
  Answered
CHECK_DEADLOCK FALSE
