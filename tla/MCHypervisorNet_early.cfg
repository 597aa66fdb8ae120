SPECIFICATION Spec
CONSTANTS
  n1 = n1
  n2 = n2
  u1 = u1
  u2 = u2
  Node <- MCNode
  User <- MCUser
  IpBasis = 100
  VM <- MCVM
  OwnerOf <- MCOwner
  Host <- MCHost
  Workloads <- EarlyWorkload
  Early = TRUE
  MaxTimes = 1
  ConnectionTimeout = 0
  FirstPort = 1
  LastPort = 8
  EphemeralPorts <- MCEphemeral
PROPERTIES
  Answered
CHECK_DEADLOCK FALSE
