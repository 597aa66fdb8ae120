SPECIFICATION Spec
CONSTANTS
  Jobs <- MCJobs
  UnsignedWrap = 8
INVARIANTS
  TypeOK
  RoundClosed
  InRound
PROPERTIES
  LeavesTogether
  JobFinishes
CHECK_DEADLOCK FALSE
