SPECIFICATION Spec
CONSTANTS
  Blocks = {b1, b2, b3, b4}
  NoBlock = NoBlock
  NumCPUs = 2
  OsStates = {"MACHINE_STATE_RUNNING", "MACHINE_STATE_OFF"}
  MaxLink = 2
INVARIANTS
  TypeOK
  CoreExclusive
  QueueDiscipline
  ExactlyOnce
  NeverIdledWhileComputing
PROPERTIES
  EventuallyAnswered
  ImplementsService
CHECK_DEADLOCK FALSE
