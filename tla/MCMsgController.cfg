SPECIFICATION Spec
CONSTANTS
  n1 = n1
  n2 = n2
  c1 = c1
  o1 = o1
  AppMsgs = {n1, n2, c1}
  OsMsgs = {o1}
  OsAnswered = {}
  Kind <- MCKind
  AppGate <- MCAppGate
  Rank <- MCRank
  Holding = {TRUE, FALSE}
  MaxStops = 2
INVARIANTS
  TypeOK
  CountersExact
  AnsweredOnce
  OrderKept
PROPERTIES
  ReadyMeansQuiet
  ClosedWhileMigrating
  RankKept
  StopAnswered
CHECK_DEADLOCK FALSE
