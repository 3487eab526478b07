CONSTANTS
  Recorders = {r1}
  Clients = {c1, c2}
  Daemon = daemon
  None = none
  MaxBinds = 3
SPECIFICATION Spec
INVARIANTS
  TypeOK
  DaemonIsKept
  ServingIsInterposed
  ExitRestores
PROPERTIES
  AcceptedReachesDaemon
  HalfTakeoverIsResumed
CHECK_DEADLOCK FALSE
