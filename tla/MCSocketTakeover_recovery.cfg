CONSTANTS
  Recorders = {r1}
  Clients = {c1}
  Daemon = daemon
  None = none
  MaxBinds = 2
SPECIFICATION Spec
INVARIANTS
  CrashIsRecovered
CHECK_DEADLOCK FALSE
