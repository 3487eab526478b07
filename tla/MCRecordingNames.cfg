CONSTANTS
  Processes = {p1, p2}
  Shared = FALSE
  NoFile = NoFile
  MaxId = 4
  MaxSessions = 4
SPECIFICATION Spec
INVARIANTS
  TypeOK
  NumbersFollowSessions
PROPERTIES
  NeverOverwrites
CHECK_DEADLOCK FALSE
