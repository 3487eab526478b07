CONSTANTS
  Processes = {p1, p2}
  Shared = TRUE
  NoFile = NoFile
  MaxId = 4
  MaxSessions = 4
SPECIFICATION Spec
PROPERTIES
  NeverOverwrites
CHECK_DEADLOCK FALSE
