CONSTANTS
  Modes <- AllModes
  MaxChunks = 2
  LargeChunks <- SecondAnswer
  PipeCap = 1
  BufItems = 2
  MaxFaults = 2
  MaxClock = 1
SPECIFICATION FairSpec
INVARIANTS
  TypeOK
  DeliveredIsOnDisk
  FileIsCausal
  FileKeepsOrder
  DurationIsDefined
  EndedFileIsWhole
  MissingIsReported
PROPERTIES
  SessionEnds
  TapSpec
CHECK_DEADLOCK FALSE
