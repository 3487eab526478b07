CONSTANTS
  Modes <- CommandOnly
  MaxChunks = 1
  LargeChunks <- SecondAnswer
  PipeCap = 1
  BufItems = 2
  MaxFaults = 0
  MaxClock = 1
SPECIFICATION FairSpec
PROPERTIES
  ChildExitIsPropagated
CHECK_DEADLOCK FALSE
