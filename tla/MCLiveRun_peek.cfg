CONSTANTS
  Runs <- ShortReplays
  RequestCap = 1
  AnswerCap = 2
  SplitReads = TRUE
  DaemonMayDie = FALSE
SPECIFICATION Spec
PROPERTIES
  NoneMeansEof
CHECK_DEADLOCK FALSE
