CONSTANTS
  Runs <- AllRuns
  RequestCap = 1
  AnswerCap = 2
  SplitReads = FALSE
  DaemonMayDie = TRUE
SPECIFICATION Spec
INVARIANTS
  TypeOK
  AnswersAreMatched
  RunHearsAll
PROPERTIES
  RunEnds
CHECK_DEADLOCK FALSE
