CONSTANTS
  Readers <- AllReaders
  Sessions <- ErrorPairs
SPECIFICATION Spec
INVARIANTS
  FailedCallsAreListed
CHECK_DEADLOCK FALSE
