CONSTANTS
  Readers <- AllReaders
  Sessions <- EachCallAndPairs
SPECIFICATION Spec
INVARIANTS
  TypeOK
  StaysInStep
  ListedHappened
  WholeIsListed
  UnknownStopsStats
PROPERTIES
  ReadingEnds
CHECK_DEADLOCK FALSE
