CONSTANTS
  Lengths = {2}
  MaxRecords = 3
  MaxFaults = 1
SPECIFICATION Spec
INVARIANTS
  TypeOK
  ReadIsPrefix
  TornMisleads
  DoneIsComplete
  ErrorMeansCut
  TimesAreRight
CHECK_DEADLOCK FALSE
