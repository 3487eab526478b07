CONSTANTS
  Scripts <- AllScripts
  FallsShort <- SomeFallShort
SPECIFICATION Spec
INVARIANTS
  TypeOK
  TextCarries
  EditsNeverAlter
  ConvertedHolds
  TimesKeepOrder
  ParsingEnds
