SPECIFICATION Spec
CONSTANTS
  MaxInt = 15
  Scripts <- AllScripts
  OwnMark = TRUE
INVARIANTS
  WritesOneValueEach
  ReturnsWhatWasSent
  NothingLostNothingKept
  WaitsOnlyForTheRest
