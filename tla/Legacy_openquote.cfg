SPECIFICATION Spec
CONSTANTS
  MaxInt = 15
  Scripts <- OpeningAtEnd
  OwnMark = TRUE
INVARIANT
  ReturnsWhatWasSent
