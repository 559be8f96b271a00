SPECIFICATION Spec
CONSTANTS
  MaxInt = 15
  Scripts <- FewScripts
  OwnMark = FALSE
INVARIANT
  ReturnsWhatWasSent
