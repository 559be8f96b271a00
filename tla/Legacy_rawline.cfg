SPECIFICATION Spec
CONSTANTS
  MaxInt = 15
  Scripts <- SecondLine
  OwnMark = TRUE
INVARIANT
  RawIsTheLine
