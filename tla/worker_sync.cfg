SPECIFICATION Spec
CONSTANTS
  b1 = b1
  b2 = b2
  Batch = {b1, b2}
  Char <- MCChar
  Code <- MCCode
  Number <- MCNumber
  MinLength = 2
  Salt <- MCSalt
  MaxMillis = 1
INVARIANTS
  BatchKeptOrCollided
  OnlyTheLastCodeAdmits
PROPERTIES
  LoopGoesOn
