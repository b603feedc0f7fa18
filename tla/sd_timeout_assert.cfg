SPECIFICATION Spec
CONSTANTS
  Sectors = {0, 1, 2}
  MaxCount = 2
  Words = 2
  SectorSize = 2
  Data = {x1, x2}
  Garbage = spoilt
  MaxTries = 1
  Mismatches = FALSE
INVARIANT NoWordsLeft
CHECK_DEADLOCK FALSE
