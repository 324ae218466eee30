SPECIFICATION Spec
CONSTANTS
  MsPerSec = 4
  Word = 32
  MaxStart = 9
  MaxDuration = 11
  MaxLoops = 2
  MaxAt = 44
INVARIANTS
  ExpiryIsExact
  RemainedIsExact
CHECK_DEADLOCK FALSE
