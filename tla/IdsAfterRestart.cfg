SPECIFICATION Spec
CONSTANTS
  Site = {1, 2}
  Char = {letter, digit}
  NUL = NUL
  MaxKeys = 2
  MaxStarts = 3
CHECK_DEADLOCK FALSE
INVARIANTS RunningIdsAreUnique
