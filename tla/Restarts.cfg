SPECIFICATION Spec
CONSTANTS
  Site = {1, 2}
  Char = {letter, digit}
  NUL = NUL
  MaxKeys = 2
  MaxStarts = 3
INVARIANTS IdsStayUnique PatientConvergence RestartRestores
PROPERTIES LandsAtCursor
CHECK_DEADLOCK FALSE
