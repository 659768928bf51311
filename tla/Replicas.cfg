SPECIFICATION TextSpec
CONSTANTS
  Site = {1, 2}
  Char = {letter}
  NUL = NUL
  NewLine = newline
  NoElement = NoElement
  MaxInserts = 3
  MaxRemoves = 1
INVARIANTS Convergence UniqueIds ParentIsOlder NothingStranded DocumentsAreValid
PROPERTIES TombstonesStay LandsAtCursor SharedListSpec
