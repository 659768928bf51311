SPECIFICATION Spec
CONSTANTS
  Site = {1, 2}
  Char = {letter, newline}
  NUL = NUL
  NewLine = newline
  NoElement = NoElement
  Id <- TreeId
INVARIANTS CascadeIsTheRecursion NeighboursAgree PlacesAgree SelectionIsExact
