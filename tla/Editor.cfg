SPECIFICATION Spec
CONSTANTS
  Site = {1, 2}
  Me = 1
  Char = {letter, newline}
  NUL = NUL
  NewLine = newline
  NoElement = NoElement
  Lost = Lost
  MaxInserts = 2
  MaxRemoves = 2
  MaxLine = 1
  MaxUpdates = 1
VIEW Essential
INVARIANTS TypeOK CursorIsVisible RemoteCursorsResolve
PROPERTIES PlainEditorSpec
