SPECIFICATION Spec
CONSTANTS
  Width = 2
  Height = 2
  Blank = Blank
  Newline = Newline
  BufSize = 5
  Chars = {a, b}
  Nul = Nul
  BackspaceGlyph = BackspaceGlyph
INVARIANTS CursorInText WildOnlyWhenFull ScreenShowsLine
PROPERTIES CursorKeysTogether ImplementsEditLine
\* Undefined behaviour ends the model: a wild editor takes no further step.
CHECK_DEADLOCK FALSE
