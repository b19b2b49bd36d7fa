SPECIFICATION Spec
CONSTANTS
  CRT_ROWS = 3
  CRT_COLS = 3
  TabWidth = 2
  BUFLEN = 4
  Glyph <- SmallGlyph
  Prompt <- SmallPrompt
INVARIANTS TypeOK EchoShowsLine
