SPECIFICATION MCSpec
CONSTANTS
  TermNum = 2
  NumCols = 2
  NumRows = 2
  PageCells = 5
  Chars = {a}
  Enter = Enter
  Blank = Blank
  MaxInputs = 9
INVARIANTS TypeOK CursorOnScreen
PROPERTY PageKept
CHECK_DEADLOCK FALSE
