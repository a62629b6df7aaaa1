SPECIFICATION MCSpec
CONSTANTS
  TermNum = 2
  NumCols = 2
  NumRows = 2
  PageCells = 5
  Chars = {a}
  Enter = Enter
  Blank = Blank
  MaxInputs = 5
PROPERTY OutputStaysHome
CHECK_DEADLOCK FALSE
