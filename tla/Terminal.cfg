SPECIFICATION LiveSpec
CONSTANTS
  TermNum = 2
  BufSize = 3
  Chars = {a}
  Enter = Enter
  Blank = Blank
  Nul = Blank
INVARIANTS ReadExtendsLine NoStuckLine
PROPERTIES ReadReturns EnterWakes
