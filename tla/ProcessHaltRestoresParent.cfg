SPECIFICATION Spec
CONSTANTS
  NumProc = 6
  TermNum = 3
  Commands <- MCCommands
  Shell <- MCShell
  NULL = NULL
INVARIANT HaltRestoresParent
CHECK_DEADLOCK FALSE
