SPECIFICATION LiveSpec
CONSTANTS
  NumProc = 3
  TermNum = 2
  Commands <- MCCommands
  Shell <- MCShell
  NULL = NULL
INVARIANTS OneSlotRuns SlotHoldsProgram HaltHasReturn TickFindsSlot
PROPERTY BootEnds
CHECK_DEADLOCK FALSE
