SPECIFICATION Spec
CONSTANTS
  Pids = {0, 1, 2}
  TermNum = 1
  PageTable = 1030
  PageTableVM = 1031
  NULL = NULL
INVARIANTS NoStale UserReach
PROPERTY ImplementsAddressSpace
