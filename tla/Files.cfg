SPECIFICATION LiveSpec
CONSTANTS
  FdNum = 4
  BlockSize = 2
  WordSize = 16
  dir_entries <- MCEntries
  Inodes <- MCInodes
  length <- MCLength
  data_block_list <- MCBlocks
  data_block <- MCData
  Names <- MCNames
  BufSize = 5
  NULL = NULL
INVARIANTS ReadDelivers PositionInFile ChunkInFile
PROPERTIES ReadReturns ImplementsFileTable
