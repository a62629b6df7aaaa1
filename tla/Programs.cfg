SPECIFICATION Spec
CONSTANTS
  FdNum = 5
  dir_entries <- MCEntries
  Inodes <- MCInodes
  length <- MCLength
  content <- MCContent
  programs <- MCPrograms1
  Names <- MCNames
  BufSize = 5
  CommandMax = 6
  NameMax = 3
  ShellBuf = 6
  Lines <- MCLines
  Junk <- MCJunk
  Behind <- MCBehind
  NULL = NULL
INVARIANTS TypeOK RunsWhatIsTyped ArgumentFits CatCopies LsLists GrepFinds SysErrPasses
PROPERTY ShellComesBack
