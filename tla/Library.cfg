SPECIFICATION LiveSpec
CONSTANTS
  Size = 10
  Bytes <- MCBytes
  Values <- MCValues
  Fresh <- MCFresh
  NULL = NULL
  Bits = 8
  Chars <- MCChars
  Formats <- MCFormats
  NameMax = 3
  Fnames <- MCFnames
  Dirs <- MCDirs
  NUL = NUL
INVARIANTS DoneRight PrintedRight LookupFirst
PROPERTY CallsReturn
