\* wc a missing: the second name cannot be opened.
SPECIFICATION MCSpec
CONSTANTS
  a = a
  b = b
  c = c
  sub = sub
  ro = ro
  missing = missing
  Stdin = Stdin
  Name <- AllNames
  Readable <- AllReadable
  Lists <- AllLists
  Caller <- TwoCallers
  MaxFD = 2
  Size <- Sizes
  X = {TRUE, FALSE}
  Text <- Texts
  Directory = "directory"
  Disks <- TwoDisks
  Commands <- TwoCommands
  ReadOnly <- OnlyOne
  Flags <- FlagSets
PROPERTY AlwaysTerminates
CHECK_DEADLOCK FALSE
