\* argfile, wc and edit over lists of up to four names, two tickets.
SPECIFICATION MCSpec
CONSTANTS
  a = a
  b = b
  c = c
  sub = sub
  ro = ro
  missing = missing
  Stdin = Stdin
  Name <- AllNames
  Readable <- AllReadable
  Lists <- AllLists
  Caller <- TwoCallers
  MaxFD = 2
  Size <- Sizes
  X = {TRUE, FALSE}
  Text <- Texts
  Directory = "directory"
  Disks <- TwoDisks
  Commands <- TwoCommands
  ReadOnly <- OnlyOne
  Flags <- FlagSets
INVARIANTS ArgInv ShownOnce EditRight
PROPERTY LoopsEnd
CHECK_DEADLOCK FALSE
