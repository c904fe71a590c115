\* walk -t 0 r a, walk -t 1 r a and walk -m r a with channels for one name; walk -b r
\* and walk -b -t 2 r with room for one directory in list, two in fnx.
SPECIFICATION MCSpec
CONSTANTS
  r = r
  a = a
  b = b
  c = c
  e = e
  x = x
  y = y
  z = z
  p1 = p1
  p2 = p2
  NoDir = NoDir
  File <- SmallFile
  Dir <- SmallDir
  Unreadable <- SmallUnreadable
  Listing <- SmallListing
  Path <- TwoPaths
  Root <- Overlapping
  Depth <- DepthOf
  NoLimit <- Unlimited
  NGo = 1
  Options <- MCOptions
  TreeFile <- LevelFile
  TreeDir <- LevelDir
  Failures <- ZOrRoot
  TreeListing <- LevelListing
  Level <- LevelOf
  TreeRoot = r
  ListCap = 1
  BftLimits = {2, 3}
INVARIANTS WalkInv WalkComplete MemoryLosesNothing BreadthFirst
PROPERTY WalkReturns
CHECK_DEADLOCK FALSE
