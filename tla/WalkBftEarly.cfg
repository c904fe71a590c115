\* walk -b r: main can return with directories still in list.
SPECIFICATION MCSpec
CONSTANTS
  r = r
  a = a
  b = b
  c = c
  e = e
  x = x
  y = y
  z = z
  p1 = p1
  p2 = p2
  NoDir = NoDir
  File <- SmallFile
  Dir <- SmallDir
  Unreadable <- SmallUnreadable
  Listing <- SmallListing
  Path <- TwoPaths
  Root <- Overlapping
  Depth <- DepthOf
  NoLimit <- Unlimited
  NGo = 4
  Options <- MCOptions
  TreeFile <- LevelFile
  TreeDir <- LevelDir
  Failures <- ZOrRoot
  TreeListing <- LevelListing
  Level <- LevelOf
  TreeRoot = r
  ListCap = 4
  BftLimits = {3}
INVARIANT ReturnsWhenDone
CHECK_DEADLOCK FALSE
