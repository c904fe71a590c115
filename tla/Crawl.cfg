\* The small site without and with -l 2, urls from standard input, and a page
\* with ten links; channels with room for one.
SPECIFICATION LiveSpec
CONSTANTS
  Url <- MCUrl
  Links <- MCLinks
  Host <- MCHost
  Content <- MCContent
  Malformed <- Malformed9
  MayFail <- Failing
  MayNotParse <- Failing
  Matching <- MCMatching
  Seeds <- StdinSeeds
  Whitelist <- OneHost
  Cap = 1
  InCap = 1
  Command <- Lines
  DynHost = 3
INVARIANT CrawlInv
PROPERTIES WorksThroughList Terminates
CHECK_DEADLOCK FALSE
