\* comm, uniq, sort, seq, digra, words, dx, enc | dec, cp, dd, rec, gif, page and pv on
\* small inputs.
SPECIFICATION Spec
CONSTANTS
  CommPairs <- PairsOfFiles
  CommFlags <- ColumnFlags
  UniqInputs <- UniqFiles
  Ranges <- FieldRanges
  UniqModes <- UniqFlags
  SortInputs <- Selections
  SortFlags <- SortFlagSets
  NoMatch = "none"
  Lower <- Lowered
  Rank <- RankOf
  Fields <- Words1
  Number <- NumberOf
  NaN <- NotANumber
  MaxInt = 3
  SeqArgs <- NumberLists
  NoNumber <- Refused
  CopyJobs <- LinesOfCp
  Paths <- FilePaths
  Uncreatable <- NotToBeMade
  CopyBefore <- FilesBefore
  Tickets = 2
  Byte = {"0", "1", "2", "3", "4", "5", "x"}
  Gap = "0"
  DdFlags <- DdOptions
  DdInputs <- FilesRead
  DdOutputs <- FilesOver
  Octet = {"a", "b", "c", "d", "e", "x", "y", "z", "0"}
  Hole = "0"
  Rates = {0, 1}
  ChanCap = 1
  MaxFrames = 6
  GifInputs <- PictureLists
  Delays = {1, 150}
  PerDelay = 100
  RingSize = 3
  Tries = 2
  DoitCap = 2
  Listings <- NameLists
  Pictures = {"a", "b", "c", "d"}
  Keys <- KeySteps
  MaxKeys = 3
  PvInputs <- ReadSizes
  NChanCap = 1
INVARIANTS TextsRight BytesRight SortRight CopyRight DdRight RecRight GifRight PageRight PvRight
PROPERTY ToolsEnd
CHECK_DEADLOCK FALSE
