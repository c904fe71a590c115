\* rewire can return before its final command.
SPECIFICATION MCSpec
CONSTANTS
  Lists <- Redirections
  CommandLines <- ArgumentLists
  Url <- Urls
  File <- Files
  FileOf <- FileNamed
  Existing <- OldFiles
  Inputs <- UrlLists
  Client <- TwoClients
  Storer <- TwoStorers
INVARIANT WaitsForFinal
CHECK_DEADLOCK FALSE
