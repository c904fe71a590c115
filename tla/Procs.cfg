\* rewire, its parser, and hget - with two clients and two storers.
SPECIFICATION MCSpec
CONSTANTS
  Lists <- Redirections
  CommandLines <- ArgumentLists
  Url <- Urls
  File <- Files
  FileOf <- FileNamed
  Existing <- OldFiles
  Inputs <- UrlLists
  Client <- TwoClients
  Storer <- TwoStorers
INVARIANTS RewireInv OneAtTerminal ReturnsForAReason ArgsRight HgetRight
PROPERTY ComeBack
CHECK_DEADLOCK FALSE
