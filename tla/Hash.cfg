\* Two workers, any list of up to three operands: names that open, one that
\* does not, and "-"; up to two lines on standard input, none of them empty.
SPECIFICATION LiveSpec
CONSTANTS
  a = a
  b = b
  x = x
  w1 = w1
  w2 = w2
  dash = dash
  blank = blank
  Worker <- MCWorker
  Name <- MCName
  Readable <- MCReadable
  Dash = dash
  Blank = blank
  FileLists <- MCFileLists
  Stdins <- MCStdins
INVARIANTS IInv ExitComplete RightDigest
PROPERTY KeepsPromise
CHECK_DEADLOCK FALSE
