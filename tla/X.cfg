\* Any text, and programs that are written correctly.
SPECIFICATION Spec
CONSTANTS
  Cases <- MCCases
  Readable <- MCReadable
  Output <- MCOutput
INVARIANTS XInv ProgramKept EditsAsWritten
CHECK_DEADLOCK FALSE
