\* listen with two calls, -a 1 and -a 2; dial; the mux of both.
SPECIFICATION MCSpec
CONSTANTS
  Call <- TwoCalls
  Setups <- AllSetups
  Calls = 4
  MuxSetups <- AllMuxSetups
INVARIANTS ListenInv MuxRight
PROPERTY EndsAfterHangUp
CHECK_DEADLOCK FALSE
