SPECIFICATION SubprocessSpec
CONSTANTS
  Streams = {"in", "out"}
  MaxStarts = 2
INVARIANT StartReturnsAfterExec
CHECK_DEADLOCK FALSE
