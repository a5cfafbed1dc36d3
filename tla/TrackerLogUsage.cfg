SPECIFICATION TreeSpec
CONSTANTS
  TreeThreads = {p1, p2}
  MaxTrackers = 2
INVARIANT NoRecursiveAcquisition
CHECK_DEADLOCK FALSE
