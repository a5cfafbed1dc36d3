SPECIFICATION MCSpec
CONSTANTS
  root = root
  mid = mid
  leaf = leaf
  Threads = {p1, p2}
  Trackers = {root, mid, leaf}
  AllTrackers <- MCAllTrackers
  Limit <- MCLimit
  SoftLimit <- MCSoftLimit
  Amounts = {1}
  MaxTotal = 3
  TreeThreads = {p1, p2}
  MaxTrackers = 2
SYMMETRY Symmetry
INVARIANTS
  ConsumptionBalances
  PeakIsHighWater
  TrackersSound
PROPERTY OnlyConsumeExceedsLimit
CHECK_DEADLOCK FALSE
