SPECIFICATION SyncSpec
CONSTANTS
  e2 = e2
  Threads = {p1, p2, p3}
  Elems = {e1, e2, e3}
  Scoped = {e1}
  Size <- MCSize
  MaxSize = 2
  Spinners = {p1, p2, p3}
  OnceCallers = {p1, p2, p3}
  RWThreads = {p1, p2, p3}
  RWWriters = {p1, p2}
  NumCpus = 2
  RWCThreads = {p1, p2, p3, p4}
  Parties = {p1, p2, p3}
  InitialCount = 2
  MaxCycles = 4
INVARIANTS
  SizeAccounts
  FifoDelivery
  NoLostWakeup
  LocksExclude
  WaitersHaveWakers
PROPERTIES
  ShutdownFreezes
  CallsReturnAfterShutdown
  LockContracts
  LockCallsReturn
CHECK_DEADLOCK FALSE
