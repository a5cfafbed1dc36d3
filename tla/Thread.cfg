SPECIFICATION OsSpec
CONSTANTS
  Joiners = {j1, j2}
  WarnAfter = 2
  WarnEvery = 3
  GiveUpAfter <- MCGiveUpAfter
  MaxWait = 5
  Acceptors = {a1, a2}
  Callers = {c1, c2}
  Owner = c1
  MaxConnections = 2
  Streams = {"in", "out"}
  MaxStarts = 2
  MaxLength = 4
  FileThreads = {p1, p2}
INVARIANTS
  NoUseAfterFree
  JoinContract
  NoThreadOutlivesPool
  NothingLeftBehind
  SyncedIsDurable
  NoOrphanedWrite
PROPERTIES
  HandleReleasedOnce
  ClosedFileIsTrimmed
  CallsReturn
CHECK_DEADLOCK FALSE
