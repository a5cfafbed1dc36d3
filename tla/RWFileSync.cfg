SPECIFICATION RWFileSpec
CONSTANT FileThreads = {p1, p2}
INVARIANT SyncReturnsDurable
CHECK_DEADLOCK FALSE
