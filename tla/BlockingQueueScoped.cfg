SPECIFICATION Spec
CONSTANTS
  e2 = e2
  Threads = {p1, p2}
  Elems = {e1, e2}
  Scoped = {e1, e2}
  Size <- MCSize
  MaxSize = 1
INVARIANT OwnershipFollowsElement
CHECK_DEADLOCK FALSE
