SPECIFICATION Spec
CONSTANTS
  Rotation = 2
  Validity = 3
  Remotes = {}
  MaxGap = 1
  MaxTime = 4
  MaxKeys = 2
  MaxSeq = 2
  MaxCrashes = 0
INVARIANT KeyOutlivesToken
CHECK_DEADLOCK FALSE
