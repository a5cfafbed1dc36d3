SPECIFICATION SecuritySpec
CONSTANTS
  Rotation = 2
  Validity = 3
  Remotes = {v1}
  MaxGap = 1
  MaxTime = 6
  MaxKeys = 3
  MaxSeq = 3
  MaxCrashes = 1
  MinEarly = 1
  ShortEarly = 2
  Short = 3
  Long = 6
  MinBackoff = 2
  RenewMargin = 1
  Lifetime = 8
  RenewWindow = 18
  MaxKinitTime = 40
INVARIANTS
  SequenceNumbersIdentifyKeys
  SignerKnowsItsKeys
  RemotesHaveNoGaps
  OverhangBounded
  RenewalKeepsUp
PROPERTY KeysPropagateBeforeUse
CHECK_DEADLOCK FALSE
