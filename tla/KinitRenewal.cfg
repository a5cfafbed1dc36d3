SPECIFICATION KinitSpec
CONSTANTS
  MinEarly = 1
  ShortEarly = 2
  Short = 3
  Long = 6
  MinBackoff = 2
  RenewMargin = 1
  Lifetime = 8
  RenewWindow = 18
  MaxKinitTime = 40
INVARIANT OkMeansTicket
CHECK_DEADLOCK FALSE
