\* Four changes by windows that stall and crash anywhere; one old revision is kept.
CONSTANTS
  reset = reset
  low = low
  low2 = low2
  high = high
  Changes = {reset, low, low2, high}
  Level <- LevelOf
  None = None
  Kept = 1
  LockTries = 2
  ClaimRetries = 2
SYMMETRY TwoLows
CONSTRAINT OneRetry
SPECIFICATION Spec
INVARIANTS
  STypeOK
  LostOnlyFarBehind
  ClaimedOnce
PROPERTIES
  RegisterKept
CHECK_DEADLOCK FALSE
