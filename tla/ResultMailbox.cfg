\* Three results, two slots, room for less than two of the longest texts.
CONSTANTS
  Keys = {k1, k2, k3}
  Completions = {e1, e2}
  brief = brief
  long = long
  Texts = {brief, long}
  Size <- SizeOf
  None = None
  MaxSlots = 2
  BodyBytes = 2
  TotalBytes = 3
  MaxMade = 3
  MaxMinted = 2
SYMMETRY Alike
SPECIFICATION Spec
INVARIANTS
  MTypeOK
  WithinBounds
  ClaimsHeld
  AckedOnce
  ClosingIsReleased
PROPERTIES
  LeavesByItsRelease
  PromiseKept
CHECK_DEADLOCK FALSE
