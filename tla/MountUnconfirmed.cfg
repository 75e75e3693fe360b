\* A removal that fails leaves an approval that nobody gave.
CONSTANTS
  x = x
  y = y
  x1 = x1
  x2 = x2
  y1 = y1
  Sessions = {x, y}
  Starts = {x1, x2, y1}
  SessionOf <- SessionOfStart
  MaxMounts = 3
SPECIFICATION Spec
INVARIANTS
  MountedIsConfirmed
CHECK_DEADLOCK FALSE
