\* Three starts of two sessions, three mounts, removals and returns.
CONSTANTS
  x = x
  y = y
  x1 = x1
  x2 = x2
  y1 = y1
  Sessions = {x, y}
  Starts = {x1, x2, y1}
  SessionOf <- SessionOfStart
  MaxMounts = 3
SPECIFICATION FairSpec
INVARIANTS
  MTypeOK
  PausedForTheWaiting
  OnlyRemovalAborts
  RemovedIsUnmounted
PROPERTIES
  ClockRunsAgain
CHECK_DEADLOCK FALSE
