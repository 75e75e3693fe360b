\* Two units of a window that fails, closes or crashes; another window recovers them.
CONSTANTS
  a = a
  b = b
  first = first
  second = second
  Hosts = {a, b}
  Units = {first, second}
  Owner <- OwnerOf
  MaxRequests = 1
CONSTRAINT Witness
SPECIFICATION FairSpec
INVARIANTS
  QTypeOK
  NothingWithoutStart
PROPERTIES
  DurableUnlessNoDirectories
  GoneIsClosed
CHECK_DEADLOCK FALSE
