\* One unit of a window that stays: an event waits for good once the directories could not be made.
CONSTANTS
  a = a
  b = b
  first = first
  second = second
  Hosts = {a}
  Units = {first}
  Owner <- OwnerOf
  MaxRequests = 1
SPECIFICATION FairSpec
PROPERTIES
  RetriedUntilDurable
CHECK_DEADLOCK FALSE
