\* One result, two lanes, two restarts and every event; or a rework of it, and one restart, which may lose it.
CONSTANTS
  MaxRevision = 2
  MaxRestarts = 2
  Lanes = {"auto-wake", "collect-ready"}
  Events = {"decide", "stop", "remove", "shutdown"}
CONSTRAINT PlainRework
SPECIFICATION Spec
INVARIANTS
  RTypeOK
  RepeatedOnlyUnsaved
  BodyBehindIndex
  ReclaimedIsClosed
  
PROPERTIES
  HandedWhileOwed
CHECK_DEADLOCK FALSE
