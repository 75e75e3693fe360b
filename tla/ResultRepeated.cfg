\* The hand-over does not wait for its save for ever: a crash repeats it.
CONSTANTS
  MaxRevision = 1
  MaxRestarts = 1
  Lanes = {"auto-wake"}
  Events = {}
SPECIFICATION Spec
INVARIANTS
  NeverRepeated
CHECK_DEADLOCK FALSE
