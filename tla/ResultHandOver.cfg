\* Liveness: one result, two lanes, one crash, and no answer of the storage assumed.
CONSTANTS
  MaxRevision = 1
  MaxRestarts = 1
  Lanes = {"auto-wake", "collect-ready"}
  Events = {"decide", "stop"}
SPECIFICATION FairSpec
PROPERTIES
  StorageNeverBlocks
CHECK_DEADLOCK FALSE
