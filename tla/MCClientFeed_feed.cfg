CONSTANTS
  MaxSession = 2
  Bridged = 1
  Capacity = 2
  Buffer = 1
  MaxDrop = 1
  MaxInstance = 2
SPECIFICATION FairSpec
INVARIANTS
  TaskbarCatchesUp
  BridgeSeesStop
PROPERTIES
  TaskbarConverges
CHECK_DEADLOCK FALSE
