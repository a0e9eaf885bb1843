CONSTANTS
  Sid = {1, 2}
  MaxLife = 2
  MaxConn = 2
  MaxQueue = 1
  MaxWork = 2
  MaxFaults = 1
  MaxPendingFds = 1
  MaxOut = 1
SPECIFICATION FairSpec
INVARIANTS
  DescriptorsMatch
  ClientsMatch
PROPERTIES
  OrderKept
  GoneIsReleased
  QueueDrains
CHECK_DEADLOCK FALSE
