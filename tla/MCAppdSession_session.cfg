CONSTANTS
  MaxSessions = 2
  StopQueue = 2
  KeptStopped = 0
SPECIFICATION MCSpec
INVARIANTS
  TypeOK
  ForcedStopPending
  NoReadyAfterStop
  BroadcastMatchesRegistry
  ReleasedWhenDone
  ImageOutlivesChildren
PROPERTIES
  ImplementsLifecycle
  WaitsEnd
  StopsEnd
CHECK_DEADLOCK FALSE
