CONSTANTS
  MaxSessions = 1
  StopQueue = 2
  KeptStopped = 0
SPECIFICATION Spec
INVARIANTS
  NoAckAfterStop
CHECK_DEADLOCK FALSE
