CONSTANTS
  MaxSessions = 1
  StopQueue = 2
  KeptStopped = 0
SPECIFICATION Spec
INVARIANTS
  StoppedReplyIsTrue
CHECK_DEADLOCK FALSE
