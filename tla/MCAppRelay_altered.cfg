CONSTANTS
  MaxUp = 2
  MaxDown = 1
  Kind = {"plain", "cr"}
  QueueRoom = 1
  SocketRoom = 1
  TellRoom = 1
  SendRoom = 1
SPECIFICATION Spec
INVARIANT Unaltered
CHECK_DEADLOCK FALSE
