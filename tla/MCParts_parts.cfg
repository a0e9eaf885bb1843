SPECIFICATION MCSpec
CONSTANTS
  Board = {1, 2}
  Key = {"super", "alt", "f4"}
  Super = {"super"}
  Modifier = {"alt"}
  Alt = "alt"
  F4 = "f4"
  MaxPending = 1
  MaxUp = 2
  MaxDown = 2
  Kind = {"plain", "break"}
  QueueRoom = 1
  SocketRoom = 1
  TellRoom = 1
  SendRoom = 1
  File = {1, 2}
  Grant <- MCGrant
  Conn = {1, 2}
  MaxConnections = 2
  MaxWrites = 2
  MaxLives = 2
  Helper = {"h1", "h2"}
  Point = {"p", "q"}
  Image = {"i", "j"}
  MaxDevices = 1
  Device = {"d1", "d2"}
  Connector = {"a", "b"}
  Crtc = {"x"}
  MaxOutputs = 2
  Fingers = {2, 3}
  MinFingers = 3
  Threshold = 1
  MaxSwipes = 2
  MaxAppds = 2
  App = {"a", "b"}
  MaxOpen = 2
  Launcher = {"l1", "l2", "l3"}
  Host = {"name", "address"}
  Address = {"address"}
  MaxDeclared = 2
  Memory = {"m1", "m2"}
  MaxMemory = 4
  OwnMaximum <- MCOwnMaximum
  MaxOutput = 2
  PipeRoom = 1
  MaxWritten = 4
INVARIANTS
  ShellAnswers
  WritesAreWhole
  MountsAreVerified
  OutputsBacked
  ForwardingSound
  RestoresWhatWasOpen
  DataIsWhole
  AccessIsDeclared
  CallsAreBounded
PROPERTIES
  EndpointFound
  ShortcutsAreWhole
  RelayKeepsOrder
CHECK_DEADLOCK FALSE
