CONSTANTS
  shell = shell
  other = other
  a1 = a1
  a2 = a2
  A = A
  Outside = Outside
  NoWindow = NoWindow
  Sid = {A}
  Window <- MCWindow
  Owner <- MCOwner
  Output = {"large", "small"}
  Height <- MCHeight
  Zone <- MCZone
  MaxLive = 1
  MaxPanels = 1
SPECIFICATION Spec
INVARIANTS
  FocusInFront
  FocusTakenOnce
  LaidOut
PROPERTIES
  StackingKept
CHECK_DEADLOCK FALSE
