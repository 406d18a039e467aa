CONSTANTS
  Tasks = {t1, t2, t3}
  None = None
  BadRules = TRUE
  Pings = {p1, p2}
  NoPing = NoPing
SPECIFICATION BackendSpec
INVARIANTS SlotIsLive NoOrphan PingsRegistered
PROPERTIES CancelledLetsGo StopStops StartStarts
CHECK_DEADLOCK FALSE
