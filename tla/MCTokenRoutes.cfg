SPECIFICATION RouteSpec
CONSTANTS
  Key = {k1, k2}
  Name = {n1}
  UNNAMED = UNNAMED
  None = None
  QueueType = {q1}
  Selector = {}
  MaxSlots = 2
  RequestStatus = {"enabled", "disabled"}
  MaxDetached = 1
SYMMETRY Symmetry
CHECK_DEADLOCK FALSE
INVARIANTS AliasesExact DiskCurrent LoadNeverRefuses
PROPERTY RestartRestores
