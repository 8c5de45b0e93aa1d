SPECIFICATION SerialSpec
CONSTANTS
  Handler = {h1, h2}
  Name = {sys, a, b}
  SYS_PROXY = sys
  Proxy = {Sys, p1}
  Sys = Sys
  Maps <- MCAllMaps
SYMMETRY MCSymmetry
CHECK_DEADLOCK FALSE
INVARIANTS PoolExact FaultNeedsEmptyMap SavedIsCurrent
PROPERTIES ClientsKept
