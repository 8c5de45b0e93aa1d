SPECIFICATION Spec
CONSTANTS
  Request = {r1, r2}
  Reader = {d1}
  Key = {k1, k2}
  None = None
  Limit = 2
  ChanCap = 2
  MaxLoaded = 0
CHECK_DEADLOCK FALSE
PROPERTY UpdateReachesOwnLog
