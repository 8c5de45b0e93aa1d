SPECIFICATION RequestSpec
CONSTANTS
  Request = {r1, r2}
  Reader = {d1}
  Saver = d1
  Key = {k1, k2}
  None = None
  Limit = 2
  ChanCap = 1
  MaxLoaded = 2
  MaxRestarts = 1
CHECK_DEADLOCK FALSE
INVARIANT ActiveIsCurrent
