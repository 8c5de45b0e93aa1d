SPECIFICATION UsageSpec
CONSTANTS
  Key = {k1, k2}
  Name = {n1, n2}
  UNNAMED = UNNAMED
  None = None
  QueueType = {q1}
  Selector = {}
  MaxSlots = 2
  Task = {t1}
CHECK_DEADLOCK FALSE
PROPERTY ProfileOfOwnToken
