SPECIFICATION Spec
CONSTANTS
  MaxSeq = 5
  BUFFER_CAPACITY = 2
  MAX_PENDING_MESSAGES = 2
  OUT_OF_ORDER_THRESHOLD = 1
CHECK_DEADLOCK FALSE
INVARIANTS InOrder NothingLost
PROPERTY EventuallyWritten
