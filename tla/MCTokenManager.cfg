SPECIFICATION FairSpec
CONSTANTS
  Key = {k1, k2, k3}
  Name = {}
  UNNAMED = UNNAMED
  None = None
  QueueType = {q1}
  Selector = {s1, s2}
  MaxSlots = 3
INVARIANTS IdMapExact QueueExact FreeIdsExact UnnamedAddSucceeds NoFault
PROPERTIES RemoveKeepsPlace ImplementsStore EveryUsableServed
