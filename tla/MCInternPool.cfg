SPECIFICATION Spec
CONSTANTS
  s1 = s1
  r1 = r1
  r2 = r2
  k1 = k1
  None = None
  Owner = {o1, o2, o3, o4}
  Text = {s1}
  Raw = {r1, r2}
  TokenKey = {k1}
  RawKey <- MCRawKey
  Addr = {a1, a2, a3, a4}
SYMMETRY Symmetry
CHECK_DEADLOCK FALSE
INVARIANTS PointersValid OneInstance NoLeak FaultNeedsRevival
