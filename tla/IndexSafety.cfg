CONSTANTS
  u1 = u1
  u2 = u2
  u3 = u3
  u4 = u4
  p1 = p1
  p2 = p2
  n1 = n1
  n2 = n2
  None = None
  Uuids = {u1, u2, u3, u4}
  Parents = {p1, p2}
  Names = {n1, n2}
SPECIFICATION Spec
SYMMETRY IndexSymmetry
INVARIANTS LookupIsSound LookupIsComplete
CHECK_DEADLOCK FALSE
