CONSTANTS
  r1 = r1
  r2 = r2
  r3 = r3
  c1 = c1
  c2 = c2
  s1 = s1
  s2 = s2
  Rows = {r1, r2, r3}
  Collections = {c1, c2}
  Subs = {s1, s2}
  CollectionOf <- TwoCollections
  Target <- CollectionAndRow
  MaxChanges = 2
  MaxSubChanges = 2
  MaxUnusual = 1
SPECIFICATION Spec
INVARIANTS EveryChangeIsTold
CHECK_DEADLOCK FALSE
