CONSTANTS
  d1 = d1
  d2 = d2
  s1 = s1
  s2 = s2
  c1 = c1
  c2 = c2
  e1 = e1
  e2 = e2
  e3 = e3
  t1 = t1
  t2 = t2
  t3 = t3
  t4 = t4
  Tokens = {t1, t2, t3, t4}
  None = None
  Docs = {d1, d2}
  ShardOf <- MCOwnShards
  Callers = {c1, c2}
  Entries = {e1, e2, e3}
  Lapses = FALSE
  Faults = FALSE
SPECIFICATION Spec
SYMMETRY MCSymmetry
VIEW MCView
INVARIANTS LeaseActive LeaseAccounted
CHECK_DEADLOCK FALSE
