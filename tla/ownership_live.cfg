CONSTANTS
  d1 = d1
  d2 = d2
  s1 = s1
  s2 = s2
  c1 = c1
  c2 = c2
  e1 = e1
  e2 = e2
  e3 = e3
  t1 = t1
  t2 = t2
  t3 = t3
  t4 = t4
  Tokens = {t1, t2}
  None = None
  Docs = {d1}
  ShardOf <- MCSameShard
  Callers = {c1, c2}
  Entries = {e1, e2}
  Lapses = TRUE
  Faults = TRUE
SPECIFICATION FairSpec
INVARIANTS SingleRun RefsCounted
PROPERTIES CancelledEnds CallersAnswered
CHECK_DEADLOCK FALSE
