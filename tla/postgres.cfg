CONSTANTS
  a = a
  b = b
  c1 = c1
  c2 = c2
  s1 = s1
  s2 = s2
  None = None
  Nodes = {a, b}
  ConfigTokens = {}
  Shards = {s1, s2}
  Clients = {c1, c2}
  NodeOf <- MCNodeOf
  TTL = 1
  MaxClock = 1
  MaxEpoch <- MCMaxEpoch
  MaxOffset = 2
SYMMETRY MCSymmetry
SPECIFICATION PSpec
INVARIANTS NoDeadlockVictim
PROPERTIES ImplementsAtomicStore RecordsAppearInOrder
