CONSTANTS
  a = a
  b = b
  d1 = d1
  d2 = d2
  s1 = s1
  s2 = s2
  u = u
  Ctl = Ctl
  None = None
  Nodes = {a, b}
  ConfigTokens = {}
  Docs = {d1, d2}
  Rank <- MCRank
  Shards = {s1, s2}
  ShardOf <- MCShardOf
  Users = {u}
  UserNode <- MCUserNode
  CtlNode = a
  TTL = 1
  MaxStaleness = 1
  Reports <- MCReports
  IncludeDraining = FALSE
  MaxMoves = 0
  PromoteIfOwnerMissing = TRUE
  FirstSeen <- MCFirstSeen
  MaxClock = 2
  MaxEpoch = 8
  MaxEvents = 2
SPECIFICATION Spec
INVARIANTS ReportsTrue PlanBalances
PROPERTY SettlesOrStops
CHECK_DEADLOCK FALSE
