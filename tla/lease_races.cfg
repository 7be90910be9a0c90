CONSTANTS
  a = a
  b = b
  m1 = m1
  m2 = m2
  m3 = m3
  s1 = s1
  tok = tok
  None = None
  NoToken = NoToken
  Nodes <- MCNodes
  ConfigTokens = {tok}
  Shards = {s1}
  Managers <- MCPair
  HolderOf <- MCHolderOf
  ShardOf <- MCShardOf
  ConfigToken <- MCConfigToken
  Skew <- MCSkewed
  TTL = 2
  RenewWithin = 1
  MaxClock = 3
  MaxEpoch = 3
SPECIFICATION Spec
INVARIANTS StoredIsNewest GenerationUnique
PROPERTY ImplementsAuthority
