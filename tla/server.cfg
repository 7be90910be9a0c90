CONSTANTS
  r1 = r1
  r2 = r2
  r3 = r3
  x = x
  y = y
  c1 = c1
  c2 = c2
  Null = Null
  None = None
  Here = Here
  Requests = {r1, r2, r3}
  Ids = {x, y}
  IdOf <- MCIdOf
  Clients = {c1, c2}
  ClientOf <- MCClientOf
  MaxConnections = 2
  Periodic = TRUE
  PersistOnClose = TRUE
  MaxClock = 1
  MaxEntries = 1
  MaxEvents = 2
SPECIFICATION Spec
INVARIANTS ResourcesBalanced ServingIsRegistered NoGhosts PresenceReaches
VIEW MCView

CHECK_DEADLOCK FALSE
PROPERTY LostRoomEnds
