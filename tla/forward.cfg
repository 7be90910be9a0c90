CONSTANTS
  e = e
  o = o
  None = None
  Edge = e
  Nodes = {e, o}
  MaxMoves = 2
  MaxStreams = 2
  MaxFrames = 1
  MaxWrites = 1
SPECIFICATION Spec
INVARIANTS SessionAgreed HandlesBalanced NothingMissed
PROPERTIES Settles OrphansEnd
CHECK_DEADLOCK FALSE
