CONSTANTS
  a = a
  b = b
  c1 = c1
  c2 = c2
  r1 = r1
  r2 = r2
  None = None
  Nodes = {a, b}
  Conns = {c1, c2}
  NodeOf <- MCApart
  Rooms = {r1, r2}
  PageSize = 1
  MaxOffset = 2
  MaxGen = 3
SPECIFICATION Spec
INVARIANTS AckedDurable OwnerRoomComplete LogEpochsOrdered
PROPERTY CheckpointAdvances
VIEW MCView
SYMMETRY MCRoomSymmetry
