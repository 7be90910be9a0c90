CONSTANTS
  a = a
  b = b
  c1 = c1
  c2 = c2
  r1 = r1
  r2 = r2
  None = None
  Nodes = {a}
  Conns = {c1, c2}
  NodeOf <- MCTogether
  Rooms = {r1, r2}
  PageSize = 1
  MaxOffset = 3
  MaxGen = 2
SPECIFICATION Spec
PROPERTY CheckpointAdvances
VIEW MCView
SYMMETRY MCTogetherSymmetry
