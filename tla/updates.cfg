SPECIFICATION MCSpec
CONSTANTS
  Width <- MCWidth
  Clients = {0, 1}
  Workers = {1, 2}
  SequentialMax = 4
  Logs <- MCLogs
  Updates <- MCUpdates
  MaxLive = 4
  Top <- MCTop
  Operands <- MCOperands
  Client = 0
  Contents <- MCContents
  Brought <- MCBrought
  Foreign <- MCForeign
INVARIANTS
  DocumentExact
  WireFaithful
  DiffCompletes
  SelectionExact
  PersistKeepsLive
  IdSetExact
  StructsExact
PROPERTIES
  PassesComplete
  AggregationEnds
CHECK_DEADLOCK FALSE
