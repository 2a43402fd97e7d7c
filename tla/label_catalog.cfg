SPECIFICATION Spec
CONSTANTS
  Sessions = {s1, s2}
  Metrics = {m1, m2}
  MaxKey = 2
  NameKey = 0
  MaxLabel = 3
  KeyOf <- OneValueEach
  StorageRank <- Reversed
  Requests <- NamedRequests
  NULL = NULL
SYMMETRY Symmetry
INVARIANTS IndInv NoPositionConflict IdsNeverDeadlock
PROPERTIES PositionsAppended
