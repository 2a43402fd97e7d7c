SPECIFICATION Spec
CONSTANTS
  Sessions = {s1, s2}
  Replicas = {a, b}
  MaxTime = 3
  Timeout = 1
  Refresh = 0
  AnyCaller = FALSE
  NULL = NULL
SYMMETRY Symmetry
INVARIANTS OpenLineIsLeaders
