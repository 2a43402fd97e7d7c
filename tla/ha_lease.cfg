SPECIFICATION Spec
CONSTANTS
  Sessions = {s1, s2}
  Replicas = {a, b}
  MaxTime = 3
  Timeout = 1
  Refresh = 0
  AnyCaller = TRUE
  NULL = NULL
SYMMETRY Symmetry
INVARIANTS TypeOK LogLinesDisjoint AcceptedIsLogged IndInv
PROPERTIES LeasesAbut NewLineHasNewKey OneReplicaPerInstant
