SPECIFICATION FairSpec
CONSTANTS
  Connectors = {c1}
  Workers = {w1}
  Raw = raw
  Views = {}
  Labels = {l1}
  Timescale = TRUE
  MaxId = 2
  MaxTime = 0
  MaxEpoch = 5
  Span = 1
  NULL = NULL
PROPERTIES MarkedEventuallyResolved
