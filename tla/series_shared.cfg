SPECIFICATION Spec
CONSTANTS
  Connectors = {c1}
  Workers = {w1}
  Raw = raw
  Views = {agg}
  Labels = {l1}
  Timescale = TRUE
  MaxId = 2
  MaxTime = 0
  MaxEpoch = 5
  Span = 1
  NULL = NULL
PROPERTIES DeletedSeriesAreDead
