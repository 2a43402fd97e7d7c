\* A condition on a tag under a NOT; the other parts are as in compiled_code.cfg.
CONSTANTS
  Null = Null
  None = None
  STALE_NAN = STALE_NAN
  USECS_PER_MS = 2
  Workers = {w1, w2}
  Leader = leader
  Tables <- MCTables
  Queries <- MCQueries
  MaxAlloc = 100
  Inputs <- MCInputs
  Calls <- MCCalls
  USECS_PER_SEC = 3
  Keys = {"a", "b"}
  Values = {"1.01", "1.010", "x"}
  Class <- MCClass
  Spans = {s1, s2}
  MaxTags = 3
  Conditions <- NegatedConditions
  Jsonbs <- MCJsonbs
  IndexBytes = 2
  Patterns = {"p", "q", "r", "s", "(", "["}
  Valid = {"p", "q", "r", "s"}
  CACHE_SIZE = 2
  Releases <- MCReleases
  Tolerated = {"1-extension"}
  Connectors = {c1, c2}
  Standard = {"service.name"}
  NewKeys = {"k"}
  TagValues = {"1"}
  Services = {"x", "y"}
  SpanNames = {"o"}
  Urls = {"u"}
  Libs = {"l"}
  TagTypes = {"span", "resource"}
  Workloads <- MCWorkloads
  MaxId = 2
INIT MCInit
NEXT MCNext
PROPERTIES
  SelectsNamesakeRowsNegated
CHECK_DEADLOCK FALSE
