SPECIFICATION ServingSpec
CONSTANTS
  None = None
  Handles = {h1, h2}
  Autocommits = {h2}
  Connections = {c1, c2}
  Tables = {t1}
  MaxCalls = 1
  MaxLosses = 0
  s1 = s1
  s2 = s2
  e1 = e1
  s3 = s3
  e2 = e2
  e3 = e3
  Scans = {s1, s2, s3}
  Deferred = {e1, e2, e3}
  Relation <- Contracts
  Scannable <- TablesOf
  Sources = {"s"}
  Schemas = {"x", "y"}
  NoTable = NoTable
  MaxCached = 1
  MaxResolutions = 1
  MaxCold = 2
CHECK_DEADLOCK FALSE
PROPERTIES TransactionsEnd ScansServed
