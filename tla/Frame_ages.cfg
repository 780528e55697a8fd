SPECIFICATION Spec
CONSTANTS
  source = source
  bridge = bridge
  strict = strict
  q1 = q1
  q2 = q2
  Queries = {q1, q2}
  Relations = {source, bridge, strict}
  Deps <- Catalog
  Order <- InputsFirst
  Policy <- Policies
  Options <- Asked
  Generations = {g1, g2, g3}
  Timeout = 1
  MaxClock = 3
SYMMETRY Interchangeable
INVARIANTS OneGenerationPerFrame DataWithinLimits RefreshIsNew
