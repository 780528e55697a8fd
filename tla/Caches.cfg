SPECIFICATION CachesSpec
CONSTANTS
  None = None
  m1 = m1
  m2 = m2
  r1 = r1
  r2 = r2
  r3 = r3
  Managers = {m1, m2}
  Requests = {r1, r2, r3}
  Home <- HomeThree
  Keys = {k1, k2}
  Generations = {g1, g2, g3}
  MaxDisk = 3
  MaxMemory = 2
  MaxFill <- FillTwo
  MaxAge <- AgeOne
  MaxEncoded = 2
  MaxClock = 0
  MaxFaults = 1
  TornManifest = TRUE
  SyncFailure = FALSE
SYMMETRY Symmetric
INVARIANTS CurrentIsComplete ReadersKeepTheirFiles CommittedWithinBudget MemoryWithinBudget OutdatedNeverCurrent
PROPERTIES ImplementsStore SingleFlight
