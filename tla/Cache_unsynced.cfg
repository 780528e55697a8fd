SPECIFICATION Spec
CONSTANTS
  None = None
  m1 = m1
  m2 = m2
  r1 = r1
  r2 = r2
  r3 = r3
  Managers = {m1, m2}
  Requests = {r1, r2}
  Home <- HomePairs
  Keys = {k1}
  Generations = {g1, g2, g3}
  MaxDisk = 2
  MaxMemory = 1
  MaxFill <- FillOne
  MaxAge <- AgeOne
  MaxEncoded = 1
  MaxClock = 0
  MaxFaults = 0
  TornManifest = FALSE
  SyncFailure = TRUE

INVARIANTS FailedFillNotPublished
