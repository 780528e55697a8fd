SPECIFICATION WaitsSpec
CONSTANTS
  Nothing = Nothing
  a = a
  b = b
  adaptive = adaptive
  x = x
  y = y
  s2 = s2
  s3 = s3
  c1 = c1
  c2 = c2
  c3 = c3
  i1 = i1
  i2 = i2
  Calls = {c1, c2, c3}
  Locks = {l1, l2}
  l1 = l1
  l2 = l2
  Identities = {i1, i2, adaptive}
  Snapshots = {s2, s3}
  Lookups = {a, b}
  Results = {x, y, Nothing}
  Values <- Analyses
  Result <- FoundBy
  Declared <- Looks
  Value <- Analysis
  Sizes = {1, 2, 3}
  MaxEntries = 2
  MaxBytes = 2
  MaxLookups = 2
  MaxActive = 2
  None = None
  m1 = m1
  m2 = m2
  r1 = r1
  r2 = r2
  r3 = r3
  Managers = {m1, m2}
  Requests = {r1, r2, r3}
  Home <- HomeThree
  Keys = {k1}
  Generations = {g1, g2, g3}
  MaxDisk = 2
  MaxMemory = 0
  MaxFill <- FillOne
  MaxAge <- AgeOne
  MaxEncoded = 1
  MaxClock = 0
  MaxFaults = 1
  TornManifest = FALSE
  SyncFailure = TRUE
INVARIANTS AnswersFit OneBuilder RetainedIsSum
PROPERTIES WaitersServed RefusedOnlyWhenFull LocksComeBack
CHECK_DEADLOCK FALSE
