SPECIFICATION Spec
CONSTANTS
  None = None
  Handles = {h1, h2}
  Autocommits = {h2}
  Connections = {c1, c2}
  Tables = {t1, t2}
  MaxCalls = 2
  MaxLosses = 1
CHECK_DEADLOCK FALSE
SYMMETRY Symmetric
INVARIANTS TypeOK CommittedIsDurable AbortedIsNotDurable AllOrNothing PooledIsIdle
PROPERTY ImplementsWrites
