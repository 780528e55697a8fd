SPECIFICATION PathSpec
CONSTANTS
  Names = {"a", "b", "c"}
  Content <- Library
  Batches <- Changing
  Writers = {"w1", "w2"}
  Readers = {u1}
  Absent = Absent
  MaxSnapshots = 3
  Null = Null
  Proposals <- Graphs
  Leaves <- RowQueries
  Relationships <- Authored
  Ids = {"k", "j"}
  Literals = {0, 1}
  Tree <- Trees
  MaxExpanded = 6
  MaxDepth = 3
  q1 = q1
  t1 = t1
  t2 = t2
  t3 = t3
  p1 = p1
  p2 = p2
  e1 = e1
  e2 = e2
  e3 = e3
  e4 = e4
  Queries = {q1}
  Tasks = {t1, t2, t3}
  Scans = {t1, t2, t3}
  Partitions = {p1, p2}
  Owner <- OwnerOf
  Amounts = {1, 2}
  Budget = 2
  MaxUsize = 3
  Deferred = {e1, e2, e3, e4}
  Relation <- Contracts
  Scannable <- TablesOf
  Sources = {"s"}
  Schemas = {"x", "y", "z"}
  NoTable = NoTable
  MaxCached = 2
  MaxResolutions = 1
  MaxCold = 2
INVARIANTS PathTypeOK ValidatedAsAWhole ChecksLagByOne UnaffectedKeepsMeaning IndexIsOfItsSnapshot
INVARIANTS OrderIsTopological NullsAreDeclared ComposedGrainsIdentify RowsAreAsDefined EmittedAgreesUnnested
INVARIANTS ChargesAddUp NoWakeupIsLost NothingLeaks FollowersCoalesce ProvidersFit
PROPERTIES NoLostUpdate
CHECK_DEADLOCK FALSE
