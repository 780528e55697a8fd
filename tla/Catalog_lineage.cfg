SPECIFICATION CatalogSpec
CONSTANTS
  Names = {"a", "b", "c"}
  Content <- Library
  Batches <- Changing
  Writers = {"w1", "w2"}
  Readers = {}
  Absent = Absent
  MaxSnapshots = 3
CHECK_DEADLOCK FALSE
INVARIANTS LineageIsCurrent
