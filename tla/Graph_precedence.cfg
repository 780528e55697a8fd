SPECIFICATION GraphSpec
CONSTANTS
  Null = Null
  Proposals <- Graphs
  Leaves <- RowQueries
  Relationships <- Authored
  Ids = {"k", "j"}
  Literals = {0, 1}
  Tree <- Trees
  MaxExpanded = 6
  MaxDepth = 3
INVARIANT EmittedAgrees
CHECK_DEADLOCK FALSE
