SPECIFICATION FairSpec
CONSTANTS
  Leaves = {a, b}
  MaxLeaves = 7
  Limit = 3
INVARIANTS
  RootHoldsTheList
CHECK_DEADLOCK FALSE
