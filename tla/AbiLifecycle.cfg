SPECIFICATION Spec
CONSTANTS
  Client = {c1, c2}
  Launch = {1, 2, 3, 25, 26, 58, 155, 156}
  OwnerOf <- MCOwnerOf
  Bare = {1}
  None = None
INVARIANTS IInv RunsOwnTables NothingLeftBehind
PROPERTIES TablesHeldStill
CHECK_DEADLOCK FALSE
