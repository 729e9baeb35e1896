SPECIFICATION BSpec
CONSTANTS
  Client = {c1, c2}
  Launch = {3, 25, 58, 59}
  OwnerOf <- MCOwnerOf
  Bare = {}
  Mapped = {3, 25, 58}
  None = None
INVARIANTS NoWeightsLeft SerialNeverRefused
CHECK_DEADLOCK FALSE
