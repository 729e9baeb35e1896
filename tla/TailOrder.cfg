SPECIFICATION FairSpec
CONSTANTS
  Client = {c1, c2}
  Frame = {1, 2}
  None = None
INVARIANTS RetiredBetweenCalls
PROPERTIES TailInOrder LockReturns
CHECK_DEADLOCK FALSE
