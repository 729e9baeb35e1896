SPECIFICATION FairSpec
CONSTANTS
  t1 = t1  t2 = t2  t3 = t3
  c1 = c1  c2 = c2  c3 = c3
  Thread = {w1, w2}
  Caller = caller
  Task = {t1, t2, t3}
  Cell = {c1, c2, c3}
  None = None
  StoreMaps <- MCMaps
  FailFast = TRUE
  CallerWorks = TRUE
  SkipIdle = FALSE
INVARIANTS IInv ReturnedComplete NoSilentFailure NoStoreRace
PROPERTIES Implements Terminates
CHECK_DEADLOCK FALSE
