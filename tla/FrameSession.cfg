SPECIFICATION FSpec
CONSTANTS
  Frame <- MCFrame
  Launch <- MCLaunch
  OwnerOf <- MCOwner
  Param <- MCParam
  GeoModules <- MCModules
  NoFrame = NoFrame
  Sessions <- MCSessions
  Size = 3  Base = 4  Word = 8
  MaxN = 4  MaxThreads = 3  MaxSeed = 3
INVARIANTS PublishedPrefix NoWildAccess OwnGeometry RefusalExplained SharesPartition
CHECK_DEADLOCK FALSE
