SPECIFICATION DFair
CONSTANTS
  Kits <- MCKits
  MapPath <- MCMap
  PinsPath <- MCPins
  SealPath <- MCSeal
  Sessions <- MCSessions
  Last = 1
INVARIANTS EveryPinAccepted NamesResolve LoadedIsPinned CodeMeansThisRun ExitMeansVerdict
PROPERTIES BothEnd
CHECK_DEADLOCK FALSE
