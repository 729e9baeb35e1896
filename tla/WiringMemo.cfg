SPECIFICATION Spec
CONSTANTS
  Node <- MCNode
  Lane <- MCLane
  Tasks <- MCTasks
  Class <- MCClass
  ClassOf <- MCClassOf
  Wirings <- MCWirings
  Absents <- MCAbsents
  Picks <- MCPicks
INVARIANTS StoredIsMeant EventsMirrorWorker RefusedForCause
CHECK_DEADLOCK FALSE
