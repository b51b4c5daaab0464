SPECIFICATION Spec
CONSTANTS
  Processes = {p1}
  Entities = {"categories", "products"}
  Full <- MCFull
  Incremental <- MCIncremental
  Items <- MCItems
  Limit = 1
  MaxAdmin = 1
  MaxFaults = 0
INVARIANT
  FullSyncIsComplete
CHECK_DEADLOCK FALSE
