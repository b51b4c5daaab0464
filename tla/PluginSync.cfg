SPECIFICATION FairSpec
CONSTANTS
  Processes = {p1, p2}
  Entities = {"categories", "products"}
  Full <- MCFull
  Incremental <- MCIncremental
  Items <- MCItems
  Limit = 1
  MaxAdmin = 3
  MaxFaults = 1
INVARIANTS
  CursorIsBacked
  PassedIsIngested
  QueueIsDriven
PROPERTY
  QueueDrains
CHECK_DEADLOCK FALSE
