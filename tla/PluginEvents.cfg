SPECIFICATION FairSpec
CONSTANTS
  e1 = e1
  e2 = e2
  e3 = e3
  k1 = k1
  k2 = k2
  Processes = {p1, p2}
  Events = {e1, e2, e3}
  Keys = {k1, k2}
  KeyOf <- MCKeyOf
  MaxQueue = 2
  MaxBatch = 1
  MaxAdmin = 1
  MaxFaults = 1
INVARIANTS
  CapturedIsKept
  QueueIsASet
  EventsAreDriven
PROPERTY
  EventsAreDelivered
CHECK_DEADLOCK FALSE
