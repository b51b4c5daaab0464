SPECIFICATION Spec
CONSTANTS
  Attempts = {a1}
  Processes = {p1, p2}
  Notices = {"paid"}
  Answers = {"ref_id"}
  Signatures = {TRUE}
  MaxPeriod = 1
  MaxFaults = 0
INVARIANT SettledOnce
CHECK_DEADLOCK FALSE
