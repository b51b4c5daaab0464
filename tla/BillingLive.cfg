SPECIFICATION FairSpec
CONSTANTS
  Attempts = {a1, a2}
  Processes = {p1, p2}
  Notices = {"paid"}
  Answers = {"ref_id", "authority"}
  Signatures = {TRUE}
  MaxPeriod = 1
  MaxFaults = 0
PROPERTY CollectedIsSettled
CHECK_DEADLOCK FALSE
