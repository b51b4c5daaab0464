SPECIFICATION Spec
CONSTANTS
  Attempts = {a1, a2}
  Processes = {p1, p2}
  Notices = {"paid", "failed"}
  Answers = {"ref_id", "authority"}
  Signatures = {TRUE, FALSE}
  MaxPeriod = 2
  MaxFaults = 1
SYMMETRY Interchangeable
INVARIANTS
  ProcessedMeansSettled
  VerifiedMeansCollected
  CommissionFollows
PROPERTY
  SettlesEachRefOnce
CHECK_DEADLOCK FALSE
