SPECIFICATION CSpec
CONSTANTS
  Requests = {r1, r2}
  Tokens = {t1, t2, t3}
  NoToken = NoToken
  Tabs = {b1, b2}
  MaxAdmin = 2
  MaxFaults = 1
SYMMETRY Interchangeable
INVARIANTS
  SuspendedIsShutOut
  SessionBudget
  StatusesAgree
  BrowserAgrees
CHECK_DEADLOCK FALSE
