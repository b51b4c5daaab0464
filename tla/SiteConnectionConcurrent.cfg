SPECIFICATION Spec
CONSTANTS
  Requests = {r1, r2}
  Workers = {w1, w2}
  Hosts = {hostA}
  MaxFaults = 0
SYMMETRY Interchangeable
INVARIANTS
  CredentialBound
  RunIsSettled
PROPERTIES
  DisconnectBound
