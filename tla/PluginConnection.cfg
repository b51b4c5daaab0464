SPECIFICATION Spec
CONSTANTS
  Requests = {r1, r2}
  Calls = {c1}
  Secrets = {s1, s2, s3, s4}
  NoSecret = NoSecret
  MaxFaults = 1
SYMMETRY Interchangeable
INVARIANTS
  SecretBound
  ShownIsActive
  ConnectedIsBacked
  DisconnectedIsRevoked
