SPECIFICATION FairSpec
CONSTANTS
  Requests = {r1}
  Workers = {w1}
  Hosts = {hostA, hostB}
  MaxFaults = 1
INVARIANTS
  ConnectedIsBacked
  DisconnectedIsRevoked
PROPERTIES
  NoSyncBeginsWhenDisconnected
  SyncEnds
  OrphanRunIsCleared
  DisconnectLeavesNoRun
