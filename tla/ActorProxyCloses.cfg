\* The multi-producer profile: shutting down and replacing sessions.
CONSTANTS
  c1 = c1
  c2 = c2
  Clients <- TwoClients
  None = None
  MaxConnections = 1
  Multi = TRUE
  Profile = "describe"
  MaxUnits = 2
  MaxQueue = 1
  Faults = TRUE
SPECIFICATION ClosingSpec
INVARIANTS AdmissionSound
PROPERTIES ConnectionsSettle
