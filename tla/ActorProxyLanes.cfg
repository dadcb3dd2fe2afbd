\* The single-producer profile with an auxiliary connection and Flush stages.
CONSTANTS
  c1 = c1
  c2 = c2
  Clients <- TwoClients
  None = None
  MaxConnections = 2
  Multi = FALSE
  Profile = "flush"
  MaxUnits = 2
  MaxQueue = 2
  Faults = TRUE
SPECIFICATION Spec
INVARIANTS TypeOK NoUnitForgotten TerminateIsLast OneProducer
PROPERTIES HonoursLaneContract
