SPECIFICATION Spec
CONSTANTS
  Place = {"project", "bundle"}
  Name <- MCNames
  Content = {1, 2}
  Entry = "entry"
  Metadata <- MCMetadata
  Includes = {"notes"}
  Runtime = "runtime"
  Asks <- MCAsks
  MaxFiles = 9
  Supplied = {TRUE, FALSE}
  Modules = {"runtime", "dep"}
  Starts <- MCStarts
  Edits <- MCEdits
  MaxEdits = 2
  Writers = {"first", "second", "force"}
  Overwriting = {"force"}
  Nobody = "nobody"
  Relations <- MCRelations
  Counters <- MCCounters
  Setups <- MCSetups
  MaxRows = 3
  MaxForgotten = 1
  Lane <- MCLane
  None <- MCNone
  Recordings <- MCRecordings
  Applications <- MCApplications
INVARIANTS IdentitiesAreSnapshots ExportedIsRecorded RecordIsWhole ReplayReproduces
PROPERTIES NothingForeignLost RegressionEnds
