SPECIFICATION Spec
CONSTANTS
  NoRow = NoRow
  Null = Null
  Names = {"N1", "N2"}
  Bodies <- BodiesPlain
  MgtActions <- Mgt
  OldVersions <- OldReleases
  DefaultNames = {"", "N1"}
  Faults = {"version", "statement", "ignored", "aaf", "exit"}
  MaxFailures = 2
  MaxRequests = 2
  MaxCrashes = 1
INVARIANTS TypeOK SchemaOfVersion ValidIsProvisioned
PROPERTIES RowsKept EnvMapForNewName EventuallyServing
