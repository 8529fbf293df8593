SPECIFICATION Spec
CONSTANTS
  NoRow = NoRow
  Null = Null
  Names = {"N1", "N2"}
  Bodies <- BodiesZero
  MgtActions <- MgtOne
  OldVersions = {7}
  DefaultNames = {"", "N1"}
  Faults = {}
  MaxFailures = 0
  MaxRequests = 2
  MaxCrashes = 1
PROPERTIES ProvisionedKept
