SPECIFICATION Spec
CONSTANTS
  Threads = {w1}
  Topics = {"T1", "MM"}
  Locs = {"E1", "C1", "D1"}
  Roles = {"r1", "mm"}
  AdminTopic = "MM"
  ProvRole = "mm"
  AgentRole = "mm"
  DefaultCentral = "D1"
  DeleteLevel = 2
  Requests <- ReqRevoke
  Faults = {"aaf", "aaf2xx", "denied", "kill"}
  MaxRequests = 4
  MaxExits = 1
  InitLayer <- LayersC1
  InitClusters <- ClustersEC
PROPERTIES RowOutlivesGrants
