SPECIFICATION Spec
CONSTANTS
  Threads = {w1}
  Topics = {"T1", "T2", "MM"}
  Locs = {"E1", "E2", "C1", "D1"}
  Roles = {"r1", "mm"}
  AdminTopic = "MM"
  ProvRole = "mm"
  AgentRole = "mm"
  DefaultCentral = "D1"
  DeleteLevel = 1
  Requests <- ReqLifecycle
  Faults = {"mm"}
  MaxRequests = 3
  MaxExits = 0
  InitLayer <- LayersEC
  InitClusters <- ClustersEC
INVARIANTS NoOrphanClients BridgesMade AgentInSync
PROPERTIES OnlyAddCreates DeletedClientIsGone ListsOnlyGrow
