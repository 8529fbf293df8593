SPECIFICATION Spec
CONSTANTS
  Threads = {w1, w2}
  Topics = {"T1", "MM"}
  Locs = {"E1", "C1", "D1"}
  Roles = {"r1", "mm"}
  AdminTopic = "MM"
  ProvRole = "mm"
  AgentRole = "mm"
  DefaultCentral = "D1"
  DeleteLevel = 1
  Requests <- ReqConcurrent
  Faults = {"aaf", "aaf2xx", "mrUrl", "mrHttp", "denied", "kill"}
  MaxRequests = 3
  MaxExits = 1
  InitLayer <- LayersC1
  InitClusters <- ClustersEC
SYMMETRY ThreadSymmetry
INVARIANTS TypeOK TopicHasPerms ClientHasGrants ClientProvisioned
