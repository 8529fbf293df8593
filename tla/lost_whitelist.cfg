SPECIFICATION Spec
CONSTANTS
  Threads = {w1, w2}
  Topics = {"T1", "T2", "MM"}
  Locs = {"E1", "C1", "D1"}
  Roles = {"r1", "mm"}
  AdminTopic = "MM"
  ProvRole = "mm"
  AgentRole = "mm"
  DefaultCentral = "D1"
  DeleteLevel = 1
  Requests <- ReqE2c
  Faults = {}
  MaxRequests = 2
  MaxExits = 0
  InitLayer <- LayersC1
  InitClusters <- ClustersEC
SYMMETRY ThreadSymmetry
INVARIANTS AgentInSync
