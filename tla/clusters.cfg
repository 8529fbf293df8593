SPECIFICATION FairSpec
CONSTANTS
  Threads = {w1, w2}
  Topics = {"T1", "MM"}
  Locs = {"E1", "C1", "D1"}
  Roles = {"r1", "p", "a"}
  AdminTopic = "MM"
  ProvRole = "p"
  AgentRole = "a"
  DefaultCentral = "D1"
  DeleteLevel = 1
  Requests <- ReqAll
  Faults = {"aaf", "aaf2xx"}
  MaxRequests = 2
  MaxExits = 0
  InitLayer <- LayersC1
  InitClusters <- ClustersEC
PROPERTIES AdminRolesGranted StepsShorten EveryRequestAnswered
