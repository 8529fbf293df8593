SPECIFICATION Spec
CONSTANTS
  Threads = {w1, w2}
  Feeds = {"f1"}
  Users = {"u1", "u2", "tmp"}
  Urls = {"s1", "s2"}
  Nodes = {"n0", "n1", "n2"}
  Locs = {"E1", "C1", "X1"}
  Layer <- MCLayer
  DefaultCentral = "C1"
  TmpUser = "tmp"
  Requests <- ReqPutFeed
  Faults = {}
  MaxRequests = 3
  MaxExits = 0
  InitNodes <- OneNode
  InitList <- ListOf1
  InitStatic <- ListOf1
SYMMETRY ThreadSymmetry
PROPERTIES PutFeedKeepsClients
