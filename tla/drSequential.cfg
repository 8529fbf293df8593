SPECIFICATION FairSpec
CONSTANTS
  Threads = {w1}
  Feeds = {"f1"}
  Users = {"u1", "u2", "tmp"}
  Urls = {"s1", "s2"}
  Nodes = {"n0", "n1", "n2"}
  Locs = {"E1", "C1", "X1"}
  Layer <- MCLayer
  DefaultCentral = "C1"
  TmpUser = "tmp"
  Requests <- ReqDr
  Faults = {"drHttp"}
  MaxRequests = 4
  MaxExits = 0
  InitNodes <- OneNode
  InitList <- ListOf1
  InitStatic <- ListOf1
INVARIANTS FeedInSync FeedHasPub NodeIsRouted ValidPubIsRouted
PROPERTIES PutFeedKeepsClients NodesInOrder EveryRequestAnswered
