--------------------------- MODULE DrProvisioning ---------------------------
(***************************************************************************)
(* Data-router provisioning as a whole: Jetty threads serve feed,          *)
(* publisher, subscriber and node requests at the same time, with no lock  *)
(* and no transaction around their steps, against one DR provisioning      *)
(* server.  The process may be ended and started again on its database.    *)
(***************************************************************************)
EXTENDS FeedService, DR_NodeService

(* The first step of each resource method.                                 *)
FirstStep(op) ==
  CASE op = "postFeed"   -> "postFeed"
    [] op = "deleteFeed" -> "deleteFeed"
    [] op = "getFeeds"   -> "getFeeds"
    [] op = "putPub"     -> "writePub"
    [] op = "deletePub"  -> "findPub"
    [] op = "deleteSub"  -> "removeSub"
    [] op \in {"postNode", "putNode", "deleteNode"} -> "nodeGet"
    [] OTHER             -> "getFeed"

(* Resources that make a DR_PubService, most of them with a FeedService.   *)
MakesPubService(op) == op \notin {"deleteSub", "postNode", "putNode", "deleteNode"}

(* An idle thread receives a request.                                      *)
Start(w) ==
  /\ t[w].pc = "idle"
  /\ served < MaxRequests
  /\ served' = served + 1
  /\ \E r \in Requests :
       /\ Go(w, [Idle EXCEPT !.pc = FirstStep(r.op), !.rq = r, !.feed = r.feed])
       /\ pubProv' = IF MakesPubService(r.op) THEN NewPubConn ELSE pubProv
  /\ UNCHANGED <<tables, server, subProv, nextPub, nextSub, exits>>

(* The process is ended and started again: requests and static fields are  *)
(* lost, the tables are not.                                               *)
ExitProcess ==
  /\ exits < MaxExits
  /\ \E w \in Threads : t[w].pc # "idle"
  /\ exits' = exits + 1
  /\ t' = [w \in Threads |-> Idle]
  /\ pubProv' = NewPubConn /\ subProv' = NewSubConn
  /\ UNCHANGED <<tables, server, nextPub, nextSub, served>>

(* All MaxRequests requests are served (the bound of the model).           *)
Finished ==
  /\ served = MaxRequests
  /\ \A w \in Threads : t[w].pc = "idle"
  /\ UNCHANGED vars

Serve(w) == FeedNext(w) \/ PubNext(w) \/ SubNext(w) \/ NodeNext(w)

Next == (\E w \in Threads : Start(w) \/ Serve(w)) \/ ExitProcess \/ Finished

Spec == Init /\ [][Next]_vars

(* The operating system runs every thread that can run, but the connections *)
(* to the server have no time-out: nothing makes a step that waits for it   *)
(* happen.                                                                  *)
CallsServer(th) ==
  \/ th.pc \in {"postFeed", "putFeed", "updateSub", "nodesGet", "nodesPut", "staticGet", "staticPut"}
  \/ th.pc = "ingressPost" /\ pubProv.ready
  \/ th.pc \in {"subPost", "egressPost"} /\ subProv.ready

FairSpec == Spec /\ \A w \in Threads : WF_vars(Serve(w) /\ ~CallsServer(t[w]))

-----------------------------------------------------------------------------
(* What the properties are about.                                          *)
Quiet == \A w \in Threads : t[w].pc = "idle"
Steps(w) == t'[w] # t[w]

(* What is stored is on the server, whatever failed, was interleaved or    *)
(* was cut short: a feed's row and a publisher's row have the server's     *)
(* feed, a subscriber's row has the server's subscription of the same id   *)
(* to the same feed (FeedService.addFeed, savePubs, DR_SubService          *)
(* .addDr_Sub).  A PUT dr_pubs stores any feed id its body names.          *)
StoredIsOnServer ==
  /\ \A f \in Feeds : feeds[f] # Absent => drFeeds[f] # Absent
  /\ \A s \in subs : \E x \in drSubs : x.id = s.id /\ x.feed = s.feed
  /\ (\A r \in Requests : r.op # "putPub") => \A p \in pubs : drFeeds[p.feed] # Absent

(* A name is in NODES and in STATIC_ROUTING_NODES at most once, though     *)
(* each list is changed in two calls and threads interleave                *)
(* (DR_NodeService.DrProv.containsNode, addNode).                          *)
NodesUnique ==
  \A x \in Names : drNodes[x] <= 1 /\ drStatic[x] <= 1

(* When nothing is under way, a stored feed is on the server as its rows   *)
(* say: suspended or not, and with exactly the users of its publishers     *)
(* (FeedService.updateFeed, DR_PubResource.deleteDr_Pub).                  *)
FeedInSync ==
  Quiet => \A f \in Feeds : feeds[f] # Absent =>
             drFeeds[f] = feeds[f] /\ drUsers[f] = UsersOf(PubsOf(f))

(* When nothing is under way, a stored feed has a publisher: the data      *)
(* router wants one, and the last one cannot be deleted                    *)
(* (DR_PubResource.deleteDr_Pub).                                          *)
FeedHasPub == Quiet => \A f \in Feeds : feeds[f] # Absent => PubsOf(f) # {}

(* When nothing is under way, a stored node is in NODES, and in            *)
(* STATIC_ROUTING_NODES if its location is an edge (DR_NodeService         *)
(* .addDr_Node, removeDr_Node).                                            *)
NodeIsRouted ==
  Quiet => \A n \in Nodes : nodes[n] # Absent =>
             /\ Contains(drNodes, n)
             /\ Layer[nodes[n]] = "edge" => Contains(drStatic, n)

(* DR_NodeService implements NodeRegistry: the lists, which it reads,      *)
(* changes and writes back as a whole, change like sets, by the node of    *)
(* the request only, and in the order that NodeRegistry asks for           *)
(* (DR_NodeService.addDr_Node, removeDr_Node, DrProv.setX).                *)
Members(list) == {n \in Nodes : Contains(list, n)}
Registry == INSTANCE NodeRegistry
            WITH rows <- nodes, listed <- Members(drNodes), static <- Members(drStatic)
NodesInOrder == Registry!Spec

(* A publisher that is about to be stored as VALID has the ingress route   *)
(* that was asked for (DR_PubService.addDr_Pub).                           *)
ValidPubIsRouted ==
  \A w \in Threads : t[w].pc = "putPub" /\ t[w].pub.status = "VALID" /\ t[w].at # {} =>
    <<t[w].pub.feed, t[w].pub.user, t[w].at>> \in ingress

(* PUT feeds updates no publisher and no subscriber, neither in the tables *)
(* nor on the server (FeedResource.updateFeed).                            *)
PutFeedKeepsClients ==
  [][\A w \in Threads : t[w].rq.op = "putFeed" /\ Steps(w) =>
       UNCHANGED <<pubs, subs, drUsers, drSubs>>]_vars

(* Every request is answered, unless the process exits or the server never  *)
(* answers one of its calls.                                                *)
EveryRequestAnswered ==
  \A w \in Threads : []<>(t[w].pc = "idle") \/ <>[]CallsServer(t[w])
=============================================================================
