---------------------------- MODULE DrNodeProofs ----------------------------
(***************************************************************************)
(* No node is twice in a node list of the data router, for every value of  *)
(* DrProvisioning's constants: whatever a thread is about to write has     *)
(* every name at most once, because it is a copy of a list that had, and   *)
(* an addition is only written when the copy did not have the name.  And,  *)
(* while requests come one at a time, every node that is stored is in the  *)
(* lists.                                                                  *)
(***************************************************************************)
EXTENDS DrTypeProofs

Once(list) == \A x \in Names : list[x] <= 1

(* A thread that is about to write a list holds a copy with every name at  *)
(* most once, and without the name it is going to add.                     *)
CopyOK(th) ==
  th.pc \in {"nodesPut", "staticPut"} =>
    Once(th.list) /\ (Adds(th) => th.list[th.rq.node] = 0)

NodeInv == NodesUnique /\ \A w \in Threads : CopyOK(t[w])

-----------------------------------------------------------------------------
(* The change of such a copy has every name at most once.                  *)
LEMMA ChangeOnce ==
  ASSUME NEW th \in Thread, CopyOK(th), th.pc \in {"nodesPut", "staticPut"}
  PROVE  Once(Change(th))
<1>1. th.list \in NodeList /\ th.rq.node \in Nodes
  BY ConstantsAssumption DEF Thread, Request
<1>2. Once(th.list) /\ (Adds(th) => th.list[th.rq.node] = 0)
  BY DEF CopyOK
<1>3. CASE Adds(th)
  <2>1. th.list[th.rq.node] = 0
    BY <1>2, <1>3
  <2>2. Once(AddToList(th.list, th.rq.node))
    BY <1>1, <1>2, <2>1 DEF AddToList, Once, NodeList
  <2> QED
    BY <1>3, <2>2 DEF Change
<1>4. CASE ~Adds(th)
  <2> DEFINE left(x) ==
        IF x \notin {th.rq.node, Blank} THEN th.list[x]
        ELSE IF x = Blank /\ (\A y \in Names \ {th.rq.node, Blank} : th.list[y] = 0) THEN 1 ELSE 0
  <2>1. \A x \in Names : left(x) <= 1
    BY <1>2 DEF Once
  <2>2. Change(th) = [x \in Names |-> left(x)]
    BY <1>4, Zenon DEF Change, RemoveFromList
  <2> HIDE DEF left
  <2> QED
    BY <2>1, <2>2 DEF Once
<1> QED
  BY <1>3, <1>4

LEMMA ReplyPc == \A code : Reply(code).pc = "idle"
  BY DEF Reply, Idle

(* A step after which the thread writes no list, and that writes none.     *)
LEMMA NoListStep ==
  ASSUME NodeInv, NEW w \in Threads, t \in [Threads -> Thread],
         NEW th, Go(w, th), th.pc \notin {"nodesPut", "staticPut"},
         UNCHANGED <<drNodes, drStatic>>
  PROVE  NodeInv'
  BY DEF NodeInv, NodesUnique, CopyOK, Go

(* A publisher's, a subscriber's and a feed's steps are such steps.        *)
LEMMA PubNoList ==
  ASSUME DrTypeInv, NodeInv, NEW w \in Threads, PubNext(w)
  PROVE  NodeInv'
<1> DEFINE th == t[w]
<1>t. t \in [Threads -> Thread] /\ th \in Thread
  BY DEF DrTypeInv, DrTypeOK
<1>u. UNCHANGED <<drNodes, drStatic>>
  BY DEF PubNext, NewPubService, SavePub, MakeIngress, PostIngress, PutPub, WritePub, FindPub, RemovePub, server
<1>p. ASSUME NEW next, Go(w, next), next.pc \notin {"nodesPut", "staticPut"}
      PROVE  NodeInv'
  BY <1>p, <1>t, <1>u, NoListStep
<1>1. CASE NewPubService(w)
  BY <1>1, <1>t, <1>p DEF NewPubService, Thread
<1>2. CASE SavePub(w)
  BY <1>2, <1>t, <1>p DEF SavePub, Thread
<1>3. CASE MakeIngress(w)
  BY <1>3, <1>t, <1>p DEF MakeIngress, Thread
<1>4. CASE PostIngress(w)
  BY <1>4, <1>t, <1>p DEF PostIngress, Thread
<1>5. CASE PutPub(w)
  BY <1>5, <1>t, <1>p DEF PutPub, Thread
<1>6. CASE WritePub(w)
  BY <1>6, <1>p, ReplyPc DEF WritePub, Success
<1>7. CASE FindPub(w)
  BY <1>7, <1>t, <1>p, ReplyPc DEF FindPub, Thread
<1>8. CASE RemovePub(w)
  BY <1>8, <1>p, ReplyPc DEF RemovePub, Success
<1> QED
  BY <1>1, <1>2, <1>3, <1>4, <1>5, <1>6, <1>7, <1>8 DEF PubNext

LEMMA SubNoList ==
  ASSUME DrTypeInv, NodeInv, NEW w \in Threads, SubNext(w)
  PROVE  NodeInv'
<1> DEFINE th == t[w]
<1>t. t \in [Threads -> Thread] /\ th \in Thread
  BY DEF DrTypeInv, DrTypeOK
<1>u. UNCHANGED <<drNodes, drStatic>>
  BY DEF SubNext, SaveSub, NewSubProv, MakeSubscribe, PostSubscribe, EgressNodes, MakeEgress,
         PostEgress, PutSub, UpdateSub, RemoveSub, server
<1>p. ASSUME NEW next, Go(w, next), next.pc \notin {"nodesPut", "staticPut"}
      PROVE  NodeInv'
  BY <1>p, <1>t, <1>u, NoListStep
<1>1. CASE SaveSub(w)
  BY <1>1, <1>t, <1>p DEF SaveSub, Thread
<1>2. CASE NewSubProv(w)
  BY <1>2, <1>t, <1>p DEF NewSubProv, Thread
<1>3. CASE MakeSubscribe(w)
  BY <1>3, <1>t, <1>p DEF MakeSubscribe, Thread
<1>4. CASE PostSubscribe(w)
  BY <1>4, <1>t, <1>p, ReplyPc DEF PostSubscribe, Fails, Thread
<1>5. CASE EgressNodes(w)
  BY <1>5, <1>t, <1>p DEF EgressNodes, Thread
<1>6. CASE MakeEgress(w)
  BY <1>6, <1>t, <1>p DEF MakeEgress, Thread
<1>7. CASE PostEgress(w)
  BY <1>7, <1>t, <1>p DEF PostEgress, Thread
<1>8. CASE PutSub(w)
  BY <1>8, <1>t, <1>p, ReplyPc DEF PutSub, Success, Thread
<1>9. CASE UpdateSub(w)
  BY <1>9, <1>t, <1>p, ReplyPc DEF UpdateSub, Thread
<1>10. CASE RemoveSub(w)
  BY <1>10, <1>p, ReplyPc DEF RemoveSub, Success
<1> QED
  BY <1>1, <1>2, <1>3, <1>4, <1>5, <1>6, <1>7, <1>8, <1>9, <1>10 DEF SubNext

LEMMA FeedNoList ==
  ASSUME DrTypeInv, NodeInv, NEW w \in Threads, FeedNext(w)
  PROVE  NodeInv'
<1> DEFINE th == t[w]
<1>t. t \in [Threads -> Thread] /\ th \in Thread
  BY DEF DrTypeInv, DrTypeOK
<1>u. UNCHANGED <<drNodes, drStatic>>
  BY DEF FeedNext, PostFeed, GetFeed, PutFeed, StoreFeed, DeleteFeed, GetFeeds, server
<1>p. ASSUME NEW next, Go(w, next), next.pc \notin {"nodesPut", "staticPut"}
      PROVE  NodeInv'
  BY <1>p, <1>t, <1>u, NoListStep
<1>1. CASE PostFeed(w)
  BY <1>1, <1>t, <1>p, ReplyPc DEF PostFeed, Thread
<1>2. CASE GetFeed(w)
  <2>1. \A state, P : Update(th, state, P).pc = "putFeed"
    BY <1>t DEF Update, Thread
  <2>2. CASE feeds[th.feed] = Absent
    BY <1>2, <2>2, <1>p, ReplyPc DEF GetFeed, NoFeed
  <2>3. CASE feeds[th.feed] # Absent
    <3>1. CASE th.rq.op \in {"putFeed", "postPub"}
      BY <1>2, <2>1, <2>3, <3>1, <1>p DEF GetFeed
    <3>2. CASE th.rq.op = "deletePub"
      BY <1>2, <2>1, <2>3, <3>2, <1>p, ReplyPc DEF GetFeed, WithoutPub, ServerError
    <3>3. CASE th.rq.op \notin {"putFeed", "postPub", "deletePub"}
      BY <1>2, <2>3, <3>3, <1>t, <1>p DEF GetFeed, Thread
    <3> QED
      BY <3>1, <3>2, <3>3
  <2> QED
    BY <2>2, <2>3
<1>3. CASE PutFeed(w)
  BY <1>3, <1>t, <1>p, ReplyPc DEF PutFeed, Fails, Thread
<1>4. CASE StoreFeed(w)
  BY <1>4, <1>t, <1>p, ReplyPc DEF StoreFeed, Success, Thread
<1>5. CASE DeleteFeed(w)
  BY <1>5, <1>p, ReplyPc DEF DeleteFeed, Success
<1>6. CASE GetFeeds(w)
  BY <1>6, <1>p, ReplyPc DEF GetFeeds, Success
<1> QED
  BY <1>1, <1>2, <1>3, <1>4, <1>5, <1>6 DEF FeedNext

-----------------------------------------------------------------------------
(* A node's steps: a copy is taken with its name only to remove it, and    *)
(* without it only to add it.                                              *)
LEMMA NodeKeepsOnce ==
  ASSUME DrTypeInv, NodeInv, NEW w \in Threads, NodeNext(w)
  PROVE  NodeInv'
<1> DEFINE th == t[w]
<1>t. t \in [Threads -> Thread] /\ th \in Thread /\ CopyOK(th)
  BY DEF DrTypeInv, DrTypeOK, NodeInv
<1>n. /\ drNodes \in NodeList /\ drStatic \in NodeList /\ Once(drNodes) /\ Once(drStatic)
      /\ th.rq.node \in Names /\ th.rq.node # NullName
  BY <1>t, ConstantsAssumption DEF DrTypeInv, DrTypeOK, NodeInv, NodesUnique, Once, Thread, Request, Names
<1>p. ASSUME NEW next, Go(w, next), next.pc \notin {"nodesPut", "staticPut"}, UNCHANGED <<drNodes, drStatic>>
      PROVE  NodeInv'
  BY <1>p, <1>t, NoListStep
<1>q. ASSUME NEW next, Go(w, next), CopyOK(next), Once(drNodes'), Once(drStatic')
      PROVE  NodeInv'
  BY <1>q, <1>t DEF Go, NodeInv, NodesUnique, Once, CopyOK, Adds
<1>1. CASE GetNode(w)
  BY <1>1, <1>t, <1>p, ReplyPc DEF GetNode, Thread, server
<1>2. CASE GetNodes(w)
  <2> DEFINE wanted == Contains(drNodes, th.rq.node) # Adds(th)
             c      == IF wanted THEN "nodesPut" ELSE "nodeLocation"
             copy   == [th EXCEPT !.err = "ok", !.list = drNodes, !.pc = c]
  <2>1. copy.pc = c /\ copy.list = drNodes /\ copy.rq = th.rq
    BY <1>t, ZenonT(60) DEF Thread
  <2>2. wanted /\ Adds(th) => drNodes[th.rq.node] = 0
    BY <1>n DEF Contains, NodeList, Adds
  <2>3. CopyOK(copy)
    <3> HIDE DEF copy, wanted
    <3> QED
      BY <2>1, <2>2, <1>n DEF CopyOK, Adds
  <2>4. UNCHANGED <<drNodes, drStatic>>
    BY <1>2 DEF GetNodes, server
  <2>5. \/ Go(w, copy)
        \/ \E next : Go(w, next) /\ next.pc \notin {"nodesPut", "staticPut"}
    <3> DEFINE unseen(code) == [th EXCEPT !.err = code, !.pc = "nodeLocation"]
    <3>1. \A code : unseen(code).pc = "nodeLocation"
      BY <1>t, ZenonT(60) DEF Thread
    <3>2. \E code : Go(w, copy) \/ Go(w, Reply(code)) \/ Go(w, unseen(code))
      BY <1>2 DEF GetNodes
    <3> HIDE DEF copy, unseen
    <3> QED
      BY <3>1, <3>2, ReplyPc
  <2> HIDE DEF copy
  <2> QED
    BY <2>3, <2>4, <2>5, <1>n, <1>p, <1>q
<1>3. CASE PutNodes(w)
  <2>1. Once(drNodes')
    BY <1>3, <1>t, <1>n, ChangeOnce DEF PutNodes
  <2>2. drStatic' = drStatic
    BY <1>3 DEF PutNodes
  <2>3. \E next : Go(w, next) /\ next.pc \notin {"nodesPut", "staticPut"}
    <3> DEFINE put(code) == [th EXCEPT !.pc = "nodeLocation", !.err = code]
    <3>1. \A code : put(code).pc = "nodeLocation"
      BY <1>t, ZenonT(60) DEF Thread
    <3>2. Go(w, Reply("fail")) \/ \E code : Go(w, put(code))
      BY <1>3 DEF PutNodes
    <3> HIDE DEF put
    <3> QED
      BY <3>1, <3>2, ReplyPc
  <2> QED
    BY <2>1, <2>2, <2>3, <1>n, <1>q DEF CopyOK
<1>4. CASE NodeLocation(w)
  BY <1>4, <1>t, <1>p, ReplyPc DEF NodeLocation, ServerError, Thread, server
<1>5. CASE GetStatic(w)
  <2> DEFINE wanted == Contains(drStatic, th.rq.node) # Adds(th)
             c      == IF wanted THEN "staticPut" ELSE "nodeStore"
             lost   == IF Adds(th) /\ th.err = "ok" THEN "staticPut" ELSE "nodeStore"
             copy   == [th EXCEPT !.err = "ok", !.list = drStatic, !.pc = c]
             none   == [th EXCEPT !.list = Only(NullName), !.pc = lost]
  <2>1. copy.pc = c /\ copy.list = drStatic /\ copy.rq = th.rq
    BY <1>t, ZenonT(60) DEF Thread
  <2>2. wanted /\ Adds(th) => drStatic[th.rq.node] = 0
    BY <1>n DEF Contains, NodeList, Adds
  <2>3. CopyOK(copy)
    <3> HIDE DEF copy, wanted
    <3> QED
      BY <2>1, <2>2, <1>n DEF CopyOK, Adds
  <2>4. none.list = Only(NullName) /\ none.rq = th.rq
    BY <1>t, ZenonT(60) DEF Thread
  <2>5. Once(Only(NullName)) /\ Only(NullName)[th.rq.node] = 0
    BY <1>n DEF Once, Only
  <2>6. CopyOK(none)
    <3> HIDE DEF none
    <3> QED
      BY <2>4, <2>5 DEF CopyOK
  <2>7. UNCHANGED <<drNodes, drStatic>>
    BY <1>5 DEF GetStatic, server
  <2>8. \/ Go(w, copy) \/ Go(w, none)
        \/ \E next : Go(w, next) /\ next.pc \notin {"nodesPut", "staticPut"}
    <3> DEFINE failed == [th EXCEPT !.err = "fail", !.pc = "nodeStore"]
    <3>1. failed.pc = "nodeStore"
      BY <1>t, ZenonT(60) DEF Thread
    <3>2. Go(w, copy) \/ Go(w, none) \/ Go(w, Reply("fail")) \/ Go(w, failed)
      BY <1>5 DEF GetStatic
    <3> HIDE DEF copy, none, failed
    <3> QED
      BY <3>1, <3>2, ReplyPc
  <2> HIDE DEF copy, none
  <2> QED
    BY <2>3, <2>6, <2>7, <2>8, <1>n, <1>p, <1>q
<1>6. CASE PutStatic(w)
  <2>1. Once(drStatic')
    BY <1>6, <1>t, <1>n, ChangeOnce DEF PutStatic
  <2>2. drNodes' = drNodes
    BY <1>6 DEF PutStatic
  <2>3. \E next : Go(w, next) /\ next.pc \notin {"nodesPut", "staticPut"}
    BY <1>6, <1>t, ReplyPc DEF PutStatic, Thread
  <2> QED
    BY <2>1, <2>2, <2>3, <1>n, <1>q DEF CopyOK
<1>7. CASE StoreNode(w)
  BY <1>7, <1>p, ReplyPc DEF StoreNode, Success, server
<1> QED
  BY <1>1, <1>2, <1>3, <1>4, <1>5, <1>6, <1>7 DEF NodeNext

-----------------------------------------------------------------------------
LEMMA NodeInvInit ==
  ASSUME Init
  PROVE  NodeInv
<1>1. NodesUnique
  BY ConstantsAssumption DEF Init, NodesUnique
<1>2. \A w \in Threads : CopyOK(t[w])
  BY DEF Init, CopyOK, Idle
<1> QED
  BY <1>1, <1>2 DEF NodeInv

LEMMA NodeInvNext ==
  ASSUME DrTypeInv, NodeInv, [Next]_vars
  PROVE  NodeInv'
<1>t. t \in [Threads -> Thread]
  BY DEF DrTypeInv, DrTypeOK
<1>1. CASE UNCHANGED vars
  BY <1>1 DEF vars, server, NodeInv, NodesUnique, CopyOK, Once, Adds
<1>2. ASSUME NEW w \in Threads, Start(w)
      PROVE  NodeInv'
  <2>1. PICK r \in Requests : Go(w, [Idle EXCEPT !.pc = FirstStep(r.op), !.rq = r, !.feed = r.feed])
    BY <1>2 DEF Start
  <2>2. [Idle EXCEPT !.pc = FirstStep(r.op), !.rq = r, !.feed = r.feed].pc \notin {"nodesPut", "staticPut"}
    BY DEF Idle, FirstStep
  <2>3. UNCHANGED <<drNodes, drStatic>>
    BY <1>2 DEF Start, server
  <2> QED
    BY <1>t, <2>1, <2>2, <2>3, NoListStep
<1>3. ASSUME NEW w \in Threads, Serve(w)
      PROVE  NodeInv'
  BY <1>3, FeedNoList, PubNoList, SubNoList, NodeKeepsOnce DEF Serve
<1>4. CASE ExitProcess
  BY <1>4 DEF ExitProcess, server, NodeInv, NodesUnique, CopyOK, Idle
<1>5. CASE Finished
  BY <1>1, <1>5 DEF Finished
<1> QED
  BY <1>1, <1>2, <1>3, <1>4, <1>5 DEF Next

(* No name is twice in NODES or in STATIC_ROUTING_NODES, with any number   *)
(* of threads, nodes and locations, whatever calls are refused or lost:    *)
(* two threads that change a list at the same time may lose one of the     *)
(* changes, but cannot enter a node twice (DR_NodeService.DrProv).         *)
THEOREM NodesAreUnique == Spec => []NodesUnique
<1>1. Init => DrTypeInv /\ NodeInv
  BY DrInitType, NodeInvInit
<1>2. DrTypeInv /\ NodeInv /\ [Next]_vars => (DrTypeInv /\ NodeInv)'
  BY DrNextType, NodeInvNext
<1>3. DrTypeInv /\ NodeInv => NodesUnique
  BY DEF NodeInv
<1> QED
  BY <1>1, <1>2, <1>3, PTL DEF Spec

-----------------------------------------------------------------------------
(* Every stored node is in the lists.  One request is served at a time,    *)
(* every answer arrives, the process is not ended, and the nodes that are  *)
(* there before are in the lists and at registered locations.              *)
Listed(n, l, list, static) ==
  Contains(list, n) /\ (Layer[l] = "edge" => Contains(static, n))
ListedBefore ==
  \A n \in Nodes : InitNodes[n] # Absent =>
    /\ Layer[InitNodes[n]] # Absent /\ Contains(InitList, n)
    /\ Layer[InitNodes[n]] = "edge" => Contains(InitStatic, n)

(* A DELETE that has looked the node up takes it out of the lists, and its *)
(* row goes whatever the server answers.                                   *)
NodePcs == {"nodeGet", "nodesGet", "nodesPut", "nodeLocation", "staticGet", "staticPut",
            "nodeStore"}
Removing(th, n) ==
  th.rq.op = "deleteNode" /\ th.rq.node = n /\ th.pc \in NodePcs \ {"nodeGet", "nodesGet"}

(* What a thread is about to write is a copy of the list as it is; a POST  *)
(* stores the row when the lists have the name.                            *)
InOrder(th, list, static) ==
  /\ th.pc \in NodePcs =>
       th.rq.op \in {"postNode", "deleteNode"} \cup (IF th.pc = "nodeGet" THEN {"putNode"} ELSE {})
  /\ th.pc = "nodesPut" => th.list = list
  /\ th.pc = "staticPut" => th.list = static
  /\ th.rq.op = "postNode" =>
       /\ th.pc \in {"nodeLocation", "staticGet", "staticPut", "nodeStore"}
            => Contains(list, th.rq.node)
       /\ th.pc \in {"staticGet", "staticPut", "nodeStore"} => Layer[th.loc] # Absent
       /\ th.pc = "nodeStore" /\ Layer[th.loc] = "edge" => Contains(static, th.rq.node)
NodeOK(th, list, static) ==
  /\ InOrder(th, list, static)
  /\ th.rq.op = "deleteNode" /\ th.pc \in {"nodesGet", "nodesPut", "nodeLocation"}
       => Layer[th.loc] # Absent
RoutedInv ==
  /\ \A n \in Nodes : nodes[n] # Absent =>
       /\ Layer[nodes[n]] # Absent
       /\ Listed(n, nodes[n], drNodes, drStatic) \/ \E w \in Threads : Removing(t[w], n)
  /\ \A w \in Threads : NodeOK(t[w], drNodes, drStatic)

(* The steps of the other requests.                                        *)
LEMMA NoNodeStep ==
  ASSUME DrTypeInv, NEW w \in Threads, FeedNext(w) \/ PubNext(w) \/ SubNext(w)
  PROVE  t[w].pc \notin NodePcs /\ t'[w].pc \notin NodePcs /\ UNCHANGED <<nodes, drNodes, drStatic>>
<1> DEFINE th == t[w]
           u  == t'[w]
           Goal == th.pc \notin NodePcs /\ u.pc \notin NodePcs /\ UNCHANGED <<nodes, drNodes, drStatic>>
<1>1. ASSUME SubNext(w) PROVE Goal
  <2>1. th.pc \notin NodePcs /\ u.pc \notin NodePcs
    BY <1>1, SubSteps DEF NodePcs
  <2> QED
    BY <1>1, <2>1, SubFrame
<1>2. ASSUME PubNext(w) PROVE Goal
  <2>1. CASE SavePub(w)
    BY <2>1, SavePubStep DEF NodePcs, tables, server
  <2>2. CASE NewPubService(w) \/ MakeIngress(w) \/ PutPub(w)
    BY <2>2, NewPubServiceStep, MakeIngressStep, PutPubStep DEF NodePcs, tables, server
  <2>3. CASE PostIngress(w)
    BY <2>3, PostIngressStep DEF NodePcs, tables
  <2>4. CASE FindPub(w) \/ WritePub(w) \/ RemovePub(w)
    BY <2>4, FindPubStep, WritePubStep, RemovePubStep DEF NodePcs, tables, server
  <2> QED
    BY <1>2, <2>1, <2>2, <2>3, <2>4 DEF PubNext
<1>3. ASSUME FeedNext(w) PROVE Goal
  <2>1. CASE PostFeed(w)
    BY <2>1, PostFeedStep DEF NodePcs, tables
  <2>2. CASE GetFeed(w)
    BY <2>2, GetFeedStep DEF NodePcs, tables, server
  <2>3. CASE PutFeed(w)
    BY <2>3, PutFeedStep DEF NodePcs, tables
  <2>4. CASE StoreFeed(w)
    BY <2>4, StoreFeedStep DEF NodePcs, server
  <2>5. CASE DeleteFeed(w) \/ GetFeeds(w)
    BY <2>5, OtherFeedStep DEF NodePcs, server
  <2> QED
    BY <1>3, <2>1, <2>2, <2>3, <2>4, <2>5 DEF FeedNext
<1> QED
  BY <1>1, <1>2, <1>3

(* What the steps of a node request do to the record, when answers arrive. *)
SameNode(th, u) == u.rq = th.rq /\ u.loc = th.loc

LEMMA GetNodeStep ==
  ASSUME DrTypeInv, NEW w \in Threads, GetNode(w)
  PROVE  LET th == t[w]
             u  == t'[w]
             n  == th.rq.node
         IN
         /\ th.pc = "nodeGet" /\ UNCHANGED <<nodes, drNodes, drStatic>>
         /\ \/ u.pc = "idle"
            \/ /\ u.pc = "nodesGet" /\ u.rq = th.rq /\ th.rq.op # "putNode"
               /\ IF th.rq.op = "postNode" THEN nodes[n] = Absent
                  ELSE nodes[n] # Absent /\ u.loc = nodes[n]
<1> DEFINE th == t[w]
           u  == t'[w]
           n  == th.rq.node
           v(l) == [th EXCEPT !.pc = "nodesGet", !.loc = l]
<1>0. th \in Thread /\ th.pc = "nodeGet" /\ UNCHANGED <<nodes, drNodes, drStatic>>
  BY DEF DrTypeInv, DrTypeOK, GetNode, tables, server
<1>1. \/ Go(w, Reply("conflict")) \/ Go(w, Reply("notFound"))
      \/ th.rq.op = "postNode" /\ nodes[n] = Absent /\ Go(w, v(th.rq.loc))
      \/ th.rq.op \notin {"putNode", "postNode"} /\ nodes[n] # Absent /\ Go(w, v(nodes[n]))
  <2> HIDE DEF v
  <2> QED
    BY DEF GetNode, v
<1>2. ASSUME NEW l, Go(w, v(l)) PROVE u.pc = "nodesGet" /\ u.rq = th.rq /\ u.loc = l
  <2>1. u = v(l)
    BY <1>2, NewRecord
  <2>2. v(l).pc = "nodesGet" /\ v(l).rq = th.rq /\ v(l).loc = l
    BY <1>0 DEF Thread
  <2> HIDE DEF u, v
  <2> QED
    BY <2>1, <2>2
<1>3. Go(w, Reply("conflict")) \/ Go(w, Reply("notFound")) => u.pc = "idle"
  BY EndStep
<1> HIDE DEF v
<1> QED
  BY <1>0, <1>1, <1>2, <1>3

LEMMA GetNodesStep ==
  ASSUME DrTypeInv, AnswersArrive, NEW w \in Threads, GetNodes(w)
  PROVE  LET th == t[w]
             u  == t'[w]
             wanted == Contains(drNodes, th.rq.node) # Adds(th)
         IN
         /\ th.pc = "nodesGet" /\ UNCHANGED <<nodes, drNodes, drStatic>>
         /\ \/ u.pc = "idle" /\ Adds(th)
            \/ SameNode(th, u) /\ u.list = drNodes /\ u.pc = IF wanted THEN "nodesPut" ELSE "nodeLocation"
            \/ ~Adds(th) /\ SameNode(th, u) /\ u.pc = "nodeLocation"
<1> DEFINE th == t[w]
           u  == t'[w]
           wanted == Contains(drNodes, th.rq.node) # Adds(th)
           q == IF wanted THEN "nodesPut" ELSE "nodeLocation"
           v == [th EXCEPT !.err = "ok", !.list = drNodes, !.pc = q]
           x(e) == [th EXCEPT !.err = e, !.pc = "nodeLocation"]
<1>0. th \in Thread /\ th.pc = "nodesGet" /\ UNCHANGED <<nodes, drNodes, drStatic>>
  BY DEF DrTypeInv, DrTypeOK, GetNodes, tables, server
<1>1. \/ Go(w, v)
      \/ Adds(th) /\ \E e : Go(w, Reply(e))
      \/ ~Adds(th) /\ \E e : Go(w, x(e))
  <2> HIDE DEF v, x
  <2> QED
    BY DEF GetNodes, v, x
<1>2. ASSUME Go(w, v) PROVE SameNode(th, u) /\ u.list = drNodes /\ u.pc = q
  <2>1. u = v
    BY <1>2, NewRecord
  <2> HIDE DEF q
  <2>2. SameNode(th, v) /\ v.list = drNodes /\ v.pc = q
    BY <1>0 DEF Thread, SameNode
  <2> HIDE DEF u, v
  <2> QED
    BY <2>1, <2>2
<1>3. ASSUME NEW e, Go(w, x(e)) PROVE SameNode(th, u) /\ u.pc = "nodeLocation"
  <2>1. u = x(e)
    BY <1>3, NewRecord
  <2>2. SameNode(th, x(e)) /\ x(e).pc = "nodeLocation"
    BY <1>0 DEF Thread, SameNode
  <2> HIDE DEF u, x
  <2> QED
    BY <2>1, <2>2
<1>4. \A e : Go(w, Reply(e)) => u.pc = "idle"
  BY EndStep
<1> HIDE DEF v, x
<1> QED
  BY <1>0, <1>1, <1>2, <1>3, <1>4

LEMMA PutNodesStep ==
  ASSUME DrTypeInv, AnswersArrive, NEW w \in Threads, PutNodes(w)
  PROVE  LET th == t[w]
             u  == t'[w]
         IN
         /\ th.pc = "nodesPut" /\ UNCHANGED <<nodes, drStatic>>
         /\ \/ drNodes' = Change(th) /\ SameNode(th, u) /\ u.pc = "nodeLocation"
            \/ drNodes' = drNodes /\ Adds(th) /\ u.pc = "idle"
            \/ drNodes' = drNodes /\ ~Adds(th) /\ SameNode(th, u) /\ u.pc = "nodeLocation"
<1> DEFINE th == t[w]
           u  == t'[w]
           v(e) == [th EXCEPT !.pc = "nodeLocation", !.err = e]
<1>0. th \in Thread /\ th.pc = "nodesPut" /\ UNCHANGED <<nodes, drStatic>>
  BY DEF DrTypeInv, DrTypeOK, PutNodes, tables
<1>1. PICK o \in Outcomes :
        /\ drNodes' = IF o.effect THEN Change(th) ELSE drNodes
        /\ Go(w, IF o.answer = "fail" /\ Adds(th) THEN Reply("fail")
                 ELSE v(CodeAfter(th.err, o)))
  BY DEF PutNodes
<1>2. ASSUME NEW e, Go(w, v(e)) PROVE SameNode(th, u) /\ u.pc = "nodeLocation"
  <2>1. u = v(e)
    BY <1>2, NewRecord
  <2>2. v(e).pc = "nodeLocation" /\ SameNode(th, v(e))
    BY <1>0 DEF Thread, SameNode
  <2> HIDE DEF u, v
  <2> QED
    BY <2>1, <2>2
<1>3. Go(w, Reply("fail")) => u.pc = "idle"
  BY EndStep
<1>4. (o.effect = TRUE /\ o.answer = "ok") \/ (o.effect = FALSE /\ o.answer = "fail")
  BY Arrives
<1> HIDE DEF v, u, th
<1>5. CASE o.effect = TRUE /\ o.answer = "ok"
  BY <1>0, <1>1, <1>2, <1>5 DEF u, th
<1>6. CASE o.effect = FALSE /\ o.answer = "fail" /\ Adds(th)
  BY <1>0, <1>1, <1>3, <1>6 DEF u, th
<1>7. CASE o.effect = FALSE /\ o.answer = "fail" /\ ~Adds(th)
  BY <1>0, <1>1, <1>2, <1>7 DEF u, th
<1> QED
  BY <1>4, <1>5, <1>6, <1>7

LEMMA NodeLocationStep ==
  ASSUME DrTypeInv, NEW w \in Threads, NodeLocation(w)
  PROVE  LET th == t[w]
             u  == t'[w]
         IN
         /\ th.pc = "nodeLocation" /\ UNCHANGED <<nodes, drNodes, drStatic>>
         /\ \/ Layer[th.loc] = Absent /\ u.pc = "idle"
            \/ Layer[th.loc] = "edge" /\ u.pc = "staticGet" /\ SameNode(th, u)
            \/ Layer[th.loc] \notin {"edge", Absent} /\ u.pc = "nodeStore" /\ SameNode(th, u)
<1> DEFINE th == t[w]
           u  == t'[w]
           v(q) == [th EXCEPT !.pc = q]
<1>0. th \in Thread /\ th.pc = "nodeLocation" /\ UNCHANGED <<nodes, drNodes, drStatic>>
  BY DEF DrTypeInv, DrTypeOK, NodeLocation, tables, server
<1>1. \/ Layer[th.loc] = Absent /\ Go(w, ServerError)
      \/ Layer[th.loc] = "edge" /\ Go(w, v("staticGet"))
      \/ Layer[th.loc] \notin {"edge", Absent} /\ Go(w, v("nodeStore"))
  <2> HIDE DEF v
  <2> QED
    BY DEF NodeLocation, v
<1>2. ASSUME NEW q, Go(w, v(q)) PROVE u.pc = q /\ SameNode(th, u)
  <2>1. u = v(q)
    BY <1>2, NewRecord
  <2>2. v(q).pc = q /\ SameNode(th, v(q))
    BY <1>0 DEF Thread, SameNode
  <2> HIDE DEF u, v
  <2> QED
    BY <2>1, <2>2
<1>3. Go(w, ServerError) => u.pc = "idle"
  BY EndStep
<1> HIDE DEF v
<1> QED
  BY <1>0, <1>1, <1>2, <1>3

LEMMA GetStaticStep ==
  ASSUME DrTypeInv, AnswersArrive, NEW w \in Threads, GetStatic(w)
  PROVE  LET th == t[w]
             u  == t'[w]
             wanted == Contains(drStatic, th.rq.node) # Adds(th)
         IN
         /\ th.pc = "staticGet" /\ UNCHANGED <<nodes, drNodes, drStatic>>
         /\ \/ u.pc = "idle" /\ Adds(th)
            \/ SameNode(th, u) /\ u.list = drStatic /\ u.pc = IF wanted THEN "staticPut" ELSE "nodeStore"
            \/ ~Adds(th) /\ SameNode(th, u) /\ u.pc = "nodeStore"
<1> DEFINE th == t[w]
           u  == t'[w]
           wanted == Contains(drStatic, th.rq.node) # Adds(th)
           q == IF wanted THEN "staticPut" ELSE "nodeStore"
           v == [th EXCEPT !.err = "ok", !.list = drStatic, !.pc = q]
           x(e) == [th EXCEPT !.err = e, !.pc = "nodeStore"]
           y(p) == [th EXCEPT !.list = Only(NullName), !.pc = p]
<1>0. th \in Thread /\ th.pc = "staticGet" /\ UNCHANGED <<nodes, drNodes, drStatic>>
  BY DEF DrTypeInv, DrTypeOK, GetStatic, tables, server
<1>1. \/ Go(w, v)
      \/ Adds(th) /\ Go(w, Reply("fail"))
      \/ ~Adds(th) /\ Go(w, x("fail"))
  <2>1. PICK o \in Outcomes :
          Go(w, CASE o.answer = "ok" -> v
                  [] o.answer = "lost" -> y(IF Adds(th) /\ th.err = "ok" THEN "staticPut" ELSE "nodeStore")
                  [] OTHER -> IF Adds(th) THEN Reply("fail") ELSE x("fail"))
    <3> HIDE DEF v, x
    <3> QED
      BY DEF GetStatic, v, x
  <2>2. o.answer = "ok" \/ o.answer = "fail"
    BY Arrives
  <2> HIDE DEF v, x, y
  <2> QED
    BY <2>1, <2>2
<1>2. ASSUME Go(w, v) PROVE SameNode(th, u) /\ u.list = drStatic /\ u.pc = q
  <2>1. u = v
    BY <1>2, NewRecord
  <2> HIDE DEF q
  <2>2. SameNode(th, v) /\ v.list = drStatic /\ v.pc = q
    BY <1>0 DEF Thread, SameNode
  <2> HIDE DEF u, v
  <2> QED
    BY <2>1, <2>2
<1>3. ASSUME Go(w, x("fail")) PROVE SameNode(th, u) /\ u.pc = "nodeStore"
  <2>1. u = x("fail")
    BY <1>3, NewRecord
  <2>2. SameNode(th, x("fail")) /\ x("fail").pc = "nodeStore"
    BY <1>0 DEF Thread, SameNode
  <2> HIDE DEF u, x
  <2> QED
    BY <2>1, <2>2
<1>4. Go(w, Reply("fail")) => u.pc = "idle"
  BY EndStep
<1> HIDE DEF v, x
<1> QED
  BY <1>0, <1>1, <1>2, <1>3, <1>4

LEMMA PutStaticStep ==
  ASSUME DrTypeInv, AnswersArrive, NEW w \in Threads, PutStatic(w)
  PROVE  LET th == t[w]
             u  == t'[w]
         IN
         /\ th.pc = "staticPut" /\ UNCHANGED <<nodes, drNodes>>
         /\ \/ drStatic' = Change(th) /\ SameNode(th, u) /\ u.pc = "nodeStore"
            \/ drStatic' = drStatic /\ Adds(th) /\ u.pc = "idle"
            \/ drStatic' = drStatic /\ ~Adds(th) /\ SameNode(th, u) /\ u.pc = "nodeStore"
<1> DEFINE th == t[w]
           u  == t'[w]
           v == [th EXCEPT !.pc = "nodeStore"]
<1>0. th \in Thread /\ th.pc = "staticPut" /\ UNCHANGED <<nodes, drNodes>>
  BY DEF DrTypeInv, DrTypeOK, PutStatic, tables
<1>1. PICK o \in Outcomes :
        /\ drStatic' = IF o.effect THEN Change(th) ELSE drStatic
        /\ Go(w, IF o.answer = "fail" /\ Adds(th) THEN Reply("fail") ELSE v)
  BY DEF PutStatic
<1>2. ASSUME Go(w, v) PROVE u.pc = "nodeStore" /\ SameNode(th, u)
  <2>1. u = v
    BY <1>2, NewRecord
  <2>2. v.pc = "nodeStore" /\ SameNode(th, v)
    BY <1>0 DEF Thread, SameNode
  <2> HIDE DEF u, v
  <2> QED
    BY <2>1, <2>2
<1>3. Go(w, Reply("fail")) => u.pc = "idle"
  BY EndStep
<1>4. (o.effect = TRUE /\ o.answer = "ok") \/ (o.effect = FALSE /\ o.answer = "fail")
  BY Arrives
<1> HIDE DEF v, u, th
<1>5. CASE o.effect = TRUE /\ o.answer = "ok"
  BY <1>0, <1>1, <1>2, <1>5 DEF u, th
<1>6. CASE o.effect = FALSE /\ o.answer = "fail" /\ Adds(th)
  BY <1>0, <1>1, <1>3, <1>6 DEF u, th
<1>7. CASE o.effect = FALSE /\ o.answer = "fail" /\ ~Adds(th)
  BY <1>0, <1>1, <1>2, <1>7 DEF u, th
<1> QED
  BY <1>4, <1>5, <1>6, <1>7

LEMMA StoreNodeStep ==
  ASSUME DrTypeInv, NEW w \in Threads, StoreNode(w)
  PROVE  LET th == t[w] IN
         /\ th.pc = "nodeStore" /\ t'[w].pc = "idle" /\ UNCHANGED <<drNodes, drStatic>>
         /\ nodes' = [nodes EXCEPT ![th.rq.node] = IF Adds(th) THEN th.loc ELSE Absent]
<1>1. t[w].pc = "nodeStore" /\ Go(w, Success)
  BY DEF StoreNode
<1>2. t'[w].pc = "idle"
  BY <1>1, EndStep
<1> QED
  BY <1>1, <1>2 DEF StoreNode, server

-----------------------------------------------------------------------------
LEMMA ChangeContains ==
  ASSUME NEW th \in Thread
  PROVE  /\ \A n \in Nodes : n # th.rq.node => (Contains(Change(th), n) <=> Contains(th.list, n))
         /\ Contains(Change(th), th.rq.node) <=> Adds(th)
<1>1. th.list \in NodeList /\ th.rq.node \in Nodes /\ Nodes \subseteq Names /\ Blank \notin Nodes
  BY ConstantsAssumption DEF Thread, Request, Names
<1>2. CASE Adds(th)
  <2>1. /\ AddToList(th.list, th.rq.node)[th.rq.node] = th.list[th.rq.node] + 1
        /\ \A n \in Nodes : n # th.rq.node => AddToList(th.list, th.rq.node)[n] = th.list[n]
        /\ th.list[th.rq.node] \in Nat
    BY <1>1 DEF AddToList, NodeList
  <2> QED
    BY <1>2, <2>1 DEF Change, Contains
<1>3. CASE ~Adds(th)
  <2> DEFINE last == \A y \in Names \ {th.rq.node, Blank} : th.list[y] = 0
  <2>1. Change(th) = [x \in Names |-> IF x \notin {th.rq.node, Blank} THEN th.list[x]
                                      ELSE IF x = Blank /\ last THEN 1 ELSE 0]
    BY <1>3, Zenon DEF Change, RemoveFromList
  <2> HIDE DEF last
  <2>2. /\ \A n \in Nodes : n # th.rq.node => Change(th)[n] = th.list[n]
        /\ Change(th)[th.rq.node] = 0
    BY <1>1, <2>1
  <2> QED
    BY <1>3, <2>2 DEF Contains
<1> QED
  BY <1>2, <1>3

LEMMA RoutedStep ==
  ASSUME OneThread, NEW w \in Threads, NodeOK(t'[w], drNodes', drStatic'),
         \A n \in Nodes : nodes'[n] # Absent =>
           Layer[nodes'[n]] # Absent /\ (Listed(n, nodes'[n], drNodes', drStatic') \/ Removing(t'[w], n))
  PROVE  RoutedInv'
  BY DEF RoutedInv, OneThread

LEMMA NodeRouted ==
  ASSUME DrTypeInv, OneThread, AnswersArrive, RoutedInv, NEW w \in Threads, NodeNext(w)
  PROVE  RoutedInv'
<1> DEFINE th == t[w]
           u  == t'[w]
           m  == th.rq.node
           Rows(ns) == \A n \in Nodes : ns[n] # Absent =>
                         Layer[ns[n]] # Absent /\ (Listed(n, ns[n], drNodes', drStatic') \/ Removing(u, n))
<1>0. /\ th \in Thread /\ m \in Nodes /\ NodeOK(th, drNodes, drStatic)
      /\ nodes \in [Nodes -> Locs \cup {Absent}]
  BY ConstantsAssumption DEF DrTypeInv, DrTypeOK, Thread, Request, RoutedInv
<1>1. \A n \in Nodes : nodes[n] # Absent =>
        Layer[nodes[n]] # Absent /\ (Listed(n, nodes[n], drNodes, drStatic) \/ Removing(th, n))
  BY DEF RoutedInv, OneThread
<1>g. ASSUME NodeOK(u, drNodes', drStatic'), Rows(nodes') PROVE RoutedInv'
  BY <1>g, RoutedStep
<1>s. ASSUME UNCHANGED <<nodes, drNodes, drStatic>>, \A n \in Nodes : Removing(th, n) => Removing(u, n)
      PROVE  Rows(nodes')
  BY <1>1, <1>s DEF Listed
<1>i. u.pc = "idle" => NodeOK(u, drNodes', drStatic')
  BY DEF NodeOK, InOrder, NodePcs
<1> SUFFICES NodeOK(u, drNodes', drStatic') /\ Rows(nodes')
  BY <1>g
<1>2. CASE GetNode(w)
  <2>1. /\ th.pc = "nodeGet" /\ UNCHANGED <<nodes, drNodes, drStatic>>
        /\ \/ u.pc = "idle"
           \/ /\ u.pc = "nodesGet" /\ u.rq = th.rq /\ th.rq.op # "putNode"
              /\ th.rq.op # "postNode" => nodes[m] # Absent /\ u.loc = nodes[m]
    BY <1>2, GetNodeStep
  <2>2. Rows(nodes')
    BY <1>s, <2>1 DEF Removing
  <2>3. NodeOK(u, drNodes', drStatic')
    BY <1>0, <1>1, <1>i, <2>1 DEF NodeOK, InOrder, NodePcs
  <2> QED
    BY <2>2, <2>3
<1>3. CASE GetNodes(w)
  <2>1. /\ th.pc = "nodesGet" /\ UNCHANGED <<nodes, drNodes, drStatic>>
        /\ \/ u.pc = "idle" /\ Adds(th)
           \/ /\ SameNode(th, u) /\ u.list = drNodes
              /\ u.pc = IF Contains(drNodes, m) # Adds(th) THEN "nodesPut" ELSE "nodeLocation"
           \/ ~Adds(th) /\ SameNode(th, u) /\ u.pc = "nodeLocation"
    BY <1>3, GetNodesStep
  <2>2. Rows(nodes')
    BY <1>s, <2>1 DEF Removing
  <2>3. NodeOK(u, drNodes', drStatic')
    BY <1>0, <1>i, <2>1 DEF NodeOK, InOrder, NodePcs, SameNode, Adds
  <2> QED
    BY <2>2, <2>3
<1>4. CASE PutNodes(w)
  <2>1. /\ th.pc = "nodesPut" /\ UNCHANGED <<nodes, drStatic>> /\ th.list = drNodes
        /\ \/ drNodes' = Change(th) /\ SameNode(th, u) /\ u.pc = "nodeLocation"
           \/ drNodes' = drNodes /\ Adds(th) /\ u.pc = "idle"
           \/ drNodes' = drNodes /\ ~Adds(th) /\ SameNode(th, u) /\ u.pc = "nodeLocation"
    BY <1>0, <1>4, PutNodesStep DEF NodeOK, InOrder
  <2>2. CASE drNodes' = Change(th) /\ SameNode(th, u) /\ u.pc = "nodeLocation"
    <3>1. /\ \A n \in Nodes : n # m => (Contains(drNodes', n) <=> Contains(drNodes, n))
          /\ Adds(th) => Contains(drNodes', m)
      BY <1>0, <2>1, <2>2, ChangeContains
    <3>2. Rows(nodes')
      <4>1. \A n \in Nodes : Removing(th, n) => Removing(u, n)
        BY <2>1, <2>2 DEF Removing, SameNode, NodePcs
      <4>2. ~Adds(th) => Removing(u, m)
        BY <1>0, <2>1, <2>2 DEF Removing, SameNode, NodeOK, InOrder, NodePcs, Adds
      <4> QED
        BY <1>0, <1>1, <2>1, <3>1, <4>1, <4>2 DEF Listed
    <3>3. NodeOK(u, drNodes', drStatic')
      BY <1>0, <2>1, <2>2, <3>1 DEF NodeOK, InOrder, NodePcs, SameNode, Adds
    <3> QED
      BY <3>2, <3>3
  <2>3. CASE drNodes' = drNodes /\ Adds(th) /\ u.pc = "idle"
    BY <1>i, <1>s, <2>1, <2>3 DEF Removing, Adds
  <2>4. CASE drNodes' = drNodes /\ ~Adds(th) /\ SameNode(th, u) /\ u.pc = "nodeLocation"
    <3>1. Rows(nodes')
      BY <1>s, <2>1, <2>4 DEF Removing, SameNode, NodePcs
    <3>2. NodeOK(u, drNodes', drStatic')
      BY <1>0, <2>1, <2>4 DEF NodeOK, InOrder, NodePcs, SameNode, Adds
    <3> QED
      BY <3>1, <3>2
  <2> QED
    BY <2>1, <2>2, <2>3, <2>4
<1>5. CASE NodeLocation(w)
  <2>1. /\ th.pc = "nodeLocation" /\ UNCHANGED <<nodes, drNodes, drStatic>>
        /\ \/ Layer[th.loc] = Absent /\ u.pc = "idle"
           \/ Layer[th.loc] = "edge" /\ u.pc = "staticGet" /\ SameNode(th, u)
           \/ Layer[th.loc] \notin {"edge", Absent} /\ u.pc = "nodeStore" /\ SameNode(th, u)
    BY <1>5, NodeLocationStep
  <2>2. Rows(nodes')
    BY <1>0, <1>s, <2>1 DEF Removing, NodeOK, InOrder, NodePcs, SameNode
  <2>3. NodeOK(u, drNodes', drStatic')
    BY <1>0, <1>i, <2>1 DEF NodeOK, InOrder, NodePcs, SameNode, Absent
  <2> QED
    BY <2>2, <2>3
<1>6. CASE GetStatic(w)
  <2>1. /\ th.pc = "staticGet" /\ UNCHANGED <<nodes, drNodes, drStatic>>
        /\ \/ u.pc = "idle" /\ Adds(th)
           \/ /\ SameNode(th, u) /\ u.list = drStatic
              /\ u.pc = IF Contains(drStatic, m) # Adds(th) THEN "staticPut" ELSE "nodeStore"
           \/ ~Adds(th) /\ SameNode(th, u) /\ u.pc = "nodeStore"
    BY <1>6, GetStaticStep
  <2>2. Rows(nodes')
    BY <1>s, <2>1 DEF Removing, NodePcs, SameNode, Adds
  <2>3. NodeOK(u, drNodes', drStatic')
    BY <1>0, <1>i, <2>1 DEF NodeOK, InOrder, NodePcs, SameNode, Adds
  <2> QED
    BY <2>2, <2>3
<1>7. CASE PutStatic(w)
  <2>1. /\ th.pc = "staticPut" /\ UNCHANGED <<nodes, drNodes>> /\ th.list = drStatic
        /\ \/ drStatic' = Change(th) /\ SameNode(th, u) /\ u.pc = "nodeStore"
           \/ drStatic' = drStatic /\ Adds(th) /\ u.pc = "idle"
           \/ drStatic' = drStatic /\ ~Adds(th) /\ SameNode(th, u) /\ u.pc = "nodeStore"
    BY <1>0, <1>7, PutStaticStep DEF NodeOK, InOrder
  <2>2. CASE drStatic' = Change(th) /\ SameNode(th, u) /\ u.pc = "nodeStore"
    <3>1. /\ \A n \in Nodes : n # m => (Contains(drStatic', n) <=> Contains(drStatic, n))
          /\ Adds(th) => Contains(drStatic', m)
      BY <1>0, <2>1, <2>2, ChangeContains
    <3>2. Rows(nodes')
      <4>1. \A n \in Nodes : Removing(th, n) => Removing(u, n)
        BY <2>1, <2>2 DEF Removing, SameNode, NodePcs
      <4>2. ~Adds(th) => Removing(u, m)
        BY <1>0, <2>1, <2>2 DEF Removing, SameNode, NodeOK, InOrder, NodePcs, Adds
      <4> QED
        BY <1>0, <1>1, <2>1, <3>1, <4>1, <4>2 DEF Listed
    <3>3. NodeOK(u, drNodes', drStatic')
      BY <1>0, <2>1, <2>2, <3>1 DEF NodeOK, InOrder, NodePcs, SameNode, Adds
    <3> QED
      BY <3>2, <3>3
  <2>3. CASE drStatic' = drStatic /\ Adds(th) /\ u.pc = "idle"
    BY <1>i, <1>s, <2>1, <2>3 DEF Removing, Adds
  <2>4. CASE drStatic' = drStatic /\ ~Adds(th) /\ SameNode(th, u) /\ u.pc = "nodeStore"
    <3>1. Rows(nodes')
      BY <1>s, <2>1, <2>4 DEF Removing, SameNode, NodePcs
    <3>2. NodeOK(u, drNodes', drStatic')
      BY <1>0, <2>1, <2>4 DEF NodeOK, InOrder, NodePcs, SameNode, Adds
    <3> QED
      BY <3>1, <3>2
  <2> QED
    BY <2>1, <2>2, <2>3, <2>4
<1>8. CASE StoreNode(w)
  <2>1. /\ th.pc = "nodeStore" /\ u.pc = "idle" /\ UNCHANGED <<drNodes, drStatic>>
        /\ nodes' = [nodes EXCEPT ![m] = IF Adds(th) THEN th.loc ELSE Absent]
    BY <1>8, StoreNodeStep
  <2>2. /\ \A n \in Nodes : n # m => nodes'[n] = nodes[n] /\ ~Removing(th, n)
        /\ nodes'[m] = IF Adds(th) THEN th.loc ELSE Absent
    BY <1>0, <2>1 DEF Removing
  <2>3. Adds(th) => Layer[th.loc] # Absent /\ Listed(m, th.loc, drNodes, drStatic)
    BY <1>0, <2>1 DEF NodeOK, InOrder, Adds, Listed
  <2>4. Rows(nodes')
    BY <1>0, <1>1, <2>1, <2>2, <2>3 DEF Listed
  <2> QED
    BY <1>i, <2>1, <2>4
<1> QED
  BY <1>2, <1>3, <1>4, <1>5, <1>6, <1>7, <1>8 DEF NodeNext

(* A node that is stored is in NODES, and in STATIC_ROUTING_NODES if it is *)
(* at an edge, whenever no request is served: while requests come one at a *)
(* time and every answer arrives, also when the server refuses calls       *)
(* (DR_NodeService.addDr_Node, removeDr_Node).                             *)
THEOREM StoredNodesAreRouted ==
  ASSUME OneThread, AnswersArrive, MaxExits = 0, ListedBefore
  PROVE  Spec => []NodeIsRouted
<1>1. Init => RoutedInv
  BY DEF Init, RoutedInv, NodeOK, InOrder, NodePcs, Idle, ListedBefore, Listed
<1>2. DrTypeInv /\ RoutedInv /\ [Next]_vars => RoutedInv'
  <2> SUFFICES ASSUME DrTypeInv, RoutedInv, [Next]_vars PROVE RoutedInv'
    OBVIOUS
  <2>1. ASSUME NEW w \in Threads, t[w].pc \notin NodePcs \ {"nodeGet", "nodesGet"}, NodeOK(t'[w], drNodes', drStatic'),
               UNCHANGED <<nodes, drNodes, drStatic>>
        PROVE  RoutedInv'
    <3>1. \A n \in Nodes : nodes[n] # Absent => Layer[nodes[n]] # Absent /\ Listed(n, nodes[n], drNodes, drStatic)
      BY <2>1 DEF RoutedInv, OneThread, Removing
    <3>2. \A n \in Nodes : nodes'[n] # Absent =>
            Layer[nodes'[n]] # Absent /\ (Listed(n, nodes'[n], drNodes', drStatic') \/ Removing(t'[w], n))
      BY <2>1, <3>1 DEF Listed
    <3> QED
      BY <2>1, <3>2, RoutedStep
  <2>2. ASSUME NEW w \in Threads, Start(w) PROVE RoutedInv'
    <3>1. /\ t[w].pc = "idle" /\ t'[w].pc = FirstStep(t'[w].rq.op) /\ t'[w].rq \in Requests
          /\ UNCHANGED <<nodes, drNodes, drStatic>>
      BY <2>2, StartDr DEF tables, server
    <3>2. t'[w].rq.op \in Ops
      BY <3>1, ConstantsAssumption DEF Request
    <3>3. NodeOK(t'[w], drNodes', drStatic')
      BY <3>1, <3>2 DEF NodeOK, InOrder, NodePcs, FirstStep, Ops
    <3> QED
      BY <2>1, <3>1, <3>3 DEF NodePcs
  <2>3. ASSUME NEW w \in Threads, FeedNext(w) \/ PubNext(w) \/ SubNext(w) PROVE RoutedInv'
    <3>1. t[w].pc \notin NodePcs /\ t'[w].pc \notin NodePcs /\ UNCHANGED <<nodes, drNodes, drStatic>>
      BY <2>3, NoNodeStep
    <3>2. NodeOK(t'[w], drNodes', drStatic')
      BY <3>1 DEF NodeOK, InOrder, NodePcs
    <3> QED
      BY <2>1, <3>1, <3>2
  <2>4. ASSUME NEW w \in Threads, NodeNext(w) PROVE RoutedInv'
    BY <2>4, NodeRouted
  <2>5. ~ExitProcess
    <3>1. exits \in 0..0
      BY DEF DrTypeInv, DrTypeOK
    <3> QED
      BY <3>1 DEF ExitProcess
  <2>6. CASE UNCHANGED vars
    BY <2>6 DEF vars, tables, server, RoutedInv, Listed, NodeOK, InOrder
  <2> QED
    BY <2>2, <2>3, <2>4, <2>5, <2>6 DEF Next, Serve, Finished
<1>3. RoutedInv => NodeIsRouted
  BY DEF RoutedInv, NodeIsRouted, Quiet, Removing, NodePcs, Listed
<1> QED
  BY <1>1, <1>2, <1>3, DrInitType, DrNextType, PTL DEF Spec

-----------------------------------------------------------------------------
(* The lists implement NodeRegistry.  A request past the lookup of its row *)
(* knows what is stored; what it is about to write is a copy of the list   *)
(* that still is to be changed; and only nodes at an edge get to the       *)
(* second list.                                                            *)
RegOK(th, rows, list, static) ==
  /\ InOrder(th, list, static)
  /\ th.pc \in NodePcs \ {"nodeGet"} =>
       IF Adds(th) THEN rows[th.rq.node] = Absent
       ELSE rows[th.rq.node] # Absent /\ rows[th.rq.node] = th.loc
  /\ th.pc \in {"nodesPut", "staticPut"} => Contains(th.list, th.rq.node) # Adds(th)
  /\ th.pc \in {"staticGet", "staticPut"} => Layer[th.loc] = "edge"
RegInv == \A w \in Threads : RegOK(t[w], nodes, drNodes, drStatic)

Registered == UNCHANGED <<nodes, Members(drNodes), Members(drStatic)>>

LEMMA ChangeMembers ==
  ASSUME NEW th \in Thread
  PROVE  Members(Change(th)) = IF Adds(th) THEN Members(th.list) \cup {th.rq.node}
                               ELSE Members(th.list) \ {th.rq.node}
<1>1. th.rq.node \in Nodes
  BY ConstantsAssumption DEF Thread, Request
<1> DEFINE new == Change(th)
<1>2. /\ \A n \in Nodes : n # th.rq.node => (Contains(new, n) <=> Contains(th.list, n))
      /\ Contains(new, th.rq.node) <=> Adds(th)
  BY ChangeContains
<1> HIDE DEF new
<1> QED
  BY <1>1, <1>2 DEF Members, new

LEMMA NodeRegisters ==
  ASSUME DrTypeInv, OneThread, AnswersArrive, RegInv, NEW w \in Threads, NodeNext(w)
  PROVE  RegInv' /\ (Registry!Next \/ Registered)
<1> DEFINE th == t[w]
           u  == t'[w]
           m  == th.rq.node
           Keeps == RegOK(u, nodes', drNodes', drStatic')
           Maps  == Registry!Next \/ Registered
<1>0. /\ th \in Thread /\ m \in Nodes /\ RegOK(th, nodes, drNodes, drStatic)
      /\ nodes \in [Nodes -> Locs \cup {Absent}]
  BY ConstantsAssumption DEF DrTypeInv, DrTypeOK, Thread, Request, RegInv
<1>s. UNCHANGED <<nodes, drNodes, drStatic>> => Registered
  BY DEF Registered
<1>i. u.pc = "idle" => Keeps
  BY DEF RegOK, InOrder, NodePcs
<1>g. Keeps => RegInv'
  BY DEF RegInv, OneThread
<1> SUFFICES Keeps /\ Maps
  BY <1>g
<1>2. CASE GetNode(w)
  <2>1. /\ th.pc = "nodeGet" /\ UNCHANGED <<nodes, drNodes, drStatic>>
        /\ \/ u.pc = "idle"
           \/ /\ u.pc = "nodesGet" /\ u.rq = th.rq /\ th.rq.op # "putNode"
              /\ IF th.rq.op = "postNode" THEN nodes[m] = Absent
                 ELSE nodes[m] # Absent /\ u.loc = nodes[m]
    BY <1>2, GetNodeStep
  <2> QED
    BY <1>0, <1>i, <1>s, <2>1 DEF RegOK, InOrder, NodePcs, Adds
<1>3. CASE GetNodes(w)
  <2>1. /\ th.pc = "nodesGet" /\ UNCHANGED <<nodes, drNodes, drStatic>>
        /\ \/ u.pc = "idle" /\ Adds(th)
           \/ /\ SameNode(th, u) /\ u.list = drNodes
              /\ u.pc = IF Contains(drNodes, m) # Adds(th) THEN "nodesPut" ELSE "nodeLocation"
           \/ ~Adds(th) /\ SameNode(th, u) /\ u.pc = "nodeLocation"
    BY <1>3, GetNodesStep
  <2> QED
    BY <1>0, <1>i, <1>s, <2>1 DEF RegOK, InOrder, NodePcs, SameNode, Adds
<1>4. CASE PutNodes(w)
  <2>1. /\ th.pc = "nodesPut" /\ UNCHANGED <<nodes, drStatic>> /\ th.list = drNodes
        /\ \/ drNodes' = Change(th) /\ SameNode(th, u) /\ u.pc = "nodeLocation"
           \/ drNodes' = drNodes /\ Adds(th) /\ u.pc = "idle"
           \/ drNodes' = drNodes /\ ~Adds(th) /\ SameNode(th, u) /\ u.pc = "nodeLocation"
    BY <1>0, <1>4, PutNodesStep DEF RegOK, InOrder
  <2>2. CASE drNodes' = Change(th) /\ SameNode(th, u) /\ u.pc = "nodeLocation"
    <3>1. Adds(th) => Contains(drNodes', m)
      BY <1>0, <2>2, ChangeContains
    <3>2. Keeps
      BY <1>0, <2>1, <2>2, <3>1 DEF RegOK, InOrder, NodePcs, SameNode, Adds
    <3>3. /\ UNCHANGED <<nodes, Members(drStatic)>>
          /\ Members(drNodes)' = IF Adds(th) THEN Members(drNodes) \cup {m}
                                 ELSE Members(drNodes) \ {m}
      BY <1>0, <2>1, <2>2, ChangeMembers
    <3>4. m \in Members(drNodes) <=> ~Adds(th)
      BY <1>0, <2>1 DEF RegOK, Members, Contains, Adds
    <3>5. nodes[m] = Absent <=> Adds(th)
      BY <1>0, <2>1 DEF RegOK, NodePcs
    <3>6. Registry!Enter(m) \/ Registry!Withdraw(m)
      BY <3>3, <3>4, <3>5 DEF Registry!Enter, Registry!Withdraw, Registry!Stored, Absent
    <3> QED
      BY <1>0, <3>2, <3>6 DEF Registry!Next
  <2>3. CASE drNodes' = drNodes /\ (Adds(th) => u.pc = "idle")
    BY <1>0, <1>i, <1>s, <2>1, <2>3 DEF RegOK, InOrder, NodePcs, SameNode, Adds
  <2> QED
    BY <2>1, <2>2, <2>3
<1>5. CASE NodeLocation(w)
  <2>1. /\ th.pc = "nodeLocation" /\ UNCHANGED <<nodes, drNodes, drStatic>>
        /\ \/ Layer[th.loc] = Absent /\ u.pc = "idle"
           \/ Layer[th.loc] = "edge" /\ u.pc = "staticGet" /\ SameNode(th, u)
           \/ Layer[th.loc] \notin {"edge", Absent} /\ u.pc = "nodeStore" /\ SameNode(th, u)
    BY <1>5, NodeLocationStep
  <2> QED
    BY <1>0, <1>i, <1>s, <2>1 DEF RegOK, InOrder, NodePcs, SameNode, Adds, Absent
<1>6. CASE GetStatic(w)
  <2>1. /\ th.pc = "staticGet" /\ UNCHANGED <<nodes, drNodes, drStatic>>
        /\ \/ u.pc = "idle" /\ Adds(th)
           \/ /\ SameNode(th, u) /\ u.list = drStatic
              /\ u.pc = IF Contains(drStatic, m) # Adds(th) THEN "staticPut" ELSE "nodeStore"
           \/ ~Adds(th) /\ SameNode(th, u) /\ u.pc = "nodeStore"
    BY <1>6, GetStaticStep
  <2> QED
    BY <1>0, <1>i, <1>s, <2>1 DEF RegOK, InOrder, NodePcs, SameNode, Adds
<1>7. CASE PutStatic(w)
  <2>1. /\ th.pc = "staticPut" /\ UNCHANGED <<nodes, drNodes>> /\ th.list = drStatic
        /\ \/ drStatic' = Change(th) /\ SameNode(th, u) /\ u.pc = "nodeStore"
           \/ drStatic' = drStatic /\ Adds(th) /\ u.pc = "idle"
           \/ drStatic' = drStatic /\ ~Adds(th) /\ SameNode(th, u) /\ u.pc = "nodeStore"
    BY <1>0, <1>7, PutStaticStep DEF RegOK, InOrder
  <2>2. CASE drStatic' = Change(th) /\ SameNode(th, u) /\ u.pc = "nodeStore"
    <3>1. Adds(th) => Contains(drStatic', m)
      BY <1>0, <2>2, ChangeContains
    <3>2. Keeps
      BY <1>0, <2>1, <2>2, <3>1 DEF RegOK, InOrder, NodePcs, SameNode, Adds
    <3>3. /\ UNCHANGED <<nodes, Members(drNodes)>>
          /\ Members(drStatic)' = IF Adds(th) THEN Members(drStatic) \cup {m}
                                  ELSE Members(drStatic) \ {m}
      BY <1>0, <2>1, <2>2, ChangeMembers
    <3>4. /\ m \in Members(drStatic) <=> ~Adds(th)
          /\ Adds(th) => m \in Members(drNodes)
      BY <1>0, <2>1 DEF RegOK, InOrder, Members, Contains, Adds
    <3>5. /\ nodes[m] = Absent <=> Adds(th)
          /\ ~Adds(th) => Layer[nodes[m]] = "edge"
      BY <1>0, <2>1 DEF RegOK, NodePcs
    <3>6. Registry!Route(m) \/ Registry!Unroute(m)
      BY <3>3, <3>4, <3>5
      DEF Registry!Route, Registry!Unroute, Registry!Stored, Registry!AtEdge, Absent
    <3> QED
      BY <1>0, <3>2, <3>6 DEF Registry!Next
  <2>3. CASE drStatic' = drStatic /\ (Adds(th) => u.pc = "idle")
    BY <1>0, <1>i, <1>s, <2>1, <2>3 DEF RegOK, InOrder, NodePcs, SameNode, Adds
  <2> QED
    BY <2>1, <2>2, <2>3
<1>8. CASE StoreNode(w)
  <2>1. /\ th.pc = "nodeStore" /\ u.pc = "idle" /\ UNCHANGED <<drNodes, drStatic>>
        /\ nodes' = [nodes EXCEPT ![m] = IF Adds(th) THEN th.loc ELSE Absent]
    BY <1>8, StoreNodeStep
  <2>2. UNCHANGED <<Members(drNodes), Members(drStatic)>>
    BY <2>1
  <2>3. CASE Adds(th)
    <3>1. /\ nodes[m] = Absent /\ m \in Members(drNodes) /\ Layer[th.loc] # Absent
          /\ Layer[th.loc] = "edge" => m \in Members(drStatic)
      BY <1>0, <2>1, <2>3 DEF RegOK, InOrder, NodePcs, Adds, Members
    <3>2. th.loc \in Locs
      BY <1>0 DEF Thread
    <3>3. Registry!Store(m, th.loc)
      BY <2>1, <2>2, <2>3, <3>1
      DEF Registry!Store, Registry!Stored, Registry!AtEdge, Absent
    <3> QED
      BY <1>0, <1>i, <2>1, <3>2, <3>3 DEF Registry!Next
  <2>4. CASE ~Adds(th)
    <3>1. nodes[m] # Absent
      BY <1>0, <2>1, <2>4 DEF RegOK, NodePcs
    <3>2. Registry!Drop(m)
      BY <2>1, <2>2, <2>4, <3>1 DEF Registry!Drop, Registry!Stored, Absent
    <3> QED
      BY <1>0, <1>i, <2>1, <3>2 DEF Registry!Next
  <2> QED
    BY <2>3, <2>4
<1> QED
  BY <1>2, <1>3, <1>4, <1>5, <1>6, <1>7, <1>8 DEF NodeNext

(* The node lists of the data router implement NodeRegistry: read, changed *)
(* and written back as a whole, they change like sets, by the node of the  *)
(* request and no other; a node is stored only when the lists have it, and *)
(* they lose it only while it is stored (DR_NodeService.addDr_Node,        *)
(* removeDr_Node).  Requests come one after the other and every answer     *)
(* arrives; calls may be refused, the process may exit at any step, and    *)
(* the lists may have any contents before.                                 *)
THEOREM NodeListsImplementRegistry ==
  ASSUME OneThread, AnswersArrive PROVE Spec => NodesInOrder
<1>1. Init => RegInv /\ Registry!Init
  <2>1. Init => RegInv
    BY DEF Init, RegInv, RegOK, InOrder, NodePcs, Idle
  <2>2. Init => Registry!Init
    BY ConstantsAssumption DEF Init, Registry!Init, Members, Absent
  <2> QED
    BY <2>1, <2>2
<1>2. DrTypeInv /\ RegInv /\ [Next]_vars
        => RegInv' /\ [Registry!Next]_<<nodes, Members(drNodes), Members(drStatic)>>
  <2> SUFFICES ASSUME DrTypeInv, RegInv, [Next]_vars
               PROVE  RegInv' /\ (Registry!Next \/ Registered)
    BY DEF Registered
  <2>1. ASSUME NEW w \in Threads, RegOK(t'[w], nodes', drNodes', drStatic'),
               UNCHANGED <<nodes, drNodes, drStatic>>
        PROVE  RegInv' /\ Registered
    BY <2>1 DEF RegInv, OneThread, Registered
  <2>2. ASSUME NEW w \in Threads, Start(w) PROVE RegInv' /\ Registered
    <3>1. /\ t'[w].pc = FirstStep(t'[w].rq.op) /\ t'[w].rq \in Requests
          /\ UNCHANGED <<nodes, drNodes, drStatic>>
      BY <2>2, StartDr DEF tables, server
    <3>2. t'[w].rq.op \in Ops
      BY <3>1, ConstantsAssumption DEF Request
    <3>3. RegOK(t'[w], nodes', drNodes', drStatic')
      BY <3>1, <3>2 DEF RegOK, InOrder, NodePcs, FirstStep, Ops
    <3> QED
      BY <2>1, <3>1, <3>3
  <2>3. ASSUME NEW w \in Threads, FeedNext(w) \/ PubNext(w) \/ SubNext(w)
        PROVE  RegInv' /\ Registered
    <3>1. t'[w].pc \notin NodePcs /\ UNCHANGED <<nodes, drNodes, drStatic>>
      BY <2>3, NoNodeStep
    <3>2. RegOK(t'[w], nodes', drNodes', drStatic')
      BY <3>1 DEF RegOK, InOrder, NodePcs
    <3> QED
      BY <2>1, <3>1, <3>2
  <2>4. ASSUME NEW w \in Threads, NodeNext(w) PROVE RegInv' /\ (Registry!Next \/ Registered)
    BY <2>4, NodeRegisters
  <2>5. ASSUME ExitProcess PROVE RegInv' /\ Registered
    <3>1. UNCHANGED <<nodes, drNodes, drStatic>> /\ \A w \in Threads : t'[w] = Idle
      BY <2>5 DEF ExitProcess, tables, server
    <3>2. RegOK(Idle, nodes', drNodes', drStatic')
      BY DEF RegOK, InOrder, NodePcs, Idle
    <3> QED
      BY <3>1, <3>2 DEF RegInv, Registered
  <2>6. ASSUME UNCHANGED vars PROVE RegInv' /\ Registered
    BY <2>6 DEF vars, tables, server, RegInv, Registered
  <2> QED
    BY <2>2, <2>3, <2>4, <2>5, <2>6 DEF Next, Serve, Finished
<1> QED
  BY <1>1, <1>2, DrInitType, DrNextType, PTL DEF Spec, NodesInOrder, Registry!Spec
=============================================================================
