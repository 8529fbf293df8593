---------------------------- MODULE DrTypeProofs ----------------------------
(***************************************************************************)
(* Type correctness of DrProvisioning for every value of its constants,    *)
(* and what each of its steps does to the record of its thread, which the  *)
(* proofs about feeds, publishers and nodes rest on.                       *)
(***************************************************************************)
EXTENDS DrProvisioning, TLAPS

(* What a thread's record is besides well typed: the operation a step      *)
(* belongs to.                                                             *)
DrThreadOK(th) ==
  /\ th.pc = "postFeed" => th.rq.op = "postFeed" /\ th.feed = th.rq.feed
  /\ th.pc = "getFeed" => th.rq.op \in {"putFeed", "postPub", "deletePub", "postSub", "putSub"}
  /\ th.pc = "writePub" => th.rq.op = "putPub"
  /\ th.pc = "findPub" => th.rq.op = "deletePub"
  /\ th.pc = "updateSub" => th.rq.op = "putSub"

DrTypeInv == DrTypeOK /\ \A w \in Threads : DrThreadOK(t[w])

-----------------------------------------------------------------------------
(* The records threads start from and come back to.                        *)
LEMMA NoPubType == NoPub \in Pub
<1>1. PICK r \in Requests : r.feed \in Feeds
  BY ConstantsAssumption DEF Request
<1>2. (CHOOSE f \in Feeds : TRUE) \in Feeds
  BY <1>1
<1> QED
  BY <1>2, ConstantsAssumption DEF NoPub, Pub, Statuses

LEMMA NoSubType == NoSub \in Sub
<1>1. PICK r \in Requests : r.feed \in Feeds
  BY ConstantsAssumption DEF Request
<1>2. (CHOOSE f \in Feeds : TRUE) \in Feeds
  BY <1>1
<1>3. (CHOOSE u \in Urls : TRUE) \in Urls
  BY ConstantsAssumption
<1> QED
  BY <1>2, <1>3, ConstantsAssumption DEF NoSub, Sub

LEMMA IdleDrType == Idle \in Thread /\ DrThreadOK(Idle)
<1>1. (CHOOSE r \in Requests : TRUE) \in Requests
  BY ConstantsAssumption
<1>2. NoPub.feed \in Feeds
  BY NoPubType DEF Pub
<1>3. Only(Blank) \in NodeList
  BY DEF Only, NodeList, Names
<1>4. Idle \in Thread
  BY <1>1, <1>2, <1>3, NoPubType, NoSubType, ConstantsAssumption
  DEF Idle, Thread, Codes, States
<1> QED
  BY <1>4 DEF Idle, DrThreadOK

LEMMA ReplyDrType ==
  ASSUME NEW code \in {"-", "success"} \cup Codes
  PROVE  Reply(code) \in Thread /\ DrThreadOK(Reply(code)) /\ Reply(code).pc = "idle"
  BY ZenonT(60), IdleDrType DEF Reply, Thread, DrThreadOK, Idle

LEMMA ConnType == NewPubConn \in PubConn /\ NewSubConn \in SubConn
<1>1. NoPub.feed \in Feeds /\ NoSub.feed \in Feeds
  BY NoPubType, NoSubType DEF Pub, Sub
<1> QED
  BY <1>1, ConstantsAssumption DEF NewPubConn, NewSubConn, PubConn, SubConn

(* The tables, the server, the connections and the counters are well typed. *)
DataOK ==
  /\ feeds \in [Feeds -> States \cup {Absent}]
  /\ pubs \subseteq Pub
  /\ subs \subseteq Sub
  /\ nodes \in [Nodes -> Locs \cup {Absent}]
  /\ drFeeds \in [Feeds -> States \cup {Absent}]
  /\ drUsers \in [Feeds -> SUBSET Users]
  /\ drSubs \subseteq [id : Nat, feed : Feeds, url : Urls]
  /\ ingress \subseteq Feeds \X Users \X SUBSET Nodes
  /\ egress \subseteq Nat \X SUBSET Nodes
  /\ drNodes \in NodeList /\ drStatic \in NodeList
  /\ pubProv \in PubConn /\ subProv \in SubConn
  /\ nextPub \in Nat \ {0} /\ nextSub \in Nat \ {0}
  /\ served \in 0..MaxRequests /\ exits \in 0..MaxExits

LEMMA SplitType ==
  DrTypeInv <=> DataOK /\ t \in [Threads -> Thread] /\ \A w \in Threads : DrThreadOK(t[w])
  BY DEF DrTypeInv, DrTypeOK, DataOK

(* A step of thread w is well typed when its new record and the rest are.  *)
LEMMA StepType ==
  ASSUME DrTypeInv, NEW w \in Threads, NEW th \in Thread, DrThreadOK(th), Go(w, th), DataOK'
  PROVE  DrTypeInv'
<1>1. t' \in [Threads -> Thread] /\ \A v \in Threads : DrThreadOK(t'[v])
  BY SplitType DEF Go
<1> QED
  BY <1>1 DEF DrTypeInv, DrTypeOK, DataOK

LEMMA QuietStepType ==
  ASSUME DrTypeInv, NEW w \in Threads, NEW th \in Thread, DrThreadOK(th), Go(w, th),
         UNCHANGED <<tables, server, statics, ctl>>
  PROVE  DrTypeInv'
<1>1. DataOK'
  BY SplitType DEF DataOK, tables, server, statics, ctl
<1> QED
  BY <1>1, StepType

LEMMA OnlyType == \A x \in Names : Only(x) \in NodeList
  BY DEF Only, NodeList

LEMMA OutcomeType ==
  ASSUME NEW o \in Outcomes
  PROVE  o.effect \in BOOLEAN /\ o.answer \in {"ok", "fail", "lost"}
<1>0. CASE o = Done
  BY <1>0, Zenon DEF Done
<1>1. CASE o = Refused
  BY <1>1, Zenon DEF Refused
<1>2. CASE o \in [effect : BOOLEAN, answer : {"lost"}]
  BY <1>2
<1>3. o \in {Done} \cup {Refused} \cup [effect : BOOLEAN, answer : {"lost"}]
  <2> DEFINE refused == IF "drHttp" \in Faults THEN {Refused} ELSE {}
             lost    == IF "drLost" \in Faults THEN [effect : BOOLEAN, answer : {"lost"}] ELSE {}
  <2>1. refused \subseteq {Refused} /\ lost \subseteq [effect : BOOLEAN, answer : {"lost"}]
    OBVIOUS
  <2>2. o \in {Done} \cup refused \cup lost
    BY DEF Outcomes
  <2> HIDE DEF refused, lost
  <2> QED
    BY <2>1, <2>2
<1> QED
  BY <1>0, <1>1, <1>2, <1>3

(* At most steps of a request DrThreadOK asks for nothing.                 *)
LEMMA PlainDr ==
  ASSUME NEW th \in Thread,
         th.pc \notin {"postFeed", "getFeed", "writePub", "findPub", "updateSub"}
  PROVE  DrThreadOK(th)
  BY DEF DrThreadOK

-----------------------------------------------------------------------------
(* The steps of a node request.                                            *)
LEMMA ChangeType ==
  ASSUME NEW th \in Thread
  PROVE  Change(th) \in NodeList
<1>1. th.list \in NodeList /\ th.rq.node \in Nodes
  BY ConstantsAssumption DEF Thread, Request
<1>2. \A list \in NodeList : AddToList(list, th.rq.node) \in NodeList
  BY <1>1 DEF AddToList, NodeList, Names
<1>3. ASSUME NEW list \in NodeList
      PROVE  RemoveFromList(list, th.rq.node) \in NodeList
  <2> DEFINE left(x) ==
        IF x \notin {th.rq.node, Blank} THEN list[x]
        ELSE IF x = Blank /\ (\A y \in Names \ {th.rq.node, Blank} : list[y] = 0) THEN 1 ELSE 0
  <2>1. \A x \in Names : left(x) \in Nat
    BY DEF NodeList
  <2>2. RemoveFromList(list, th.rq.node) = [x \in Names |-> left(x)]
    BY Zenon DEF RemoveFromList
  <2> HIDE DEF left
  <2> QED
    BY <2>1, <2>2 DEF NodeList
<1> QED
  BY <1>1, <1>2, <1>3 DEF Change

LEMMA CodeAfterType ==
  ASSUME NEW c \in Codes, NEW o \in Outcomes
  PROVE  CodeAfter(c, o) \in Codes
  BY OutcomeType DEF CodeAfter, Codes

LEMMA NodeNextType ==
  ASSUME DrTypeInv, NEW w \in Threads, NodeNext(w)
  PROVE  DrTypeInv'
<1> DEFINE th == t[w]
<1>t. th \in Thread /\ th.rq \in Request /\ DrThreadOK(th)
  BY ConstantsAssumption DEF DrTypeInv, DrTypeOK, Thread
<1>d. DataOK
  BY SplitType
<1>n. nodes \in [Nodes -> Locs \cup {Absent}] /\ th.rq.node \in Nodes /\ th.rq.loc \in Locs
  BY <1>t DEF DrTypeInv, DrTypeOK, Request
<1>e. th.err \in Codes /\ th.loc \in Locs
  BY <1>t DEF Thread
<1>r. drNodes \in NodeList /\ drStatic \in NodeList
  BY DEF DrTypeInv, DrTypeOK
<1>c. {"conflict", "notFound", "fail"} \subseteq Codes
  BY DEF Codes
<1>1. CASE GetNode(w)
  <2> DEFINE found(l) == [th EXCEPT !.pc = "nodesGet", !.loc = l]
  <2>1. \A l \in Locs : found(l) \in Thread /\ found(l).pc = "nodesGet"
    BY <1>t, ZenonT(60) DEF Thread
  <2>2. PICK next \in {Reply("conflict"), Reply("notFound")} \cup {found(l) : l \in Locs} : Go(w, next)
    <3>1. nodes[th.rq.node] # Absent => nodes[th.rq.node] \in Locs
      BY <1>n
    <3> QED
      BY <1>1, <1>n, <3>1 DEF GetNode
  <2>3. next \in Thread /\ DrThreadOK(next)
    BY <2>1, <1>c, ReplyDrType, PlainDr
  <2> QED
    BY <1>1, <2>2, <2>3, QuietStepType DEF GetNode
<1>2. CASE GetNodes(w)
  <2> DEFINE seen(p)    == [th EXCEPT !.err = "ok", !.list = drNodes, !.pc = p]
             unseen(c)  == [th EXCEPT !.err = c, !.pc = "nodeLocation"]
             Next2      == {seen(p) : p \in {"nodesPut", "nodeLocation"}}
                           \cup {Reply(c) : c \in Codes} \cup {unseen(c) : c \in Codes}
  <2>1. \A p \in {"nodesPut", "nodeLocation"} : seen(p) \in Thread /\ seen(p).pc = p
    BY <1>t, <1>r, ZenonT(60) DEF Thread, Codes
  <2>2. \A c \in Codes : unseen(c) \in Thread /\ unseen(c).pc = "nodeLocation"
    BY <1>t, ZenonT(60) DEF Thread
  <2>3. PICK next \in Next2 : Go(w, next)
    <3>1. PICK o \in Outcomes :
            Go(w, IF o.answer = "ok"
                  THEN seen(IF Contains(drNodes, th.rq.node) # Adds(th)
                            THEN "nodesPut" ELSE "nodeLocation")
                  ELSE IF Adds(th) THEN Reply(CodeAfter(th.err, o))
                  ELSE unseen(CodeAfter(th.err, o)))
      BY <1>2 DEF GetNodes
    <3>2. CodeAfter(th.err, o) \in Codes
      BY <1>e, CodeAfterType
    <3> QED
      BY <3>1, <3>2
  <2>4. next \in Thread /\ DrThreadOK(next)
    BY <2>1, <2>2, ReplyDrType, PlainDr
  <2> QED
    BY <1>2, <2>3, <2>4, QuietStepType DEF GetNodes
<1>3. CASE PutNodes(w)
  <2> DEFINE put(c) == [th EXCEPT !.pc = "nodeLocation", !.err = c]
  <2>1. \A c \in Codes : put(c) \in Thread /\ put(c).pc = "nodeLocation"
    BY <1>t, ZenonT(60) DEF Thread
  <2>2. PICK o \in Outcomes :
          /\ drNodes' = IF o.effect THEN Change(th) ELSE drNodes
          /\ Go(w, IF o.answer = "fail" /\ Adds(th) THEN Reply("fail")
                   ELSE put(CodeAfter(th.err, o)))
    BY <1>3 DEF PutNodes
  <2>3. CodeAfter(th.err, o) \in Codes
    BY <1>e, CodeAfterType
  <2>4. PICK next \in {Reply("fail"), put(CodeAfter(th.err, o))} : Go(w, next)
    BY <2>2
  <2>5. next \in Thread /\ DrThreadOK(next)
    BY <2>1, <2>3, <1>c, ReplyDrType, PlainDr
  <2>6. drNodes' \in NodeList
    BY <2>2, <1>r, <1>t, ChangeType
  <2>7. DataOK'
    BY <1>3, <1>d, <2>6 DEF PutNodes, DataOK, tables, statics, ctl
  <2> QED
    BY <2>4, <2>5, <2>7, StepType
<1>4. CASE NodeLocation(w)
  <2> DEFINE at(p) == [th EXCEPT !.pc = p]
  <2>1. \A p \in {"staticGet", "nodeStore"} : at(p) \in Thread /\ at(p).pc = p
    BY <1>t, ZenonT(60) DEF Thread
  <2>2. PICK next \in {Reply("fail"), at("staticGet"), at("nodeStore")} : Go(w, next)
    BY <1>4 DEF NodeLocation, ServerError
  <2>3. next \in Thread /\ DrThreadOK(next)
    BY <2>1, <1>c, ReplyDrType, PlainDr
  <2> QED
    BY <1>4, <2>2, <2>3, QuietStepType DEF NodeLocation
<1>5. CASE GetStatic(w)
  <2> DEFINE seen(p)   == [th EXCEPT !.err = "ok", !.list = drStatic, !.pc = p]
             lost(p)   == [th EXCEPT !.list = Only(NullName), !.pc = p]
             failed    == [th EXCEPT !.err = "fail", !.pc = "nodeStore"]
             P         == {"staticPut", "nodeStore"}
             Next5     == {seen(p) : p \in P} \cup {lost(p) : p \in P} \cup {Reply("fail"), failed}
  <2>1. \A p \in P : seen(p) \in Thread /\ seen(p).pc = p
    BY <1>t, <1>r, ZenonT(60) DEF Thread, Codes
  <2>2. \A p \in P : lost(p) \in Thread /\ lost(p).pc = p
    <3>1. Only(NullName) \in NodeList
      BY OnlyType DEF Names
    <3> QED
      BY <1>t, <3>1, ZenonT(60) DEF Thread
  <2>3. failed \in Thread /\ failed.pc = "nodeStore"
    BY <1>t, ZenonT(60) DEF Thread, Codes
  <2>4. PICK next \in Next5 : Go(w, next)
    BY <1>5 DEF GetStatic
  <2>5. next \in Thread /\ DrThreadOK(next)
    BY <2>1, <2>2, <2>3, <1>c, ReplyDrType, PlainDr
  <2> QED
    BY <1>5, <2>4, <2>5, QuietStepType DEF GetStatic
<1>6. CASE PutStatic(w)
  <2> DEFINE put == [th EXCEPT !.pc = "nodeStore"]
  <2>1. put \in Thread /\ put.pc = "nodeStore"
    BY <1>t, ZenonT(60) DEF Thread
  <2>2. PICK o \in Outcomes :
          /\ drStatic' = IF o.effect THEN Change(th) ELSE drStatic
          /\ Go(w, IF o.answer = "fail" /\ Adds(th) THEN Reply("fail") ELSE put)
    BY <1>6 DEF PutStatic
  <2>3. PICK next \in {Reply("fail"), put} : Go(w, next)
    BY <2>2
  <2>4. next \in Thread /\ DrThreadOK(next)
    BY <2>1, <1>c, ReplyDrType, PlainDr
  <2>5. drStatic' \in NodeList
    BY <2>2, <1>r, <1>t, ChangeType
  <2>6. DataOK'
    BY <1>6, <1>d, <2>5 DEF PutStatic, DataOK, tables, statics, ctl
  <2> QED
    BY <2>3, <2>4, <2>6, StepType
<1>7. CASE StoreNode(w)
  <2>1. Success \in Thread /\ DrThreadOK(Success)
    BY ReplyDrType DEF Success
  <2>2. nodes' \in [Nodes -> Locs \cup {Absent}]
    BY <1>7, <1>n, <1>e DEF StoreNode
  <2>3. DataOK'
    BY <1>7, <1>d, <2>2 DEF StoreNode, DataOK, server, statics, ctl
  <2> QED
    BY <1>7, <2>1, <2>3, StepType DEF StoreNode
<1> QED
  BY <1>1, <1>2, <1>3, <1>4, <1>5, <1>6, <1>7 DEF NodeNext

-----------------------------------------------------------------------------
(* The steps of a publisher.                                               *)
LEMMA PubOfType ==
  ASSUME NEW spec \in PubSpec, NEW f \in Feeds
  PROVE  PubOf(spec, f) \in Pub /\ PubOf(spec, f).id = 0
  BY NoPubType, ZenonT(60) DEF PubOf, PubSpec, Pub, NoPub

LEMMA PutPubsType ==
  ASSUME pubs \subseteq Pub, NEW p \in Pub
  PROVE  Put(pubs, p) \subseteq Pub
  BY DEF Put

LEMMA PubNextType ==
  ASSUME DrTypeInv, NEW w \in Threads, PubNext(w)
  PROVE  DrTypeInv'
<1> DEFINE th == t[w]
<1>t. th \in Thread /\ th.rq \in Request /\ DrThreadOK(th)
  BY ConstantsAssumption DEF DrTypeInv, DrTypeOK, Thread
<1>d. DataOK
  BY SplitType
<1>f. /\ th.pubs \subseteq Pub /\ th.pub \in Pub /\ th.at \subseteq Nodes /\ th.feed \in Feeds
      /\ pubs \subseteq Pub /\ pubProv \in PubConn /\ nextPub \in Nat
  BY <1>t, <1>d DEF Thread, DataOK
<1>c. {"notFound", "fail"} \subseteq Codes
  BY DEF Codes
<1>1. CASE NewPubService(w)
  <2> DEFINE next == [th EXCEPT !.pc = "savePub"]
  <2>1. next \in Thread /\ next.pc = "savePub"
    BY <1>t, ZenonT(60) DEF Thread
  <2>2. DrThreadOK(next)
    BY <2>1, PlainDr
  <2>3. DataOK'
    BY <1>1, <1>d, ConnType DEF NewPubService, DataOK, tables, server, ctl
  <2>4. Go(w, next)
    BY <1>1 DEF NewPubService
  <2> HIDE DEF next
  <2> QED
    BY <2>1, <2>2, <2>3, <2>4, StepType
<1>2. CASE SavePub(w)
  <2>1. nextPub' \in Nat \ {0}
    <3>1. nextPub' = nextPub \/ nextPub' = nextPub + 1
      BY <1>2 DEF SavePub
    <3>2. nextPub \in Nat \ {0}
      BY <1>d DEF DataOK
    <3> QED
      BY <3>1, <3>2
  <2>2. DataOK'
    <3>1. UNCHANGED <<tables, server, statics, nextSub, served, exits>>
      BY <1>2 DEF SavePub
    <3> QED
      BY <3>1, <1>d, <2>1 DEF DataOK, tables, server, statics
  <2> DEFINE done     == [th EXCEPT !.pc = "saveSub"]
             skip(p)  == [th EXCEPT !.pubs = @ \ {p}]
             row(p)   == [p EXCEPT !.id = nextPub, !.feed = th.feed, !.status = "VALID"]
             save(p, c) == [th EXCEPT !.pubs = @ \ {p}, !.at = NodesAt(p.loc),
                              !.pub = row(p), !.pc = c]
  <2>3. done \in Thread /\ done.pc = "saveSub"
    BY <1>t, ZenonT(60) DEF Thread
  <2>4. \A p \in th.pubs : skip(p) \in Thread /\ skip(p).pc = th.pc
    <3>1. \A p \in th.pubs : th.pubs \ {p} \in SUBSET Pub
      BY <1>f
    <3> QED
      BY <1>t, <3>1, ZenonT(60) DEF Thread
  <2>5. \A p \in th.pubs, c \in {"putPub", "ingressMake"} :
          save(p, c) \in Thread /\ save(p, c).pc = c
    <3> TAKE p \in th.pubs
    <3>1. th.pubs \ {p} \in SUBSET Pub /\ NodesAt(p.loc) \in SUBSET Nodes
      BY <1>f DEF NodesAt
    <3>2. row(p) \in Pub
      <4>1. p \in Pub
        BY <1>f
      <4> QED
        BY <1>f, <4>1, ZenonT(60) DEF Pub, Statuses
    <3> HIDE DEF row
    <3> QED
      BY <1>t, <3>1, <3>2, ZenonT(60) DEF Thread
  <2>6. PICK next \in {done} \cup {skip(p) : p \in th.pubs}
                      \cup {save(p, "putPub") : p \in th.pubs}
                      \cup {save(p, "ingressMake") : p \in th.pubs} : Go(w, next)
    BY <1>2 DEF SavePub
  <2>7. next \in Thread /\ DrThreadOK(next)
    <3>1. th.pc = "savePub"
      BY <1>2 DEF SavePub
    <3>2. next \in Thread /\ next.pc \in {"saveSub", "savePub", "putPub", "ingressMake"}
      <4> HIDE DEF done, skip, save
      <4> QED
        BY <2>3, <2>4, <2>5, <2>6, <3>1
    <3> QED
      BY <3>2, PlainDr
  <2> QED
    BY <2>6, <2>7, <2>2, StepType
<1>3. CASE MakeIngress(w)
  <2> DEFINE next == [th EXCEPT !.pc = "ingressPost"]
  <2>1. next \in Thread /\ next.pc = "ingressPost"
    BY <1>t, ZenonT(60) DEF Thread
  <2>2. DrThreadOK(next)
    BY <2>1, PlainDr
  <2>3. pubProv' \in PubConn
    <3>1. pubProv' = [feed |-> th.pub.feed, user |-> th.pub.user, at |-> th.at, ready |-> TRUE]
      BY <1>3 DEF MakeIngress
    <3>2. th.pub.feed \in Feeds /\ th.pub.user \in Users
      BY <1>f DEF Pub
    <3> QED
      BY <1>f, <3>1, <3>2 DEF PubConn
  <2>4. DataOK'
    BY <1>3, <1>d, <2>3 DEF MakeIngress, DataOK, tables, server, ctl
  <2>5. Go(w, next)
    BY <1>3 DEF MakeIngress
  <2> HIDE DEF next
  <2> QED
    BY <2>1, <2>2, <2>4, <2>5, StepType
<1>4. CASE PostIngress(w)
  <2> DEFINE next(st) == [th EXCEPT !.pc = "putPub", !.pub = [th.pub EXCEPT !.status = st]]
  <2>1. \A st \in Statuses : next(st) \in Thread /\ next(st).pc = "putPub"
    <3>1. \A st \in Statuses : [th.pub EXCEPT !.status = st] \in Pub
      BY <1>f, ZenonT(60) DEF Pub
    <3> QED
      BY <1>t, <3>1, ZenonT(60) DEF Thread
  <2>2. PICK st \in Statuses : Go(w, next(st))
    <3>1. th.pub.status \in Statuses
      BY <1>f DEF Pub
    <3> QED
      BY <1>4, <3>1 DEF PostIngress, Statuses
  <2>3. DrThreadOK(next(st))
    BY <2>1, PlainDr
  <2>4. pubProv' \in PubConn
    <3>1. pubProv' = pubProv \/ pubProv' = [pubProv EXCEPT !.ready = FALSE]
      BY <1>4 DEF PostIngress
    <3> QED
      BY <1>f, <3>1 DEF PubConn
  <2>5. ingress' \subseteq Feeds \X Users \X SUBSET Nodes
    <3>1. \/ ingress' = ingress
          \/ ingress' = ingress \cup {<<pubProv.feed, pubProv.user, pubProv.at>>}
      BY <1>4 DEF PostIngress
    <3>2. <<pubProv.feed, pubProv.user, pubProv.at>> \in Feeds \X Users \X SUBSET Nodes
      BY <1>f DEF PubConn
    <3> QED
      BY <1>d, <3>1, <3>2 DEF DataOK
  <2>6. DataOK'
    <3>1. UNCHANGED <<tables, drFeeds, drUsers, drSubs, egress, drNodes, drStatic, subProv, ctl>>
      BY <1>4 DEF PostIngress
    <3> QED
      BY <3>1, <1>d, <2>4, <2>5 DEF DataOK, tables, ctl
  <2> HIDE DEF next
  <2> QED
    BY <2>1, <2>2, <2>3, <2>6, StepType
<1>5. CASE PutPub(w)
  <2> DEFINE next == [th EXCEPT !.pc = "savePub"]
  <2>1. next \in Thread /\ next.pc = "savePub"
    BY <1>t, ZenonT(60) DEF Thread
  <2>2. DrThreadOK(next)
    BY <2>1, PlainDr
  <2>3. pubs' \subseteq Pub
    BY <1>5, <1>f, PutPubsType DEF PutPub
  <2>4. DataOK'
    BY <1>5, <1>d, <2>3 DEF PutPub, DataOK, server, statics, ctl
  <2>5. Go(w, next)
    BY <1>5 DEF PutPub
  <2> HIDE DEF next
  <2> QED
    BY <2>1, <2>2, <2>4, <2>5, StepType
<1>6. CASE WritePub(w)
  <2>1. th.rq.op = "putPub"
    BY <1>6, <1>t DEF WritePub, DrThreadOK
  <2>2. th.rq \in Requests /\ th.rq.pubs \subseteq PubSpec /\ th.rq.feed \in Feeds /\ th.rq.id \in Nat
    BY <1>t DEF Thread, Request
  <2>3. TheOne(th.rq.pubs) \in PubSpec
    BY <2>1, <2>2, ConstantsAssumption DEF TheOne
  <2> DEFINE made == PubOf(TheOne(th.rq.pubs), th.rq.feed)
             row  == [made EXCEPT !.id = th.rq.id]
  <2>4. row \in Pub
    <3>1. made \in Pub
      BY <2>2, <2>3, PubOfType
    <3> HIDE DEF made
    <3> QED
      BY <2>2, <3>1, ZenonT(60) DEF Pub
  <2>5. pubs' \subseteq Pub
    <3>1. pubs' = Put(pubs, row)
      BY <1>6 DEF WritePub
    <3> HIDE DEF row
    <3> QED
      BY <3>1, <1>f, <2>4, PutPubsType
  <2>6. DataOK'
    BY <1>6, <1>d, <2>5 DEF WritePub, DataOK, server, statics, ctl
  <2>7. Success \in Thread /\ DrThreadOK(Success) /\ Go(w, Success)
    BY <1>6, ReplyDrType DEF Success, WritePub
  <2> QED
    BY <2>6, <2>7, StepType
<1>7. CASE FindPub(w)
  <2> DEFINE found(p) == [th EXCEPT !.pub = p, !.feed = p.feed, !.err = "ok", !.pc = "getFeed"]
  <2>1. \A p \in Pub : found(p) \in Thread /\ found(p).pc = "getFeed" /\ found(p).rq = th.rq
    <3>1. \A p \in Pub : p.feed \in Feeds
      BY DEF Pub
    <3> QED
      BY <1>t, <3>1, ZenonT(60) DEF Thread, Codes
  <2>2. PICK next \in {Reply("notFound")} \cup {found(p) : p \in pubs} : Go(w, next)
    BY <1>7 DEF FindPub
  <2>3. next \in Thread /\ DrThreadOK(next)
    <3>1. th.rq.op = "deletePub"
      BY <1>7, <1>t DEF FindPub, DrThreadOK
    <3>2. ASSUME NEW p \in pubs, next = found(p)
          PROVE  next \in Thread /\ DrThreadOK(next)
      BY <3>1, <3>2, <2>1, <1>f DEF DrThreadOK
    <3> QED
      BY <2>2, <3>2, <1>c, ReplyDrType
  <2>4. DataOK'
    <3>1. pubProv' \in PubConn
      BY <1>7, <1>f, ConnType DEF FindPub
    <3>2. UNCHANGED <<tables, server, subProv, ctl>>
      BY <1>7 DEF FindPub
    <3> QED
      BY <3>1, <3>2, <1>d DEF DataOK, tables, server, ctl
  <2> QED
    BY <2>2, <2>3, <2>4, StepType
<1>8. CASE RemovePub(w)
  <2>1. PICK next \in {Success, Reply("notFound")} : Go(w, next)
    BY <1>8 DEF RemovePub
  <2>2. next \in Thread /\ DrThreadOK(next)
    BY <1>c, ReplyDrType DEF Success
  <2>3. DataOK'
    BY <1>8, <1>d DEF RemovePub, DataOK, server, statics, ctl
  <2> QED
    BY <2>1, <2>2, <2>3, StepType
<1> QED
  BY <1>1, <1>2, <1>3, <1>4, <1>5, <1>6, <1>7, <1>8 DEF PubNext

-----------------------------------------------------------------------------
(* The steps of a subscriber.                                              *)
LEMMA SubOfType ==
  ASSUME NEW spec \in SubSpec, NEW f \in Feeds
  PROVE  SubOf(spec, f) \in Sub /\ SubOf(spec, f).id = 0
  BY NoSubType, ZenonT(60) DEF SubOf, SubSpec, Sub, NoSub

LEMMA PutSubsType ==
  ASSUME subs \subseteq Sub, NEW s \in Sub
  PROVE  Put(subs, s) \subseteq Sub
  BY DEF Put

LEMMA FailsDrType ==
  ASSUME NEW th \in Thread, NEW code \in Codes
  PROVE  Fails(th, code) \in Thread /\ DrThreadOK(Fails(th, code)) /\ Fails(th, code).pc = "idle"
<1> DEFINE c == IF th.rq.op = "postPub" THEN "none" ELSE code
<1>1. c \in Codes
  BY DEF Codes
<1>2. Fails(th, code) = Reply(c)
  BY DEF Fails
<1> HIDE DEF c
<1> QED
  BY <1>1, <1>2, ReplyDrType

(* What a call through subProv leaves: the subscriptions, the route.       *)
LEMMA SubscribeType ==
  ASSUME DataOK, NEW url \in Urls, NEW o, Subscribe(url, o)
  PROVE  /\ drSubs' \subseteq [id : Nat, feed : Feeds, url : Urls]
         /\ nextSub' \in Nat \ {0}
<1>1. subProv.feed \in Feeds /\ nextSub \in Nat \ {0}
  BY DEF DataOK, SubConn
<1>2. drSubs \subseteq [id : Nat, feed : Feeds, url : Urls]
  BY DEF DataOK
<1> QED
  BY <1>1, <1>2 DEF Subscribe

LEMMA RouteType ==
  ASSUME DataOK, NEW o, Route(o)
  PROVE  egress' \subseteq Nat \X SUBSET Nodes
<1>1. subProv.id \in Nat /\ subProv.at \subseteq Nodes
  BY DEF DataOK, SubConn
<1>2. egress \subseteq Nat \X SUBSET Nodes
  BY DEF DataOK
<1> QED
  BY <1>1, <1>2 DEF Route

LEMMA UsedConnType ==
  ASSUME DataOK
  PROVE  [subProv EXCEPT !.ready = FALSE] \in SubConn
<1>1. subProv \in SubConn
  BY DEF DataOK
<1> QED
  BY <1>1 DEF SubConn

LEMMA SubNextType ==
  ASSUME DrTypeInv, NEW w \in Threads, SubNext(w)
  PROVE  DrTypeInv'
<1> DEFINE th == t[w]
<1>t. th \in Thread /\ th.rq \in Requests /\ th.rq \in Request /\ DrThreadOK(th)
  BY ConstantsAssumption DEF DrTypeInv, DrTypeOK, Thread
<1>d. DataOK
  BY SplitType
<1>f. /\ th.subs \subseteq Sub /\ th.sub \in Sub /\ th.at \subseteq Nodes /\ th.feed \in Feeds
  BY <1>t DEF Thread
<1>g. /\ subs \subseteq Sub /\ subProv \in SubConn /\ nextSub \in Nat \ {0}
      /\ drSubs \subseteq [id : Nat, feed : Feeds, url : Urls]
  BY <1>d DEF DataOK
<1>c. {"notFound", "fail", "bad"} \subseteq Codes
  BY DEF Codes
<1>1. CASE SaveSub(w)
  <2> DEFINE done    == [th EXCEPT !.pc = "storeFeed"]
             skip(s) == [th EXCEPT !.subs = @ \ {s}]
             new(s)  == [th EXCEPT !.subs = @ \ {s}, !.sub = s, !.pc = "subNew"]
  <2>1. done \in Thread /\ done.pc = "storeFeed"
    BY <1>t, ZenonT(60) DEF Thread
  <2>2. \A s \in th.subs : th.subs \ {s} \in SUBSET Sub /\ s \in Sub
    BY <1>f
  <2>3. \A s \in th.subs : skip(s) \in Thread /\ skip(s).pc = th.pc
    BY <1>t, <2>2, ZenonT(60) DEF Thread
  <2>4. \A s \in th.subs : new(s) \in Thread /\ new(s).pc = "subNew"
    BY <1>t, <2>2, ZenonT(60) DEF Thread
  <2>5. th.pc = "saveSub" /\ UNCHANGED <<tables, server, statics, ctl>>
    BY <1>1 DEF SaveSub
  <2>6. PICK next \in {done} \cup {skip(s) : s \in th.subs} \cup {new(s) : s \in th.subs} : Go(w, next)
    BY <1>1 DEF SaveSub
  <2>7. next \in Thread /\ next.pc \in {"storeFeed", "saveSub", "subNew"}
    <3> HIDE DEF done, skip, new
    <3> QED
      BY <2>1, <2>3, <2>4, <2>5, <2>6
  <2>8. DrThreadOK(next)
    BY <2>7, PlainDr
  <2> QED
    BY <2>5, <2>6, <2>7, <2>8, QuietStepType
<1>2. CASE NewSubProv(w)
  <2> DEFINE next == [th EXCEPT !.pc = "subMake"]
  <2>1. next \in Thread /\ next.pc = "subMake"
    BY <1>t, ZenonT(60) DEF Thread
  <2>2. DrThreadOK(next)
    BY <2>1, PlainDr
  <2>3. DataOK'
    BY <1>2, <1>d, ConnType DEF NewSubProv, DataOK, tables, server, ctl
  <2>4. Go(w, next)
    BY <1>2 DEF NewSubProv
  <2> HIDE DEF next
  <2> QED
    BY <2>1, <2>2, <2>3, <2>4, StepType
<1>3. CASE MakeSubscribe(w)
  <2> DEFINE next == [th EXCEPT !.pc = "subPost"]
  <2>1. next \in Thread /\ next.pc = "subPost"
    BY <1>t, ZenonT(60) DEF Thread
  <2>2. DrThreadOK(next)
    BY <2>1, PlainDr
  <2>3. subProv' \in SubConn
    <3>1. [NewSubConn EXCEPT !.feed = th.feed, !.ready = TRUE] \in SubConn
      BY <1>f, ConnType DEF SubConn
    <3> QED
      BY <1>3, <3>1 DEF MakeSubscribe
  <2>4. DataOK'
    BY <1>3, <1>d, <2>3 DEF MakeSubscribe, DataOK, tables, server, ctl
  <2>5. Go(w, next)
    BY <1>3 DEF MakeSubscribe
  <2> HIDE DEF next
  <2> QED
    BY <2>1, <2>2, <2>4, <2>5, StepType
<1>4. CASE PostSubscribe(w)
  <2> DEFINE row  == [th.sub EXCEPT !.id = nextSub, !.feed = subProv.feed]
             next == [th EXCEPT !.sub = row, !.pc = "egressNodes"]
  <2>1. next \in Thread /\ next.pc = "egressNodes"
    <3>1. row \in Sub
      <4>1. subProv.feed \in Feeds /\ nextSub \in Nat
        BY <1>g DEF SubConn
      <4> QED
        BY <1>f, <4>1, ZenonT(60) DEF Sub
    <3> HIDE DEF row
    <3> QED
      BY <1>t, <3>1, ZenonT(60) DEF Thread
  <2>2. th.sub.url \in Urls
    BY <1>f DEF Sub
  <2>3. UNCHANGED <<tables, drFeeds, drUsers, ingress, drNodes, drStatic, pubProv, nextPub, served, exits>>
    BY <1>4 DEF PostSubscribe
  <2>4. /\ drSubs' \subseteq [id : Nat, feed : Feeds, url : Urls]
        /\ nextSub' \in Nat \ {0}
        /\ egress' \subseteq Nat \X SUBSET Nodes
    <3>1. \/ UNCHANGED <<drSubs, egress, nextSub>>
          \/ (\E o \in Outcomes : Subscribe(th.sub.url, o)) /\ UNCHANGED egress
          \/ (\E o \in Outcomes : Route(o)) /\ UNCHANGED <<drSubs, nextSub>>
      BY <1>4 DEF PostSubscribe
    <3>2. egress \subseteq Nat \X SUBSET Nodes
      BY <1>d DEF DataOK
    <3> HIDE DEF th
    <3> QED
      BY <3>1, <3>2, <2>2, <1>d, <1>g, SubscribeType, RouteType
  <2>5. subProv' \in SubConn
    BY <1>4, <1>d, <1>g, UsedConnType DEF PostSubscribe
  <2>6. DataOK'
    BY <1>d, <2>3, <2>4, <2>5 DEF DataOK, tables
  <2>7. PICK n \in {Fails(th, "bad"), next} : Go(w, n)
    BY <1>4 DEF PostSubscribe
  <2>8. n \in Thread /\ DrThreadOK(n)
    <3>1. DrThreadOK(next)
      BY <2>1, PlainDr
    <3> HIDE DEF th, next
    <3> QED
      BY <3>1, <2>1, <2>7, <1>t, <1>c, FailsDrType
  <2> QED
    BY <2>6, <2>7, <2>8, StepType
<1>5. CASE EgressNodes(w)
  <2> DEFINE none    == [th EXCEPT !.pc = "putSub"]
             some(n) == [th EXCEPT !.at = {n}, !.pc = "egressMake"]
  <2>1. none \in Thread /\ none.pc = "putSub"
    BY <1>t, ZenonT(60) DEF Thread
  <2>2. \A n \in Nodes : some(n) \in Thread /\ some(n).pc = "egressMake"
    <3>1. \A n \in Nodes : {n} \in SUBSET Nodes
      OBVIOUS
    <3> QED
      BY <1>t, <3>1, ZenonT(60) DEF Thread
  <2>3. PICK next \in {none} \cup {some(n) : n \in Nodes} : Go(w, next)
    BY <1>5 DEF EgressNodes, NodesAt
  <2>4. UNCHANGED <<tables, server, statics, ctl>>
    BY <1>5 DEF EgressNodes
  <2>5. next \in Thread /\ next.pc \in {"putSub", "egressMake"}
    <3> HIDE DEF none, some
    <3> QED
      BY <2>1, <2>2, <2>3
  <2>6. DrThreadOK(next)
    BY <2>5, PlainDr
  <2> QED
    BY <2>3, <2>4, <2>5, <2>6, QuietStepType
<1>6. CASE MakeEgress(w)
  <2> DEFINE next == [th EXCEPT !.pc = "egressPost"]
  <2>1. next \in Thread /\ next.pc = "egressPost"
    BY <1>t, ZenonT(60) DEF Thread
  <2>2. DrThreadOK(next)
    BY <2>1, PlainDr
  <2>3. subProv' \in SubConn
    <3>1. th.sub.id \in Nat
      BY <1>f DEF Sub
    <3>2. [NewSubConn EXCEPT !.kind = "egress", !.id = th.sub.id, !.at = th.at, !.ready = TRUE] \in SubConn
      BY <1>f, <3>1, ConnType DEF SubConn
    <3> QED
      BY <1>6, <3>2 DEF MakeEgress
  <2>4. DataOK'
    BY <1>6, <1>d, <2>3 DEF MakeEgress, DataOK, tables, server, ctl
  <2>5. Go(w, next)
    BY <1>6 DEF MakeEgress
  <2> HIDE DEF next
  <2> QED
    BY <2>1, <2>2, <2>4, <2>5, StepType
<1>7. CASE PostEgress(w)
  <2> DEFINE next == [th EXCEPT !.pc = "putSub"]
  <2>1. next \in Thread /\ next.pc = "putSub"
    BY <1>t, ZenonT(60) DEF Thread
  <2>2. DrThreadOK(next)
    BY <2>1, PlainDr
  <2>3. egress' \subseteq Nat \X SUBSET Nodes
    <3>1. UNCHANGED egress \/ \E o \in Outcomes : Route(o)
      BY <1>7 DEF PostEgress
    <3>2. egress \subseteq Nat \X SUBSET Nodes
      BY <1>d DEF DataOK
    <3> QED
      BY <3>1, <3>2, <1>d, RouteType
  <2>4. subProv' \in SubConn
    BY <1>7, <1>d, <1>g, UsedConnType DEF PostEgress
  <2>5. UNCHANGED <<tables, drFeeds, drUsers, drSubs, ingress, drNodes, drStatic, pubProv, ctl>>
    BY <1>7 DEF PostEgress
  <2>6. DataOK'
    BY <1>d, <2>3, <2>4, <2>5 DEF DataOK, tables, ctl
  <2>7. Go(w, next)
    BY <1>7 DEF PostEgress
  <2> HIDE DEF next
  <2> QED
    BY <2>1, <2>2, <2>6, <2>7, StepType
<1>8. CASE PutSub(w)
  <2> DEFINE back == [th EXCEPT !.err = "ok", !.pc = "saveSub"]
  <2>1. back \in Thread /\ back.pc = "saveSub"
    BY <1>t, ZenonT(60) DEF Thread, Codes
  <2>2. PICK next \in {Success, back} : Go(w, next)
    BY <1>8 DEF PutSub
  <2>3. next \in Thread /\ DrThreadOK(next)
    <3>1. DrThreadOK(back)
      BY <2>1, PlainDr
    <3> HIDE DEF back
    <3> QED
      BY <3>1, <2>1, <2>2, ReplyDrType DEF Success
  <2>4. subs' \subseteq Sub
    BY <1>8, <1>f, <1>g, PutSubsType DEF PutSub
  <2>5. DataOK'
    BY <1>8, <1>d, <2>4 DEF PutSub, DataOK, server, statics, ctl
  <2> QED
    BY <2>2, <2>3, <2>5, StepType
<1>9. CASE UpdateSub(w)
  <2>1. th.rq.op = "putSub"
    BY <1>9, <1>t DEF UpdateSub, DrThreadOK
  <2> DEFINE spec == TheOne(th.rq.subs)
             row(s)  == [SubOf(spec, s.feed) EXCEPT !.id = s.id]
             next(s) == [th EXCEPT !.sub = row(s), !.pc = "putSub"]
  <2>2. spec \in SubSpec
    <3>1. th.rq.subs \subseteq SubSpec /\ th.rq.subs # {}
      BY <1>t, <2>1, ConstantsAssumption DEF Request
    <3> QED
      BY <3>1 DEF TheOne
  <2>3. ASSUME NEW s \in drSubs
        PROVE  next(s) \in Thread /\ next(s).pc = "putSub"
    <3>1. s.id \in Nat /\ s.feed \in Feeds
      BY <1>g
    <3>2. SubOf(spec, s.feed) \in Sub
      BY <2>2, <3>1, SubOfType
    <3>3. row(s) \in Sub
      <4> DEFINE r == SubOf(spec, s.feed)
      <4> HIDE DEF r
      <4> QED
        BY <3>1, <3>2, ZenonT(60) DEF Sub, r
    <3> HIDE DEF row
    <3> QED
      BY <1>t, <3>3, ZenonT(60) DEF Thread
  <2>4. drSubs' \subseteq [id : Nat, feed : Feeds, url : Urls]
    <3>1. \/ UNCHANGED drSubs
          \/ \E s \in drSubs, o \in Outcomes : Redirect(s, spec.url, o)
      BY <1>9 DEF UpdateSub
    <3>2. spec.url \in Urls
      BY <2>2 DEF SubSpec
    <3> HIDE DEF spec
    <3> QED
      BY <3>1, <3>2, <1>g DEF Redirect, Put
  <2>5. PICK n \in {Reply("notFound"), Reply("bad"), Reply("fail")} \cup {next(s) : s \in drSubs} : Go(w, n)
    BY <1>9 DEF UpdateSub
  <2>6. n \in Thread /\ DrThreadOK(n)
    <3> HIDE DEF next
    <3>1. CASE n \in {next(s) : s \in drSubs}
      BY <3>1, <2>3, PlainDr
    <3> QED
      BY <3>1, <2>5, <1>c, ReplyDrType
  <2>7. DataOK'
    <3>1. UNCHANGED <<tables, drFeeds, drUsers, ingress, egress, drNodes, drStatic, statics, ctl>>
      BY <1>9 DEF UpdateSub
    <3> QED
      BY <3>1, <2>4, <1>d DEF DataOK, tables, statics, ctl
  <2> HIDE DEF next
  <2> QED
    BY <2>5, <2>6, <2>7, StepType
<1>10. CASE RemoveSub(w)
  <2>1. PICK next \in {Success, Reply("notFound")} : Go(w, next)
    BY <1>10 DEF RemoveSub
  <2>2. next \in Thread /\ DrThreadOK(next)
    BY <1>c, ReplyDrType DEF Success
  <2>3. DataOK'
    BY <1>10, <1>d DEF RemoveSub, DataOK, server, statics, ctl
  <2> QED
    BY <2>1, <2>2, <2>3, StepType
<1> QED
  BY <1>1, <1>2, <1>3, <1>4, <1>5, <1>6, <1>7, <1>8, <1>9, <1>10 DEF SubNext

-----------------------------------------------------------------------------
(* The steps of a feed.                                                    *)
LEMMA RequestedPubsType ==
  ASSUME NEW rq \in Request, NEW P \in RequestedPubs(rq)
  PROVE  P \subseteq Pub
<1>1. rq.feed \in Feeds /\ rq.pubs \subseteq PubSpec
  BY DEF Request
<1>2. CASE rq.pubs # {}
  BY <1>1, <1>2, PubOfType DEF RequestedPubs
<1>3. CASE rq.pubs = {}
  <2>1. CentralChoices \subseteq Locs
    BY ConstantsAssumption DEF CentralChoices
  <2>2. PICK l \in CentralChoices : P = {PubOf([user |-> TmpUser, loc |-> l], rq.feed)}
    BY <1>3 DEF RequestedPubs
  <2>3. [user |-> TmpUser, loc |-> l] \in PubSpec
    BY <2>1, <2>2, ConstantsAssumption DEF PubSpec
  <2> QED
    BY <1>1, <2>2, <2>3, PubOfType
<1> QED
  BY <1>2, <1>3

LEMMA UsersOfType ==
  ASSUME NEW P \in SUBSET Pub
  PROVE  UsersOf(P) \subseteq Users
  BY DEF UsersOf, Pub

LEMMA SetOnServerType ==
  ASSUME DataOK, NEW f \in Feeds, NEW s \in States, NEW U \in SUBSET Users, NEW o,
         SetOnServer(f, s, U, o)
  PROVE  drFeeds' \in [Feeds -> States \cup {Absent}] /\ drUsers' \in [Feeds -> SUBSET Users]
<1>1. drFeeds \in [Feeds -> States \cup {Absent}] /\ drUsers \in [Feeds -> SUBSET Users]
  BY DEF DataOK
<1> QED
  BY <1>1 DEF SetOnServer

(* The record of a thread that is about to update its feed.                *)
LEMMA UpdateType ==
  ASSUME DataOK, NEW th \in Thread, NEW s \in States, NEW P \in SUBSET Pub
  PROVE  Update(th, s, P) \in Thread /\ Update(th, s, P).pc = "putFeed"
<1>1. SubsOf(th.feed) \in SUBSET Sub
  BY DEF SubsOf, DataOK
<1>2. UsersOf(P) \in SUBSET Users
  BY UsersOfType
<1> QED
  BY <1>1, <1>2, ZenonT(60) DEF Update, Thread, Codes

(* Whatever the request, GET of the feed is followed by its update, by a   *)
(* subscriber, or by an answer.                                            *)
LEMMA GetFeedType ==
  ASSUME DrTypeInv, NEW w \in Threads, GetFeed(w)
  PROVE  DrTypeInv'
<1> DEFINE th == t[w]
           f  == th.feed
<1>t. th \in Thread /\ th.rq \in Requests /\ th.rq \in Request /\ DrThreadOK(th)
  BY ConstantsAssumption DEF DrTypeInv, DrTypeOK, Thread
<1>d. DataOK
  BY SplitType
<1>f. th.feed \in Feeds
  BY <1>t DEF Thread
<1>c. {"notFound", "none", "ok", "bad", "fail"} \subseteq Codes
  BY DEF Codes
<1>u. UNCHANGED <<tables, server, statics, ctl>>
  BY DEF GetFeed
<1>p. PubsOf(f) \in SUBSET Pub
  BY <1>d DEF PubsOf, DataOK
<1>r. ASSUME NEW next \in Thread, next.pc \in {"putFeed", "subNew", "idle"}, Go(w, next)
      PROVE  DrTypeInv'
  BY <1>r, <1>u, PlainDr, QuietStepType
<1>1. CASE feeds[f] = Absent
  <2>1. PICK c \in Codes : Go(w, Reply(c))
    BY <1>1, <1>c DEF GetFeed, NoFeed
  <2> QED
    BY <2>1, <1>r, ReplyDrType
<1>2. CASE feeds[f] # Absent
  <2>s. feeds[f] \in States
    BY <1>2, <1>d, <1>f DEF DataOK
  <2>1. CASE th.rq.op = "putFeed"
    <3>1. Go(w, Update(th, th.rq.state, PubsOf(f)))
      BY <1>2, <2>1 DEF GetFeed
    <3>2. th.rq.state \in States
      BY <1>t DEF Request
    <3> QED
      BY <3>1, <3>2, <1>t, <1>d, <1>p, <1>r, UpdateType
  <2>2. CASE th.rq.op = "postPub"
    <3> DEFINE P == PubsOf(f) \cup {PubOf(TheOne(th.rq.pubs), f)}
    <3>1. Go(w, Update(th, feeds[f], P))
      BY <1>2, <2>2 DEF GetFeed
    <3>2. TheOne(th.rq.pubs) \in PubSpec
      <4>1. th.rq.pubs # {} /\ th.rq.pubs \subseteq PubSpec
        BY <1>t, <2>2, ConstantsAssumption DEF Request
      <4> QED
        BY <4>1 DEF TheOne
    <3>3. P \in SUBSET Pub
      BY <3>2, <1>f, <1>p, PubOfType
    <3> HIDE DEF P
    <3> QED
      BY <3>1, <3>3, <2>s, <1>t, <1>d, <1>r, UpdateType
  <2>3. CASE th.rq.op = "deletePub"
    <3> DEFINE P == {p \in PubsOf(f) : p.id # th.rq.id}
    <3>1. Go(w, Update(th, feeds[f], P)) \/ Go(w, Reply("bad")) \/ Go(w, Reply("fail"))
      BY <1>2, <2>3 DEF GetFeed, WithoutPub, ServerError
    <3>2. P \in SUBSET Pub
      BY <1>p
    <3> HIDE DEF P
    <3> QED
      BY <3>1, <3>2, <2>s, <1>t, <1>d, <1>c, <1>r, UpdateType, ReplyDrType
  <2>4. CASE th.rq.op = "postSub"
    <3> DEFINE row  == SubOf(TheOne(th.rq.subs), f)
               next == [th EXCEPT !.pc = "subNew", !.sub = row]
    <3>1. Go(w, next)
      BY <1>2, <2>4 DEF GetFeed
    <3>2. row \in Sub
      <4>1. th.rq.subs # {} /\ th.rq.subs \subseteq SubSpec
        BY <1>t, <2>4, ConstantsAssumption DEF Request
      <4>2. TheOne(th.rq.subs) \in SubSpec
        BY <4>1 DEF TheOne
      <4> QED
        BY <4>2, <1>f, SubOfType
    <3>3. next \in Thread /\ next.pc = "subNew"
      <4> HIDE DEF row
      <4> QED
        BY <1>t, <3>2, ZenonT(60) DEF Thread
    <3> HIDE DEF next
    <3> QED
      BY <3>1, <3>3, <1>r
  <2>5. CASE th.rq.op \notin {"putFeed", "postPub", "deletePub", "postSub"}
    <3> DEFINE next == [th EXCEPT !.pc = "updateSub"]
    <3>1. th.rq.op = "putSub"
      <4>1. th.pc = "getFeed"
        BY DEF GetFeed
      <4> QED
        BY <4>1, <1>t, <2>5 DEF DrThreadOK
    <3>2. Go(w, next)
      BY <1>2, <3>1 DEF GetFeed
    <3>3. next \in Thread /\ next.pc = "updateSub" /\ next.rq = th.rq
      BY <1>t, ZenonT(60) DEF Thread
    <3> HIDE DEF next
    <3>4. DrThreadOK(next)
      BY <3>1, <3>3 DEF DrThreadOK
    <3> QED
      BY <3>2, <3>3, <3>4, <1>u, QuietStepType
  <2> QED
    BY <2>1, <2>2, <2>3, <2>4, <2>5
<1> QED
  BY <1>1, <1>2

LEMMA FeedNextType ==
  ASSUME DrTypeInv, NEW w \in Threads, FeedNext(w)
  PROVE  DrTypeInv'
<1> DEFINE th == t[w]
<1>t. th \in Thread /\ th.rq \in Request /\ DrThreadOK(th)
  BY ConstantsAssumption DEF DrTypeInv, DrTypeOK, Thread
<1>d. DataOK
  BY SplitType
<1>f. /\ th.feed \in Feeds /\ th.state \in States /\ th.users \in SUBSET Users
      /\ th.rq.feed \in Feeds /\ th.rq.state \in States /\ th.rq.subs \subseteq SubSpec
  BY <1>t DEF Thread, Request
<1>c. {"fail", "bad"} \subseteq Codes
  BY DEF Codes
<1>1. CASE PostFeed(w)
  <2> DEFINE S       == {SubOf(s, th.rq.feed) : s \in th.rq.subs}
             next(P) == [th EXCEPT !.pc = "newPubService", !.pubs = P, !.subs = S, !.state = th.rq.state]
  <2>1. S \in SUBSET Sub
    BY <1>f, SubOfType
  <2>2. \A P \in SUBSET Pub : next(P) \in Thread /\ next(P).pc = "newPubService"
    <3> HIDE DEF S
    <3> QED
      BY <1>t, <1>f, <2>1, ZenonT(60) DEF Thread
  <2>3. PICK n \in {Reply("bad"), Reply("fail")} \cup {next(P) : P \in RequestedPubs(th.rq)} : Go(w, n)
    BY <1>1 DEF PostFeed
  <2>4. n \in Thread /\ DrThreadOK(n)
    <3> HIDE DEF next
    <3>1. CASE n \in {next(P) : P \in RequestedPubs(th.rq)}
      BY <3>1, <2>2, <1>t, RequestedPubsType, PlainDr
    <3> QED
      BY <3>1, <2>3, <1>c, ReplyDrType
  <2>5. drFeeds' \in [Feeds -> States \cup {Absent}] /\ drUsers' \in [Feeds -> SUBSET Users]
    <3>1. \/ UNCHANGED <<drFeeds, drUsers>>
          \/ \E P \in RequestedPubs(th.rq), o \in Outcomes :
               SetOnServer(th.rq.feed, th.rq.state, UsersOf(P), o)
      BY <1>1 DEF PostFeed
    <3>2. CASE UNCHANGED <<drFeeds, drUsers>>
      BY <3>2, <1>d DEF DataOK
    <3>3. ASSUME NEW P \in RequestedPubs(th.rq), NEW o \in Outcomes,
                 SetOnServer(th.rq.feed, th.rq.state, UsersOf(P), o)
          PROVE  drFeeds' \in [Feeds -> States \cup {Absent}] /\ drUsers' \in [Feeds -> SUBSET Users]
      <4>1. UsersOf(P) \in SUBSET Users
        BY <1>t, RequestedPubsType, UsersOfType
      <4> QED
        BY <3>3, <4>1, <1>d, <1>f, SetOnServerType
    <3> QED
      BY <3>1, <3>2, <3>3
  <2>6. UNCHANGED <<tables, drSubs, ingress, egress, drNodes, drStatic, statics, ctl>>
    BY <1>1 DEF PostFeed
  <2>7. DataOK'
    BY <2>5, <2>6, <1>d DEF DataOK, tables, statics, ctl
  <2> HIDE DEF next
  <2> QED
    BY <2>3, <2>4, <2>7, StepType
<1>2. CASE GetFeed(w)
  BY <1>2, GetFeedType
<1>3. CASE PutFeed(w)
  <2> DEFINE next == [th EXCEPT !.pc = "newPubService"]
  <2>1. next \in Thread /\ next.pc = "newPubService"
    BY <1>t, ZenonT(60) DEF Thread
  <2>2. PICK n \in {Fails(th, "fail"), next} : Go(w, n)
    BY <1>3 DEF PutFeed
  <2>3. n \in Thread /\ DrThreadOK(n)
    <3>1. DrThreadOK(next)
      BY <2>1, PlainDr
    <3> HIDE DEF th, next
    <3> QED
      BY <3>1, <2>1, <2>2, <1>t, <1>c, FailsDrType
  <2>4. drFeeds' \in [Feeds -> States \cup {Absent}] /\ drUsers' \in [Feeds -> SUBSET Users]
    <3>1. \/ UNCHANGED <<drFeeds, drUsers>>
          \/ \E o \in Outcomes : SetOnServer(th.feed, th.state, th.users, o)
      BY <1>3 DEF PutFeed
    <3>2. CASE UNCHANGED <<drFeeds, drUsers>>
      BY <3>2, <1>d DEF DataOK
    <3> QED
      BY <3>1, <3>2, <1>d, <1>f, SetOnServerType
  <2>5. UNCHANGED <<tables, drSubs, ingress, egress, drNodes, drStatic, statics, ctl>>
    BY <1>3 DEF PutFeed
  <2>6. DataOK'
    BY <2>4, <2>5, <1>d DEF DataOK, tables, statics, ctl
  <2> HIDE DEF next
  <2> QED
    BY <2>2, <2>3, <2>6, StepType
<1>4. CASE StoreFeed(w)
  <2> DEFINE next == [th EXCEPT !.pc = "removePub"]
  <2>1. next \in Thread /\ next.pc = "removePub"
    BY <1>t, ZenonT(60) DEF Thread
  <2>2. PICK n \in {Success, next} : Go(w, n)
    BY <1>4 DEF StoreFeed
  <2>3. n \in Thread /\ DrThreadOK(n)
    <3>1. DrThreadOK(next)
      BY <2>1, PlainDr
    <3> HIDE DEF next
    <3> QED
      BY <3>1, <2>1, <2>2, ReplyDrType DEF Success
  <2>4. feeds' \in [Feeds -> States \cup {Absent}]
    <3>1. feeds' = [feeds EXCEPT ![th.feed] = th.state]
      BY <1>4 DEF StoreFeed
    <3> QED
      BY <3>1, <1>d, <1>f DEF DataOK
  <2>5. DataOK'
    BY <1>4, <1>d, <2>4 DEF StoreFeed, DataOK, server, statics, ctl
  <2> QED
    BY <2>2, <2>3, <2>5, StepType
<1>5. CASE DeleteFeed(w)
  <2>1. feeds' \in [Feeds -> States \cup {Absent}]
    BY <1>5, <1>d DEF DeleteFeed, DataOK
  <2>2. DataOK'
    BY <1>5, <1>d, <2>1 DEF DeleteFeed, DataOK, server, statics, ctl
  <2>3. Success \in Thread /\ DrThreadOK(Success) /\ Go(w, Success)
    BY <1>5, ReplyDrType DEF Success, DeleteFeed
  <2> QED
    BY <2>2, <2>3, StepType
<1>6. CASE GetFeeds(w)
  <2>1. Success \in Thread /\ DrThreadOK(Success) /\ Go(w, Success)
    BY <1>6, ReplyDrType DEF Success, GetFeeds
  <2>2. UNCHANGED <<tables, server, statics, ctl>>
    BY <1>6 DEF GetFeeds
  <2> QED
    BY <2>1, <2>2, QuietStepType
<1> QED
  BY <1>1, <1>2, <1>3, <1>4, <1>5, <1>6 DEF FeedNext

-----------------------------------------------------------------------------
(* The whole service.                                                      *)
LEMMA StartType ==
  ASSUME DrTypeInv, NEW w \in Threads, Start(w)
  PROVE  DrTypeInv'
<1>d. DataOK
  BY SplitType
<1> DEFINE next(r) == [Idle EXCEPT !.pc = FirstStep(r.op), !.rq = r, !.feed = r.feed]
<1>1. PICK r \in Requests :
        /\ Go(w, next(r))
        /\ pubProv' = IF MakesPubService(r.op) THEN NewPubConn ELSE pubProv
  BY DEF Start
<1>2. r.feed \in Feeds /\ r.op \in Ops
  BY ConstantsAssumption DEF Request
<1> DEFINE p == FirstStep(r.op)
<1>3. /\ p \in {"postFeed", "getFeed", "deleteFeed", "getFeeds", "writePub", "findPub",
                "removeSub", "nodeGet"}
      /\ p = "postFeed" => r.op = "postFeed"
      /\ p = "getFeed" => r.op \in {"putFeed", "postPub", "deletePub", "postSub", "putSub"}
      /\ p = "writePub" => r.op = "putPub"
      /\ p = "findPub" => r.op = "deletePub"
  BY <1>2 DEF FirstStep, Ops
<1> HIDE DEF p
<1>4. /\ next(r) \in Thread
      /\ next(r).pc = p /\ next(r).rq = r /\ next(r).feed = r.feed
  <2>1. next(r) = [Idle EXCEPT !.pc = p, !.rq = r, !.feed = r.feed]
    BY DEF p
  <2> HIDE DEF next
  <2>2. p \in {"idle", "postFeed", "getFeed", "putFeed", "newPubService", "savePub",
           "ingressMake", "ingressPost", "putPub", "saveSub", "subNew", "subMake",
           "subPost", "egressNodes", "egressMake", "egressPost", "putSub",
           "storeFeed", "deleteFeed", "getFeeds", "writePub", "findPub",
           "removePub", "updateSub", "removeSub", "nodeGet", "nodesGet",
           "nodesPut", "nodeLocation", "staticGet", "staticPut", "nodeStore"}
    BY <1>3
  <2> QED
    BY <1>2, <2>1, <2>2, IdleDrType, ZenonT(60) DEF Thread
<1> HIDE DEF next
<1>5. DrThreadOK(next(r))
  BY <1>3, <1>4 DEF DrThreadOK
<1>6. pubProv' \in PubConn
  BY <1>1, <1>d, ConnType DEF DataOK
<1>7. served' \in 0..MaxRequests
  <2>1. served < MaxRequests /\ served' = served + 1
    BY DEF Start
  <2> QED
    BY <2>1, <1>d, ConstantsAssumption DEF DataOK
<1>8. DataOK'
  <2>1. UNCHANGED <<tables, server, subProv, nextPub, nextSub, exits>>
    BY DEF Start
  <2> QED
    BY <2>1, <1>d, <1>6, <1>7 DEF DataOK, tables, server
<1> QED
  BY <1>1, <1>4, <1>5, <1>8, StepType

LEMMA ExitType ==
  ASSUME DrTypeInv, ExitProcess
  PROVE  DrTypeInv'
<1>d. DataOK
  BY SplitType
<1>1. t' \in [Threads -> Thread] /\ \A w \in Threads : DrThreadOK(t'[w])
  BY IdleDrType DEF ExitProcess
<1>2. exits' \in 0..MaxExits
  <2>1. exits < MaxExits /\ exits' = exits + 1
    BY DEF ExitProcess
  <2> QED
    BY <2>1, <1>d, ConstantsAssumption DEF DataOK
<1>3. DataOK'
  <2>1. /\ pubProv' = NewPubConn /\ subProv' = NewSubConn
        /\ UNCHANGED <<tables, server, nextPub, nextSub, served>>
    BY DEF ExitProcess
  <2> QED
    BY <2>1, <1>d, <1>2, ConnType DEF DataOK, tables, server
<1> QED
  BY <1>1, <1>3 DEF DrTypeInv, DrTypeOK, DataOK

LEMMA DrInitType ==
  ASSUME Init
  PROVE  DrTypeInv
<1>1. t \in [Threads -> Thread] /\ \A w \in Threads : DrThreadOK(t[w])
  BY IdleDrType DEF Init
<1>2. DataOK
  BY ConstantsAssumption, ConnType DEF Init, DataOK
<1> QED
  BY <1>1, <1>2, SplitType

LEMMA DrNextType ==
  ASSUME DrTypeInv, [Next]_vars
  PROVE  DrTypeInv'
<1>1. CASE UNCHANGED vars
  BY <1>1 DEF vars, tables, server, statics, ctl, DrTypeInv, DrTypeOK, DrThreadOK
<1>2. ASSUME NEW w \in Threads, Start(w)
      PROVE  DrTypeInv'
  BY <1>2, StartType
<1>3. ASSUME NEW w \in Threads, Serve(w)
      PROVE  DrTypeInv'
  BY <1>3, FeedNextType, PubNextType, SubNextType, NodeNextType DEF Serve
<1>4. CASE ExitProcess
  BY <1>4, ExitType
<1>5. CASE Finished
  BY <1>1, <1>5 DEF Finished
<1> QED
  BY <1>1, <1>2, <1>3, <1>4, <1>5 DEF Next

(* Every state of every table, of the server, of the connections and of    *)
(* every thread has its type, with any number of threads, feeds,           *)
(* publishers, subscribers and nodes and any mix of requests and failures. *)
THEOREM DrTypeCorrect == Spec => []DrTypeOK
<1>1. Init => DrTypeInv
  BY DrInitType
<1>2. DrTypeInv /\ [Next]_vars => DrTypeInv'
  BY DrNextType
<1>3. DrTypeInv => DrTypeOK
  BY DEF DrTypeInv
<1> QED
  BY <1>1, <1>2, <1>3, PTL DEF Spec

-----------------------------------------------------------------------------
(* What each step does to the record of its thread.                        *)
SameFeed(th, u) ==
  u.rq = th.rq /\ u.feed = th.feed /\ u.state = th.state /\ u.users = th.users
SameToSave(th, u) == u.pubs = th.pubs /\ u.subs = th.subs
SamePub(th, u)  == u.pub = th.pub /\ u.at = th.at
OnlyPc(th, u)   == SameFeed(th, u) /\ SameToSave(th, u) /\ SamePub(th, u)

LEMMA NewRecord ==
  ASSUME DrTypeInv, NEW w \in Threads, NEW next, Go(w, next)
  PROVE  t'[w] = next
  BY DEF DrTypeInv, DrTypeOK, Go

LEMMA Ended ==
  /\ \A code : Reply(code).pc = "idle"
  /\ Success.pc = "idle" /\ ServerError.pc = "idle"
  /\ \A th, code : Fails(th, code).pc = "idle"
<1>1. \A code : Reply(code).pc = "idle"
  BY DEF Reply, Idle
<1> QED
  BY <1>1 DEF Success, ServerError, Fails

LEMMA MovesOn ==
  ASSUME NEW th \in Thread
  PROVE  \A q : [th EXCEPT !.pc = q].pc = q /\ OnlyPc(th, [th EXCEPT !.pc = q])
  BY DEF Thread, OnlyPc, SameFeed, SameToSave, SamePub

(* The steps that only move on to the next one, or answer.                 *)
LEMMA PlainStep ==
  ASSUME DrTypeInv, NEW w \in Threads, NEW q, Go(w, [t[w] EXCEPT !.pc = q])
  PROVE  t'[w].pc = q /\ OnlyPc(t[w], t'[w])
<1>1. t[w] \in Thread
  BY DEF DrTypeInv, DrTypeOK
<1>2. t'[w] = [t[w] EXCEPT !.pc = q]
  BY NewRecord
<1> QED
  BY <1>1, <1>2, MovesOn

LEMMA EndStep ==
  ASSUME DrTypeInv, NEW w \in Threads, NEW code, NEW th,
         Go(w, Reply(code)) \/ Go(w, Success) \/ Go(w, ServerError) \/ Go(w, Fails(th, code))
  PROVE  t'[w].pc = "idle"
  BY NewRecord, Ended

LEMMA StartDr ==
  ASSUME DrTypeInv, NEW w \in Threads, Start(w)
  PROVE  /\ t[w].pc = "idle" /\ t'[w].rq \in Requests /\ t'[w].pc = FirstStep(t'[w].rq.op)
         /\ t'[w].feed = t'[w].rq.feed
         /\ UNCHANGED <<tables, server, nextPub>>
<1> DEFINE next(r) == [Idle EXCEPT !.pc = FirstStep(r.op), !.rq = r, !.feed = r.feed]
<1>1. PICK r \in Requests : Go(w, next(r))
  BY DEF Start
<1>2. next(r).rq = r /\ next(r).pc = FirstStep(r.op) /\ next(r).feed = r.feed
  BY DEF Idle
<1>3. t'[w] = next(r)
  BY <1>1, NewRecord
<1> HIDE DEF next
<1> QED
  BY <1>2, <1>3 DEF Start

LEMMA SavePubStep ==
  ASSUME DrTypeInv, NEW w \in Threads, SavePub(w)
  PROVE  LET th == t[w]
             u  == t'[w]
             new(p) == [p EXCEPT !.id = nextPub, !.feed = th.feed, !.status = "VALID"]
         IN
         /\ th.pc = "savePub" /\ SameFeed(th, u) /\ u.subs = th.subs
         /\ UNCHANGED <<tables, server>>
         /\ \/ u.pc = "saveSub" /\ th.pubs = {} /\ u.pubs = {} /\ nextPub' = nextPub
            \/ \E p \in th.pubs :
                 /\ u.pubs = th.pubs \ {p}
                 /\ \/ u.pc = "savePub" /\ Has(pubs, p.id) /\ nextPub' = nextPub
                    \/ /\ ~Has(pubs, p.id) /\ nextPub' = nextPub + 1
                       /\ u.pub = new(p) /\ u.at = NodesAt(p.loc)
                       /\ u.pc = IF u.at = {} THEN "putPub" ELSE "ingressMake"
<1> DEFINE th == t[w]
           u  == t'[w]
           new(p) == [p EXCEPT !.id = nextPub, !.feed = th.feed, !.status = "VALID"]
           skip(p) == [th EXCEPT !.pubs = @ \ {p}]
           save(p, q) == [th EXCEPT !.pubs = @ \ {p}, !.at = NodesAt(p.loc),
                            !.pub = new(p), !.pc = q]
<1>0. th \in Thread /\ th.pc = "savePub" /\ UNCHANGED <<tables, server>>
  BY DEF DrTypeInv, DrTypeOK, SavePub
<1>1. \A p : /\ skip(p).pc = th.pc /\ skip(p).pubs = th.pubs \ {p} /\ SameFeed(th, skip(p))
             /\ skip(p).subs = th.subs
  BY <1>0 DEF Thread, SameFeed
<1> HIDE DEF new
<1>2. \A p, q : /\ save(p, q).pc = q /\ save(p, q).pubs = th.pubs \ {p}
                /\ save(p, q).subs = th.subs /\ SameFeed(th, save(p, q))
                /\ save(p, q).pub = new(p) /\ save(p, q).at = NodesAt(p.loc)
  BY <1>0 DEF Thread, SameFeed
<1>3. \/ th.pubs = {} /\ Go(w, [th EXCEPT !.pc = "saveSub"]) /\ nextPub' = nextPub
      \/ \E p \in th.pubs :
           \/ Has(pubs, p.id) /\ Go(w, skip(p)) /\ nextPub' = nextPub
           \/ /\ ~Has(pubs, p.id) /\ nextPub' = nextPub + 1
              /\ Go(w, save(p, IF NodesAt(p.loc) = {} THEN "putPub" ELSE "ingressMake"))
  BY DEF SavePub, new
<1>4. CASE th.pubs = {} /\ Go(w, [th EXCEPT !.pc = "saveSub"]) /\ nextPub' = nextPub
  BY <1>0, <1>4, PlainStep DEF OnlyPc, SameToSave
<1>5. ASSUME NEW p \in th.pubs, Has(pubs, p.id), Go(w, skip(p)), nextPub' = nextPub
      PROVE  /\ SameFeed(th, u) /\ u.subs = th.subs
             /\ u.pubs = th.pubs \ {p} /\ u.pc = "savePub"
  BY <1>0, <1>1, <1>5, NewRecord
<1>6. ASSUME NEW p \in th.pubs, NEW q, Go(w, save(p, q))
      PROVE  /\ SameFeed(th, u) /\ u.subs = th.subs /\ u.pubs = th.pubs \ {p}
             /\ u.pub = new(p) /\ u.at = NodesAt(p.loc) /\ u.pc = q
  <2>1. u = save(p, q)
    BY <1>6, NewRecord
  <2> HIDE DEF save, u
  <2> QED
    BY <1>2, <2>1
<1>7. CASE \E p \in th.pubs : Has(pubs, p.id) /\ Go(w, skip(p)) /\ nextPub' = nextPub
  BY <1>0, <1>5, <1>7
<1>8. CASE \E p \in th.pubs :
             /\ ~Has(pubs, p.id) /\ nextPub' = nextPub + 1
             /\ Go(w, save(p, IF NodesAt(p.loc) = {} THEN "putPub" ELSE "ingressMake"))
  <2> HIDE DEF save, u, th
  <2> QED
    BY <1>0, <1>6, <1>8 DEF u, th, new
<1> QED
  BY <1>3, <1>4, <1>7, <1>8

LEMMA MakeIngressStep ==
  ASSUME DrTypeInv, NEW w \in Threads, MakeIngress(w)
  PROVE  LET th == t[w]
             u  == t'[w]
         IN
         /\ th.pc = "ingressMake" /\ u.pc = "ingressPost" /\ OnlyPc(th, u)
         /\ pubProv' = [feed |-> th.pub.feed, user |-> th.pub.user, at |-> th.at, ready |-> TRUE]
         /\ UNCHANGED <<tables, server, nextPub>>
<1>1. /\ t[w].pc = "ingressMake" /\ Go(w, [t[w] EXCEPT !.pc = "ingressPost"])
      /\ UNCHANGED <<tables, server, nextPub>>
  BY DEF MakeIngress, ctl
<1>2. t'[w].pc = "ingressPost" /\ OnlyPc(t[w], t'[w])
  BY <1>1, PlainStep
<1> QED
  BY <1>1, <1>2 DEF MakeIngress

LEMMA PostIngressStep ==
  ASSUME DrTypeInv, NEW w \in Threads, PostIngress(w)
  PROVE  LET th == t[w]
             u  == t'[w]
         IN
         /\ th.pc = "ingressPost" /\ u.pc = "putPub" /\ SameFeed(th, u) /\ SameToSave(th, u)
         /\ u.at = th.at /\ u.pub.id = th.pub.id /\ u.pub.feed = th.pub.feed
         /\ u.pub.user = th.pub.user
         /\ UNCHANGED <<tables, drFeeds, drUsers, drSubs, drNodes, drStatic, nextPub>>
         /\ \/ ~pubProv.ready
            \/ \E o \in Outcomes :
                 /\ ingress' = IF o.effect THEN ingress \cup {<<pubProv.feed, pubProv.user, pubProv.at>>}
                               ELSE ingress
                 /\ o.answer = "fail" => u.pub.status = "INVALID"
<1> DEFINE th == t[w]
           u  == t'[w]
           put(st) == [th EXCEPT !.pc = "putPub", !.pub.status = st]
<1>0. /\ th \in Thread /\ th.pub \in Pub /\ th.pc = "ingressPost"
      /\ UNCHANGED <<tables, drFeeds, drUsers, drSubs, drNodes, drStatic, nextPub>>
  BY DEF DrTypeInv, DrTypeOK, PostIngress, ctl, Thread
<1>1. \A st : /\ put(st).pc = "putPub" /\ SameFeed(th, put(st)) /\ SameToSave(th, put(st))
              /\ put(st).at = th.at /\ put(st).pub = [th.pub EXCEPT !.status = st]
  BY <1>0 DEF Thread, SameFeed, SameToSave
<1>2. \A st : LET p == [th.pub EXCEPT !.status = st]
              IN p.id = th.pub.id /\ p.feed = th.pub.feed /\ p.user = th.pub.user /\ p.status = st
  BY <1>0 DEF Pub
<1>3. \/ ~pubProv.ready /\ \E st : Go(w, put(st))
      \/ \E o \in Outcomes :
           /\ ingress' = IF o.effect THEN ingress \cup {<<pubProv.feed, pubProv.user, pubProv.at>>}
                         ELSE ingress
           /\ Go(w, put(IF o.answer = "fail" THEN "INVALID" ELSE th.pub.status))
  BY DEF PostIngress
<1>4. ASSUME NEW st, Go(w, put(st))
      PROVE  /\ u.pc = "putPub" /\ SameFeed(th, u) /\ SameToSave(th, u) /\ u.at = th.at
             /\ u.pub.id = th.pub.id /\ u.pub.feed = th.pub.feed /\ u.pub.user = th.pub.user
             /\ u.pub.status = st
  <2> DEFINE p == [th.pub EXCEPT !.status = st]
             v == put(st)
  <2>1. u = v
    BY <1>4, NewRecord
  <2>2. /\ v.pc = "putPub" /\ SameFeed(th, v) /\ SameToSave(th, v) /\ v.at = th.at /\ v.pub = p
    BY <1>1
  <2>3. p.id = th.pub.id /\ p.feed = th.pub.feed /\ p.user = th.pub.user /\ p.status = st
    BY <1>2
  <2> HIDE DEF p, v, u, th
  <2> QED
    BY <2>1, <2>2, <2>3
<1> HIDE DEF put, u, th
<1>5. CASE ~pubProv.ready /\ \E st : Go(w, put(st))
  BY <1>0, <1>4, <1>5 DEF u, th
<1>6. CASE \E o \in Outcomes :
             /\ ingress' = IF o.effect THEN ingress \cup {<<pubProv.feed, pubProv.user, pubProv.at>>}
                           ELSE ingress
             /\ Go(w, put(IF o.answer = "fail" THEN "INVALID" ELSE th.pub.status))
  <2>1. PICK o \in Outcomes :
             /\ ingress' = IF o.effect THEN ingress \cup {<<pubProv.feed, pubProv.user, pubProv.at>>}
                           ELSE ingress
             /\ Go(w, put(IF o.answer = "fail" THEN "INVALID" ELSE th.pub.status))
    BY <1>6
  <2>2. o.answer = "fail" => u.pub.status = "INVALID"
    BY <1>4, <2>1
  <2>3. /\ u.pc = "putPub" /\ SameFeed(th, u) /\ SameToSave(th, u) /\ u.at = th.at
        /\ u.pub.id = th.pub.id /\ u.pub.feed = th.pub.feed /\ u.pub.user = th.pub.user
    BY <1>4, <2>1
  <2> QED
    BY <1>0, <2>1, <2>2, <2>3 DEF u, th
<1> QED
  BY <1>3, <1>5, <1>6

LEMMA PutPubStep ==
  ASSUME DrTypeInv, NEW w \in Threads, PutPub(w)
  PROVE  /\ t[w].pc = "putPub" /\ t'[w].pc = "savePub" /\ OnlyPc(t[w], t'[w])
         /\ pubs' = Put(pubs, t[w].pub)
         /\ UNCHANGED <<feeds, subs, nodes, server, nextPub>>
<1>1. t[w].pc = "putPub" /\ Go(w, [t[w] EXCEPT !.pc = "savePub"])
  BY DEF PutPub
<1>2. t'[w].pc = "savePub" /\ OnlyPc(t[w], t'[w])
  BY <1>1, PlainStep
<1> QED
  BY <1>1, <1>2 DEF PutPub, ctl

LEMMA NewPubServiceStep ==
  ASSUME DrTypeInv, NEW w \in Threads, NewPubService(w)
  PROVE  /\ t[w].pc = "newPubService" /\ t'[w].pc = "savePub" /\ OnlyPc(t[w], t'[w])
         /\ UNCHANGED <<tables, server, nextPub>>
<1>1. t[w].pc = "newPubService" /\ Go(w, [t[w] EXCEPT !.pc = "savePub"])
  BY DEF NewPubService
<1>2. t'[w].pc = "savePub" /\ OnlyPc(t[w], t'[w])
  BY <1>1, PlainStep
<1> QED
  BY <1>1, <1>2 DEF NewPubService, ctl

LEMMA FindPubStep ==
  ASSUME DrTypeInv, NEW w \in Threads, FindPub(w)
  PROVE  LET th == t[w]
             u  == t'[w]
         IN
         /\ th.pc = "findPub" /\ UNCHANGED <<tables, server, nextPub>>
         /\ \/ u.pc = "idle"
            \/ /\ u.pc = "getFeed" /\ u.rq = th.rq
               /\ \E p \in pubs : p.id = th.rq.id /\ u.feed = p.feed
<1> DEFINE th == t[w]
           u  == t'[w]
           go(p) == [th EXCEPT !.pub = p, !.feed = p.feed, !.err = "ok", !.pc = "getFeed"]
<1>0. th \in Thread /\ th.pc = "findPub" /\ UNCHANGED <<tables, server, nextPub>>
  BY DEF DrTypeInv, DrTypeOK, FindPub, ctl
<1>1. \A p : go(p).pc = "getFeed" /\ go(p).rq = th.rq /\ go(p).feed = p.feed
  BY <1>0 DEF Thread
<1>2. Go(w, Reply("notFound")) \/ \E p \in pubs : p.id = th.rq.id /\ Go(w, go(p))
  BY DEF FindPub
<1>3. CASE Go(w, Reply("notFound"))
  BY <1>0, <1>3, EndStep
<1>4. CASE \E p \in pubs : p.id = th.rq.id /\ Go(w, go(p))
  <2>1. PICK p \in pubs : p.id = th.rq.id /\ Go(w, go(p))
    BY <1>4
  <2>2. u = go(p)
    BY <2>1, NewRecord
  <2> HIDE DEF go, u, th
  <2> QED
    BY <1>0, <1>1, <2>1, <2>2 DEF u, th
<1> QED
  BY <1>2, <1>3, <1>4

LEMMA WritePubStep ==
  ASSUME DrTypeInv, NEW w \in Threads, WritePub(w)
  PROVE  /\ t[w].pc = "writePub" /\ t[w].rq.op = "putPub" /\ t'[w].pc = "idle"
         /\ UNCHANGED <<feeds, subs, nodes, server, nextPub>>
<1>1. t[w].pc = "writePub" /\ Go(w, Success)
  BY DEF WritePub
<1>2. t'[w].pc = "idle"
  BY <1>1, EndStep
<1> QED
  BY <1>1, <1>2 DEF WritePub, ctl, DrTypeInv, DrThreadOK

LEMMA RemovePubStep ==
  ASSUME DrTypeInv, NEW w \in Threads, RemovePub(w)
  PROVE  /\ t[w].pc = "removePub" /\ t'[w].pc = "idle"
         /\ pubs' = {p \in pubs : p.id # t[w].rq.id}
         /\ UNCHANGED <<feeds, subs, nodes, server, nextPub>>
<1>1. t[w].pc = "removePub" /\ (Go(w, Success) \/ Go(w, Reply("notFound")))
  BY DEF RemovePub
<1>2. t'[w].pc = "idle"
  BY <1>1, EndStep
<1> QED
  BY <1>1, <1>2 DEF RemovePub, ctl

(* The steps of a subscriber touch neither feeds nor publishers.           *)
LEMMA SubFrame ==
  ASSUME NEW w \in Threads, SubNext(w)
  PROVE  UNCHANGED <<feeds, pubs, nodes, drFeeds, drUsers, ingress, drNodes, drStatic, pubProv,
                     nextPub>>
  BY DEF SubNext, SaveSub, NewSubProv, MakeSubscribe, PostSubscribe, EgressNodes, MakeEgress,
         PostEgress, PutSub, UpdateSub, RemoveSub, tables, server, statics, ctl

LEMMA SubSteps ==
  ASSUME DrTypeInv, NEW w \in Threads, SubNext(w)
  PROVE  LET th == t[w]
             u  == t'[w]
             mid == {"subMake", "subPost", "egressNodes", "egressMake", "egressPost"}
         IN
         \/ u.pc = "idle" /\ th.pc \in {"removeSub", "updateSub"}
         \/ u.pc = "idle" /\ th.pc \in {"subNew"} \cup mid /\ subs' = subs
         \/ u.pc = "idle" /\ th.pc = "putSub" /\ th.rq.op \in {"postSub", "putSub"}
         \/ /\ SameFeed(th, u) /\ u.pubs = th.pubs
            /\ \/ /\ th.pc = "saveSub" /\ th.subs = {} /\ u.pc = "storeFeed" /\ u.subs = {}
                  /\ subs' = subs
               \/ /\ th.pc = "saveSub" /\ subs' = subs
                  /\ \E s \in th.subs : /\ u.subs = th.subs \ {s}
                                        /\ u.pc = IF Has(subs, s.id) THEN "saveSub" ELSE "subNew"
               \/ th.pc \in {"subNew"} \cup mid /\ u.pc \in {"putSub"} \cup mid
               \/ th.pc = "putSub" /\ th.rq.op \notin {"postSub", "putSub"} /\ u.pc = "saveSub"
               \/ th.pc = "updateSub" /\ u.pc = "putSub"
<1> DEFINE th == t[w]
           u  == t'[w]
           mid == {"subMake", "subPost", "egressNodes", "egressMake", "egressPost"}
           Moves == SameFeed(th, u) /\ u.pubs = th.pubs
<1>0. th \in Thread
  BY DEF DrTypeInv, DrTypeOK
<1>p. ASSUME NEW q, Go(w, [th EXCEPT !.pc = q])
      PROVE  u.pc = q /\ Moves /\ u.subs = th.subs
  BY <1>p, PlainStep DEF OnlyPc, SameToSave
<1>e. ASSUME NEW code, Go(w, Reply(code)) \/ Go(w, Fails(th, code)) \/ Go(w, Success)
      PROVE  u.pc = "idle"
  BY <1>e, EndStep
<1>1. CASE SaveSub(w)
  <2> DEFINE skip(s) == [th EXCEPT !.subs = @ \ {s}]
             save(s) == [th EXCEPT !.subs = @ \ {s}, !.sub = s, !.pc = "subNew"]
  <2>0. th.pc = "saveSub" /\ subs' = subs
    BY <1>1 DEF SaveSub, tables
  <2>1. \A s : /\ skip(s).pc = "saveSub" /\ skip(s).subs = th.subs \ {s} /\ SameFeed(th, skip(s))
               /\ skip(s).pubs = th.pubs
    BY <1>0, <2>0 DEF Thread, SameFeed
  <2>2. \A s : /\ save(s).pc = "subNew" /\ save(s).subs = th.subs \ {s} /\ SameFeed(th, save(s))
               /\ save(s).pubs = th.pubs
    BY <1>0 DEF Thread, SameFeed
  <2>3. \/ th.subs = {} /\ Go(w, [th EXCEPT !.pc = "storeFeed"])
        \/ \E s \in th.subs : Has(subs, s.id) /\ Go(w, skip(s))
        \/ \E s \in th.subs : ~Has(subs, s.id) /\ Go(w, save(s))
    BY <1>1 DEF SaveSub
  <2>4. CASE th.subs = {} /\ Go(w, [th EXCEPT !.pc = "storeFeed"])
    BY <1>p, <2>0, <2>4
  <2>5. CASE \E s \in th.subs : Has(subs, s.id) /\ Go(w, skip(s))
    <3>1. PICK s \in th.subs : Has(subs, s.id) /\ Go(w, skip(s))
      BY <2>5
    <3>2. u = skip(s)
      BY <3>1, NewRecord
    <3> HIDE DEF skip, u, th
    <3> QED
      BY <2>0, <2>1, <3>1, <3>2 DEF u, th
  <2>6. CASE \E s \in th.subs : ~Has(subs, s.id) /\ Go(w, save(s))
    <3>1. PICK s \in th.subs : ~Has(subs, s.id) /\ Go(w, save(s))
      BY <2>6
    <3>2. u = save(s)
      BY <3>1, NewRecord
    <3> HIDE DEF save, u, th
    <3> QED
      BY <2>0, <2>2, <3>1, <3>2 DEF u, th
  <2> QED
    BY <2>3, <2>4, <2>5, <2>6
<1>2. CASE NewSubProv(w) \/ MakeSubscribe(w) \/ MakeEgress(w) \/ PostEgress(w)
  <2>1. /\ th.pc \in {"subNew"} \cup mid
        /\ \E q \in {"putSub"} \cup mid : Go(w, [th EXCEPT !.pc = q])
    BY <1>2 DEF NewSubProv, MakeSubscribe, MakeEgress, PostEgress
  <2> QED
    BY <1>p, <2>1
<1>3. CASE PostSubscribe(w)
  <2> DEFINE snew == [th.sub EXCEPT !.id = nextSub, !.feed = subProv.feed]
             v == [th EXCEPT !.sub = snew, !.pc = "egressNodes"]
  <2>1. th.pc = "subPost" /\ subs' = subs /\ (Go(w, Fails(th, "bad")) \/ Go(w, v))
    BY <1>3 DEF PostSubscribe, tables
  <2>2. CASE Go(w, Fails(th, "bad"))
    BY <1>e, <2>1, <2>2
  <2>3. CASE Go(w, v)
    <3>1. u = v
      BY <2>3, NewRecord
    <3> HIDE DEF snew
    <3>2. v.pc = "egressNodes" /\ SameFeed(th, v) /\ v.pubs = th.pubs
      BY <1>0 DEF Thread, SameFeed
    <3> HIDE DEF v, u, th
    <3> QED
      BY <2>1, <3>1, <3>2 DEF u, th
  <2> QED
    BY <2>1, <2>2, <2>3
<1>4. CASE EgressNodes(w)
  <2> DEFINE v(n) == [th EXCEPT !.at = {n}, !.pc = "egressMake"]
  <2>1. th.pc = "egressNodes" /\ (Go(w, [th EXCEPT !.pc = "putSub"]) \/ \E n : Go(w, v(n)))
    BY <1>4 DEF EgressNodes
  <2>2. CASE Go(w, [th EXCEPT !.pc = "putSub"])
    BY <1>p, <2>1, <2>2
  <2>3. CASE \E n : Go(w, v(n))
    <3>1. \E n : u = v(n)
      BY <2>3, NewRecord
    <3>2. \A n : v(n).pc = "egressMake" /\ SameFeed(th, v(n)) /\ v(n).pubs = th.pubs
      BY <1>0 DEF Thread, SameFeed
    <3> HIDE DEF v, u, th
    <3> QED
      BY <2>1, <3>1, <3>2 DEF u, th
  <2> QED
    BY <2>1, <2>2, <2>3
<1>5. CASE PutSub(w)
  <2> DEFINE v == [th EXCEPT !.err = "ok", !.pc = "saveSub"]
  <2>1. /\ th.pc = "putSub"
        /\ \/ th.rq.op \in {"postSub", "putSub"} /\ Go(w, Success)
           \/ th.rq.op \notin {"postSub", "putSub"} /\ Go(w, v)
    BY <1>5 DEF PutSub
  <2>2. CASE th.rq.op \in {"postSub", "putSub"} /\ Go(w, Success)
    BY <1>e, <2>1, <2>2
  <2>3. CASE th.rq.op \notin {"postSub", "putSub"} /\ Go(w, v)
    <3>1. u = v
      BY <2>3, NewRecord
    <3>2. v.pc = "saveSub" /\ SameFeed(th, v) /\ v.pubs = th.pubs
      BY <1>0 DEF Thread, SameFeed
    <3> HIDE DEF v, u, th
    <3> QED
      BY <2>1, <2>3, <3>1, <3>2 DEF u, th
  <2> QED
    BY <2>1, <2>2, <2>3
<1>6. CASE UpdateSub(w)
  <2> DEFINE spec == TheOne(th.rq.subs)
             sub(s) == [SubOf(spec, s.feed) EXCEPT !.id = s.id]
             v(s) == [th EXCEPT !.sub = sub(s), !.pc = "putSub"]
  <2>1. th.pc = "updateSub" /\ ((\E code : Go(w, Reply(code))) \/ \E s : Go(w, v(s)))
    <3> HIDE DEF v
    <3>1. th.pc = "updateSub"
      BY <1>6 DEF UpdateSub
    <3>2. \/ Go(w, Reply("notFound"))
          \/ \E s \in drSubs, o \in Outcomes :
               Go(w, CASE o.answer = "ok" -> v(s)
                       [] o.answer = "lost" -> Reply("bad")
                       [] OTHER -> Reply("fail"))
      BY <1>6 DEF UpdateSub, v
    <3> QED
      BY <3>1, <3>2
  <2>2. ASSUME NEW code, Go(w, Reply(code)) PROVE u.pc = "idle"
    BY <2>2, <1>e
  <2>3. ASSUME NEW s, Go(w, v(s)) PROVE u.pc = "putSub" /\ Moves
    <3>1. u = v(s)
      BY <2>3, NewRecord
    <3> HIDE DEF sub
    <3>2. v(s).pc = "putSub" /\ SameFeed(th, v(s)) /\ v(s).pubs = th.pubs
      BY <1>0 DEF Thread, SameFeed
    <3> HIDE DEF v, u, th
    <3> QED
      BY <3>1, <3>2
  <2> HIDE DEF v, u, th
  <2> QED
    BY <2>1, <2>2, <2>3 DEF u, th
<1>7. CASE RemoveSub(w)
  <2>1. th.pc = "removeSub" /\ (Go(w, Success) \/ Go(w, Reply("notFound")))
    BY <1>7 DEF RemoveSub
  <2> QED
    BY <1>e, <2>1
<1> QED
  BY <1>1, <1>2, <1>3, <1>4, <1>5, <1>6, <1>7 DEF SubNext

LEMMA PostFeedStep ==
  ASSUME DrTypeInv, NEW w \in Threads, PostFeed(w)
  PROVE  LET th == t[w]
             u  == t'[w]
             f  == th.feed
         IN
         /\ th.pc = "postFeed" /\ th.rq.op = "postFeed"
         /\ UNCHANGED <<tables, ingress, drNodes, drStatic, nextPub>>
         /\ \/ u.pc = "idle" /\ UNCHANGED <<drFeeds, drUsers>>
            \/ /\ drFeeds[f] = Absent
               /\ \E P \in RequestedPubs(th.rq), o \in Outcomes :
                    /\ SetOnServer(f, th.rq.state, UsersOf(P), o)
                    /\ \/ u.pc = "idle" /\ o.answer # "ok"
                       \/ /\ u.pc = "newPubService" /\ o.answer = "ok" /\ u.rq = th.rq
                          /\ u.feed = f /\ u.state = th.rq.state /\ u.pubs = P
<1> DEFINE th == t[w]
           u  == t'[w]
           f  == th.feed
           S  == {SubOf(s, th.rq.feed) : s \in th.rq.subs}
           v(P) == [th EXCEPT !.pc = "newPubService", !.pubs = P, !.subs = S,
                      !.state = th.rq.state]
<1>0. /\ th \in Thread /\ th.pc = "postFeed" /\ th.rq.op = "postFeed" /\ th.rq.feed = f
      /\ UNCHANGED <<tables, ingress, drNodes, drStatic, nextPub>>
  BY DEF DrTypeInv, DrTypeOK, DrThreadOK, PostFeed, ctl
<1>1. \/ Go(w, Reply("bad")) /\ UNCHANGED <<drFeeds, drUsers>>
      \/ /\ drFeeds[f] = Absent
         /\ \E P \in RequestedPubs(th.rq), o \in Outcomes :
              /\ SetOnServer(f, th.rq.state, UsersOf(P), o)
              /\ Go(w, IF o.answer # "ok" THEN Reply("fail") ELSE v(P))
  <2> HIDE DEF v
  <2> QED
    BY <1>0 DEF PostFeed, v
<1> HIDE DEF S
<1>2. \A P : /\ v(P).pc = "newPubService" /\ v(P).rq = th.rq /\ v(P).feed = f
             /\ v(P).state = th.rq.state /\ v(P).pubs = P
  BY <1>0 DEF Thread
<1>3. CASE Go(w, Reply("bad")) /\ UNCHANGED <<drFeeds, drUsers>>
  BY <1>0, <1>3, EndStep
<1>4. ASSUME NEW P, Go(w, v(P))
      PROVE  /\ u.pc = "newPubService" /\ u.rq = th.rq
             /\ u.feed = f /\ u.state = th.rq.state /\ u.pubs = P
  <2>1. u = v(P)
    BY <1>4, NewRecord
  <2> HIDE DEF v, u, th, f
  <2> QED
    BY <1>2, <2>1
<1>5. ASSUME Go(w, Reply("fail")) PROVE u.pc = "idle"
  BY <1>5, EndStep
<1> HIDE DEF v, u, th, f
<1>6. CASE /\ drFeeds[f] = Absent
           /\ \E P \in RequestedPubs(th.rq), o \in Outcomes :
                /\ SetOnServer(f, th.rq.state, UsersOf(P), o)
                /\ Go(w, IF o.answer # "ok" THEN Reply("fail") ELSE v(P))
  <2>1. PICK P \in RequestedPubs(th.rq), o \in Outcomes :
          /\ SetOnServer(f, th.rq.state, UsersOf(P), o)
          /\ Go(w, IF o.answer # "ok" THEN Reply("fail") ELSE v(P))
    BY <1>6
  <2>2. \/ u.pc = "idle" /\ o.answer # "ok"
        \/ /\ u.pc = "newPubService" /\ o.answer = "ok" /\ u.rq = th.rq
           /\ u.feed = f /\ u.state = th.rq.state /\ u.pubs = P
    BY <1>4, <1>5, <2>1
  <2> QED
    BY <1>0, <1>6, <2>1, <2>2 DEF u, th, f
<1> QED
  BY <1>1, <1>3, <1>6

LEMMA UpdateFields ==
  ASSUME NEW th \in Thread, NEW s, NEW P
  PROVE  LET u == Update(th, s, P) IN
         /\ u.pc = "putFeed" /\ u.rq = th.rq /\ u.feed = th.feed /\ u.pubs = P
         /\ u.users = UsersOf(P) /\ u.subs = SubsOf(th.feed)
<1> DEFINE U == UsersOf(P)
           S == SubsOf(th.feed)
<1> HIDE DEF U, S
<1>1. Update(th, s, P) = [th EXCEPT !.pc = "putFeed", !.err = "ok", !.state = s, !.pubs = P,
                                    !.users = U, !.subs = S]
  BY DEF Update, U, S
<1>2. LET u == [th EXCEPT !.pc = "putFeed", !.err = "ok", !.state = s, !.pubs = P,
                          !.users = U, !.subs = S]
      IN /\ u.pc = "putFeed" /\ u.rq = th.rq /\ u.feed = th.feed /\ u.pubs = P
         /\ u.users = U /\ u.subs = S
  BY DEF Thread
<1> QED
  BY <1>1, <1>2 DEF U, S

LEMMA GetFeedStep ==
  ASSUME DrTypeInv, NEW w \in Threads, GetFeed(w)
  PROVE  LET th == t[w]
             u  == t'[w]
             f  == th.feed
         IN
         /\ th.pc = "getFeed" /\ UNCHANGED <<tables, server, nextPub>>
         /\ \/ u.pc = "idle"
            \/ /\ u.pc \in {"subNew", "updateSub"} /\ u.rq = th.rq
               /\ th.rq.op \in {"postSub", "putSub"}
            \/ /\ u.pc = "putFeed" /\ u.rq = th.rq /\ u.feed = f /\ feeds[f] # Absent
               /\ u.users = UsersOf(u.pubs) /\ u.subs = SubsOf(f)
               /\ \/ th.rq.op = "putFeed" /\ u.pubs = PubsOf(f)
                  \/ /\ th.rq.op = "postPub"
                     /\ u.pubs = PubsOf(f) \cup {PubOf(TheOne(th.rq.pubs), f)}
                  \/ /\ th.rq.op = "deletePub" /\ Cardinality(PubsOf(f)) # 1
                     /\ u.pubs = {p \in PubsOf(f) : p.id # th.rq.id}
<1> DEFINE th == t[w]
           u  == t'[w]
           f  == th.feed
           sub == [th EXCEPT !.pc = "subNew", !.sub = SubOf(TheOne(th.rq.subs), f)]
<1>0. /\ th \in Thread /\ th.pc = "getFeed" /\ UNCHANGED <<tables, server, nextPub>>
      /\ th.rq.op \in {"putFeed", "postPub", "deletePub", "postSub", "putSub"}
  BY DEF DrTypeInv, DrTypeOK, DrThreadOK, GetFeed, ctl
<1>g. \/ Go(w, NoFeed(th.rq.op))
      \/ /\ feeds[f] # Absent
         /\ \/ th.rq.op = "putFeed" /\ Go(w, Update(th, th.rq.state, PubsOf(f)))
            \/ /\ th.rq.op = "postPub"
               /\ Go(w, Update(th, feeds[f], PubsOf(f) \cup {PubOf(TheOne(th.rq.pubs), f)}))
            \/ th.rq.op = "deletePub" /\ \E next \in WithoutPub(th) : Go(w, next)
            \/ th.rq.op = "postSub" /\ Go(w, sub)
            \/ th.rq.op = "putSub" /\ Go(w, [th EXCEPT !.pc = "updateSub"])
  <2> HIDE DEF sub, u
  <2> QED
    BY <1>0 DEF GetFeed, sub
<1>u. ASSUME NEW s, NEW P, Go(w, Update(th, s, P))
      PROVE  /\ u.pc = "putFeed" /\ u.rq = th.rq /\ u.feed = f /\ u.pubs = P
             /\ u.users = UsersOf(u.pubs) /\ u.subs = SubsOf(f)
  <2>1. u = Update(th, s, P)
    BY <1>u, NewRecord
  <2> HIDE DEF u, th
  <2>2. /\ u.pc = "putFeed" /\ u.rq = th.rq /\ u.feed = th.feed /\ u.pubs = P
        /\ u.users = UsersOf(P) /\ u.subs = SubsOf(th.feed)
    BY <1>0, <2>1, UpdateFields
  <2> QED
    BY <2>2
<1>1. CASE Go(w, NoFeed(th.rq.op))
  <2>1. u.pc = "idle"
    BY <1>1, EndStep DEF NoFeed
  <2> QED
    BY <1>0, <2>1
<1>2. CASE feeds[f] # Absent /\ th.rq.op = "putFeed" /\ Go(w, Update(th, th.rq.state, PubsOf(f)))
  BY <1>0, <1>2, <1>u
<1>3. CASE /\ feeds[f] # Absent /\ th.rq.op = "postPub"
           /\ Go(w, Update(th, feeds[f], PubsOf(f) \cup {PubOf(TheOne(th.rq.pubs), f)}))
  BY <1>0, <1>3, <1>u
<1>4. CASE feeds[f] # Absent /\ th.rq.op = "deletePub" /\ \E next \in WithoutPub(th) : Go(w, next)
  <2>1. \/ Go(w, Reply("bad")) \/ Go(w, ServerError)
        \/ /\ Cardinality(PubsOf(f)) # 1
           /\ Go(w, Update(th, feeds[f], {p \in PubsOf(f) : p.id # th.rq.id}))
    <3> HIDE DEF th
    <3> QED
      BY <1>4 DEF WithoutPub
  <2>2. CASE Go(w, Reply("bad")) \/ Go(w, ServerError)
    <3>1. u.pc = "idle"
      BY <2>2, EndStep
    <3> QED
      BY <1>0, <3>1
  <2>3. CASE /\ Cardinality(PubsOf(f)) # 1
             /\ Go(w, Update(th, feeds[f], {p \in PubsOf(f) : p.id # th.rq.id}))
    <3>1. /\ u.pc = "putFeed" /\ u.rq = th.rq /\ u.feed = f
          /\ u.pubs = {p \in PubsOf(f) : p.id # th.rq.id}
          /\ u.users = UsersOf(u.pubs) /\ u.subs = SubsOf(f)
      BY <1>u, <2>3
    <3> HIDE DEF u, th
    <3> QED
      BY <1>0, <1>4, <2>3, <3>1 DEF u, th
  <2> QED
    BY <2>1, <2>2, <2>3
<1>5. CASE th.rq.op = "postSub" /\ Go(w, sub)
  <2>1. u = sub
    BY <1>5, NewRecord
  <2> DEFINE s == SubOf(TheOne(th.rq.subs), f)
  <2> HIDE DEF s
  <2>2. LET v == [th EXCEPT !.pc = "subNew", !.sub = s] IN v.pc = "subNew" /\ v.rq = th.rq
    BY <1>0 DEF Thread
  <2>3. u.pc = "subNew" /\ u.rq = th.rq
    <3>1. sub = [th EXCEPT !.pc = "subNew", !.sub = s]
      BY DEF s
    <3> HIDE DEF sub, u
    <3> QED
      BY <2>1, <2>2, <3>1
  <2> QED
    BY <1>0, <1>5, <2>3
<1>6. CASE th.rq.op = "putSub" /\ Go(w, [th EXCEPT !.pc = "updateSub"])
  <2>1. u.pc = "updateSub" /\ u.rq = th.rq
    BY <1>6, PlainStep DEF OnlyPc, SameFeed
  <2> QED
    BY <1>0, <1>6, <2>1
<1> QED
  BY <1>g, <1>1, <1>2, <1>3, <1>4, <1>5, <1>6

LEMMA PutFeedStep ==
  ASSUME DrTypeInv, NEW w \in Threads, PutFeed(w)
  PROVE  LET th == t[w]
             u  == t'[w]
         IN
         /\ th.pc = "putFeed" /\ UNCHANGED <<tables, ingress, drNodes, drStatic, nextPub>>
         /\ \/ u.pc = "idle" /\ UNCHANGED <<drFeeds, drUsers>>
            \/ \E o \in Outcomes :
                 /\ SetOnServer(th.feed, th.state, th.users, o)
                 /\ \/ u.pc = "idle" /\ o.answer # "ok"
                    \/ u.pc = "newPubService" /\ o.answer = "ok" /\ OnlyPc(th, u)
<1> DEFINE th == t[w]
           u  == t'[w]
           v == [th EXCEPT !.pc = "newPubService"]
<1>0. th.pc = "putFeed" /\ UNCHANGED <<tables, ingress, drNodes, drStatic, nextPub>>
  BY DEF PutFeed, ctl
<1>1. \/ Go(w, Fails(th, "fail")) /\ UNCHANGED <<drFeeds, drUsers>>
      \/ \E o \in Outcomes : /\ SetOnServer(th.feed, th.state, th.users, o)
                             /\ Go(w, IF o.answer = "ok" THEN v ELSE Fails(th, "fail"))
  BY DEF PutFeed
<1>2. Go(w, Fails(th, "fail")) => u.pc = "idle"
  BY EndStep
<1>3. Go(w, v) => u.pc = "newPubService" /\ OnlyPc(th, u)
  BY PlainStep
<1> HIDE DEF th, u, v
<1>4. CASE Go(w, Fails(th, "fail")) /\ UNCHANGED <<drFeeds, drUsers>>
  BY <1>0, <1>2, <1>4 DEF th, u
<1>5. CASE \E o \in Outcomes : /\ SetOnServer(th.feed, th.state, th.users, o)
                               /\ Go(w, IF o.answer = "ok" THEN v ELSE Fails(th, "fail"))
  <2>1. PICK o \in Outcomes : /\ SetOnServer(th.feed, th.state, th.users, o)
                              /\ Go(w, IF o.answer = "ok" THEN v ELSE Fails(th, "fail"))
    BY <1>5
  <2>2. \/ u.pc = "idle" /\ o.answer # "ok"
        \/ u.pc = "newPubService" /\ o.answer = "ok" /\ OnlyPc(th, u)
    BY <1>2, <1>3, <2>1
  <2> QED
    BY <1>0, <2>1, <2>2 DEF th, u
<1> QED
  BY <1>1, <1>4, <1>5

LEMMA StoreFeedStep ==
  ASSUME DrTypeInv, NEW w \in Threads, StoreFeed(w)
  PROVE  LET th == t[w]
             u  == t'[w]
         IN
         /\ th.pc = "storeFeed" /\ feeds' = [feeds EXCEPT ![th.feed] = th.state]
         /\ UNCHANGED <<pubs, subs, nodes, server, nextPub>>
         /\ \/ th.rq.op = "deletePub" /\ u.pc = "removePub" /\ OnlyPc(th, u)
            \/ th.rq.op # "deletePub" /\ u.pc = "idle"
<1>1. \/ t[w].rq.op = "deletePub" /\ Go(w, [t[w] EXCEPT !.pc = "removePub"])
      \/ t[w].rq.op # "deletePub" /\ Go(w, Success)
  BY DEF StoreFeed
<1>2. \/ t[w].rq.op = "deletePub" /\ t'[w].pc = "removePub" /\ OnlyPc(t[w], t'[w])
      \/ t[w].rq.op # "deletePub" /\ t'[w].pc = "idle"
  BY <1>1, PlainStep, EndStep
<1> QED
  BY <1>2 DEF StoreFeed, ctl

LEMMA OtherFeedStep ==
  ASSUME DrTypeInv, NEW w \in Threads, DeleteFeed(w) \/ GetFeeds(w)
  PROVE  /\ t[w].pc \in {"deleteFeed", "getFeeds"} /\ t'[w].pc = "idle"
         /\ \/ feeds' = feeds \/ feeds' = [feeds EXCEPT ![t[w].rq.feed] = Absent]
         /\ UNCHANGED <<pubs, subs, nodes, server, nextPub>>
<1>1. t[w].pc \in {"deleteFeed", "getFeeds"} /\ Go(w, Success)
  BY DEF DeleteFeed, GetFeeds
<1>2. t'[w].pc = "idle"
  BY <1>1, EndStep
<1> QED
  BY <1>1, <1>2 DEF DeleteFeed, GetFeeds, tables, ctl

-----------------------------------------------------------------------------
(* One request is served at a time, and every answer of the server arrives.*)
OneThread     == \A v, w \in Threads : v = w
AnswersArrive == "drLost" \notin Faults

LEMMA Arrives ==
  ASSUME AnswersArrive, NEW o \in Outcomes
  PROVE  (o.effect = TRUE /\ o.answer = "ok") \/ (o.effect = FALSE /\ o.answer = "fail")
<1>1. o = Done \/ o = Refused
  BY DEF Outcomes, AnswersArrive
<1>2. Done.effect = TRUE /\ Done.answer = "ok" /\ Refused.effect = FALSE /\ Refused.answer = "fail"
  BY Zenon DEF Done, Refused
<1> HIDE DEF Done, Refused
<1> QED
  BY <1>1, <1>2

LEMMA NodePcStep ==
  ASSUME DrTypeInv, NEW w \in Threads, NodeNext(w)
  PROVE  t'[w].pc \in {"idle", "nodesGet", "nodesPut", "nodeLocation", "staticGet", "staticPut",
                       "nodeStore"}
<1> DEFINE th == t[w]
           In(q) == q \in {"idle", "nodesGet", "nodesPut", "nodeLocation", "staticGet",
                           "staticPut", "nodeStore"}
           a(l) == [th EXCEPT !.pc = "nodesGet", !.loc = l]
           b(e, l, q) == [th EXCEPT !.err = e, !.list = l, !.pc = q]
           c(e, q) == [th EXCEPT !.err = e, !.pc = q]
           d(l, q) == [th EXCEPT !.list = l, !.pc = q]
           f(q) == [th EXCEPT !.pc = q]
           g(e, q) == [th EXCEPT !.pc = q, !.err = e]
<1>1. th \in Thread
  BY DEF DrTypeInv, DrTypeOK
<1>2. /\ \A l : a(l).pc = "nodesGet"
      /\ \A e, l, q : b(e, l, q).pc = q
      /\ \A e, q : c(e, q).pc = q /\ g(e, q).pc = q
      /\ \A l, q : d(l, q).pc = q
      /\ \A q : f(q).pc = q
  BY <1>1 DEF Thread
<1>3. \A x : Go(w, x) => t'[w] = x
  BY NewRecord
<1> HIDE DEF a, b, c, d, f, g
<1>4. ASSUME GetNode(w) PROVE In(t'[w].pc)
  <2>1. \/ \E e : Go(w, Reply(e))
        \/ \E l : Go(w, a(l))
    BY <1>4 DEF GetNode, a
  <2> QED
    BY <1>2, <1>3, <2>1, Ended
<1>5. ASSUME GetNodes(w) PROVE In(t'[w].pc)
  <2>1. \/ \E e : Go(w, Reply(e))
        \/ \E e, l, q : Go(w, b(e, l, q)) /\ In(q)
        \/ \E e : Go(w, c(e, "nodeLocation"))
    BY <1>5 DEF GetNodes, b, c
  <2> QED
    BY <1>2, <1>3, <2>1, Ended
<1>6. ASSUME PutNodes(w) PROVE In(t'[w].pc)
  <2>1. \/ \E e : Go(w, Reply(e))
        \/ \E e : Go(w, g(e, "nodeLocation"))
    BY <1>6 DEF PutNodes, g
  <2> QED
    BY <1>2, <1>3, <2>1, Ended
<1>7. ASSUME NodeLocation(w) PROVE In(t'[w].pc)
  <2>1. Go(w, ServerError) \/ \E q : Go(w, f(q)) /\ In(q)
    BY <1>7 DEF NodeLocation, f
  <2> QED
    BY <1>2, <1>3, <2>1, Ended
<1>8. ASSUME GetStatic(w) PROVE In(t'[w].pc)
  <2>1. \/ \E e : Go(w, Reply(e))
        \/ \E e, l, q : Go(w, b(e, l, q)) /\ In(q)
        \/ \E l, q : Go(w, d(l, q)) /\ In(q)
        \/ \E e : Go(w, c(e, "nodeStore"))
    BY <1>8 DEF GetStatic, b, c, d
  <2> QED
    BY <1>2, <1>3, <2>1, Ended
<1>9. ASSUME PutStatic(w) \/ StoreNode(w) PROVE In(t'[w].pc)
  <2>1. \/ \E e : Go(w, Reply(e))
        \/ Go(w, Success)
        \/ Go(w, f("nodeStore"))
    BY <1>9 DEF PutStatic, StoreNode, f
  <2> QED
    BY <1>2, <1>3, <2>1, Ended
<1> QED
  BY <1>4, <1>5, <1>6, <1>7, <1>8, <1>9 DEF NodeNext

=============================================================================
