--------------------------- MODULE DrServerProofs ---------------------------
(***************************************************************************)
(* What is stored is on the data-router server, for every value of         *)
(* DrProvisioning's constants: a request stores a row only after the       *)
(* server confirmed what the row stands for, the server never forgets it,  *)
(* and a subscription's id never comes to stand for another feed.  And,    *)
(* while requests come one at a time, publishers have their routes and     *)
(* the server's feeds are those of the tables.                             *)
(***************************************************************************)
EXTENDS DrTypeProofs, FiniteSetTheorems

OnServer(f)   == drFeeds[f] # Absent
HasSub(id, f) == \E x \in drSubs : x.id = id /\ x.feed = f

(* The steps that come after the server confirmed the feed, and those      *)
(* whose publisher or subscriber is of such a feed or subscription.        *)
FeedPcs == {"newPubService", "savePub", "ingressMake", "ingressPost", "putPub", "saveSub",
            "subNew", "subMake", "subPost", "egressNodes", "egressMake", "egressPost",
            "putSub", "updateSub", "storeFeed"}
PubPcs  == {"ingressMake", "ingressPost", "putPub"}
SubPcs  == {"egressNodes", "egressMake", "egressPost", "putSub"}

Confirmed(th) ==
  /\ th.pc \in FeedPcs => OnServer(th.feed)
  /\ th.pc \in PubPcs => OnServer(th.pub.feed)
  /\ th.pc \in SubPcs => HasSub(th.sub.id, th.sub.feed)

(* An id is given to one subscription.                                     *)
SubIds ==
  \A x, y \in drSubs : x.id < nextSub /\ (x.id = y.id => x.feed = y.feed)

ServerInv == StoredIsOnServer /\ SubIds /\ \A w \in Threads : Confirmed(t[w])

(* What the server confirmed it keeps.                                     *)
Kept ==
  /\ \A f \in Feeds : OnServer(f) => OnServer(f)'
  /\ \A id \in Nat, f \in Feeds : HasSub(id, f) => HasSub(id, f)'
  /\ SubIds'

(* Every row there is after the step was there, or is of something the     *)
(* server had confirmed, or was written by a PUT dr_pubs.                  *)
RowsConfirmed ==
  /\ \A f \in Feeds : feeds'[f] # Absent => feeds[f] # Absent \/ OnServer(f)
  /\ \A s \in subs' : s \in subs \/ HasSub(s.id, s.feed)
  /\ (\A r \in Requests : r.op # "putPub") => \A p \in pubs' : p \in pubs \/ OnServer(p.feed)

-----------------------------------------------------------------------------
LEMMA KeptRows ==
  ASSUME DrTypeInv, DrTypeInv', ServerInv, Kept, RowsConfirmed
  PROVE  StoredIsOnServer'
<1>1. subs' \subseteq Sub /\ pubs' \subseteq Pub
  BY DEF DrTypeInv, DrTypeOK
<1>2. \A f \in Feeds : feeds'[f] # Absent => OnServer(f)'
  BY DEF ServerInv, StoredIsOnServer, Kept, RowsConfirmed, OnServer
<1>3. \A s \in subs' : HasSub(s.id, s.feed)'
  <2> TAKE s \in subs'
  <2>1. s.id \in Nat /\ s.feed \in Feeds
    BY <1>1 DEF Sub
  <2>2. HasSub(s.id, s.feed)
    BY DEF ServerInv, StoredIsOnServer, RowsConfirmed, HasSub
  <2> QED
    BY <2>1, <2>2 DEF Kept
<1>4. (\A r \in Requests : r.op # "putPub") => \A p \in pubs' : OnServer(p.feed)'
  <2> HAVE \A r \in Requests : r.op # "putPub"
  <2> TAKE p \in pubs'
  <2>1. p.feed \in Feeds
    BY <1>1 DEF Pub
  <2>2. OnServer(p.feed)
    BY DEF ServerInv, StoredIsOnServer, RowsConfirmed, OnServer
  <2> QED
    BY <2>1, <2>2 DEF Kept
<1> QED
  BY <1>2, <1>3, <1>4 DEF StoredIsOnServer, OnServer, HasSub

LEMMA KeptConfirmed ==
  ASSUME Kept, NEW th \in Thread, Confirmed(th)
  PROVE  Confirmed(th)'
<1>1. th.feed \in Feeds /\ th.pub.feed \in Feeds /\ th.sub.id \in Nat /\ th.sub.feed \in Feeds
  BY DEF Thread, Pub, Sub
<1> QED
  BY <1>1 DEF Kept, Confirmed

LEMMA SameKept ==
  ASSUME ServerInv, UNCHANGED <<drFeeds, drSubs, nextSub>>
  PROVE  Kept
  BY DEF ServerInv, SubIds, Kept, OnServer, HasSub

LEMMA SameRows ==
  ASSUME UNCHANGED <<feeds, pubs, subs>>
  PROVE  RowsConfirmed
  BY DEF RowsConfirmed

(* A step of one thread keeps the invariant when the server keeps what it  *)
(* confirmed and the thread's new record and the new rows are confirmed.   *)
LEMMA ServerStep ==
  ASSUME DrTypeInv, DrTypeInv', ServerInv, NEW w \in Threads, NEW next, Go(w, next),
         Confirmed(next)', Kept, RowsConfirmed
  PROVE  ServerInv'
<1>1. StoredIsOnServer'
  BY KeptRows
<1>2. ASSUME NEW v \in Threads
      PROVE  Confirmed(t[v])'
  <2>1. t \in [Threads -> Thread]
    BY DEF DrTypeInv, DrTypeOK
  <2>2. CASE v = w
    <3>1. t'[v] = next
      BY <2>1, <2>2 DEF Go
    <3> QED
      BY <3>1 DEF Confirmed
  <2>3. CASE v # w
    <3>1. t'[v] = t[v]
      BY <2>1, <2>3 DEF Go
    <3> DEFINE th == t[v]
    <3>2. th \in Thread /\ Confirmed(th)
      BY <2>1 DEF ServerInv
    <3>3. ASSUME NEW u \in Thread, Confirmed(u)
          PROVE  Confirmed(u)'
      BY <3>3, KeptConfirmed
    <3> QED
      BY <3>1, <3>2, <3>3 DEF Confirmed, OnServer, HasSub
  <2> QED
    BY <2>2, <2>3
<1> QED
  BY <1>1, <1>2 DEF ServerInv, Kept

(* The same for a step that changes neither the server nor the rows.       *)
LEMMA QuietServerStep ==
  ASSUME DrTypeInv, DrTypeInv', ServerInv, NEW w \in Threads, NEW next, Go(w, next),
         Confirmed(next), UNCHANGED <<drFeeds, drSubs, nextSub, feeds, pubs, subs>>
  PROVE  ServerInv'
<1>1. Confirmed(next)'
  BY DEF Confirmed, OnServer, HasSub
<1> QED
  BY <1>1, SameKept, SameRows, ServerStep

LEMMA ReplyConfirmed == \A code : Confirmed(Reply(code)) /\ Confirmed(Reply(code))'
  BY DEF Confirmed, Reply, Idle, FeedPcs, PubPcs, SubPcs

LEMMA OkHasEffect ==
  ASSUME NEW o \in Outcomes, o.answer = "ok"
  PROVE  o.effect
<1>1. CASE o = Done
  BY <1>1, Zenon DEF Done
<1>2. CASE o # Done
  <2>1. o.answer \in {"fail", "lost"}
    <3> DEFINE refused == IF "drHttp" \in Faults THEN {Refused} ELSE {}
               lost    == IF "drLost" \in Faults THEN [effect : BOOLEAN, answer : {"lost"}] ELSE {}
    <3>1. Refused.answer = "fail"
      BY DEF Refused
    <3>2. \A x \in refused \cup lost : x.answer \in {"fail", "lost"}
      BY <3>1
    <3>3. o \in {Done} \cup refused \cup lost
      BY DEF Outcomes
    <3> HIDE DEF refused, lost
    <3> QED
      BY <1>2, <3>2, <3>3
  <2> QED
    BY <2>1
<1> QED
  BY <1>1, <1>2

-----------------------------------------------------------------------------
(* A publisher is stored for a feed the server confirmed.                  *)
LEMMA PubStored ==
  ASSUME DrTypeInv, DrTypeInv', ServerInv, NEW w \in Threads, PubNext(w)
  PROVE  ServerInv'
<1> DEFINE th == t[w]
<1>t. th \in Thread /\ DrThreadOK(th) /\ Confirmed(th)
  BY DEF DrTypeInv, DrTypeOK, ServerInv
<1>u. UNCHANGED <<drFeeds, drSubs, nextSub, feeds, subs>>
  BY DEF PubNext, NewPubService, SavePub, MakeIngress, PostIngress, PutPub, WritePub, FindPub, RemovePub,
         server, tables, ctl
<1>q. ASSUME NEW next, Go(w, next), Confirmed(next), UNCHANGED pubs
      PROVE  ServerInv'
  BY <1>q, <1>u, QuietServerStep
<1>p. ASSUME NEW next, Go(w, next), Confirmed(next), RowsConfirmed
      PROVE  ServerInv'
  <2>1. Confirmed(next)'
    BY <1>p, <1>u DEF Confirmed, OnServer, HasSub
  <2> QED
    BY <1>p, <1>u, <2>1, SameKept, ServerStep
<1>1. CASE NewPubService(w)
  <2> DEFINE next == [th EXCEPT !.pc = "savePub"]
  <2>1. next.pc = "savePub" /\ next.feed = th.feed
    BY <1>t, ZenonT(60) DEF Thread
  <2>2. th.pc = "newPubService" /\ Go(w, next) /\ UNCHANGED pubs
    BY <1>1 DEF NewPubService, tables
  <2> HIDE DEF next
  <2>3. Confirmed(next)
    BY <1>t, <2>1, <2>2 DEF Confirmed, FeedPcs, PubPcs, SubPcs
  <2> QED
    BY <2>2, <2>3, <1>q
<1>2. CASE SavePub(w)
  <2> DEFINE done       == [th EXCEPT !.pc = "saveSub"]
             skip(p)    == [th EXCEPT !.pubs = @ \ {p}]
             row(p)     == [p EXCEPT !.id = nextPub, !.feed = th.feed, !.status = "VALID"]
             save(p, c) == [th EXCEPT !.pubs = @ \ {p}, !.at = NodesAt(p.loc),
                              !.pub = row(p), !.pc = c]
  <2>1. th.pc = "savePub" /\ UNCHANGED pubs
    BY <1>2 DEF SavePub, tables
  <2>2. OnServer(th.feed)
    BY <1>t, <2>1 DEF Confirmed, FeedPcs
  <2>3. done.pc = "saveSub" /\ done.feed = th.feed
    BY <1>t, ZenonT(60) DEF Thread
  <2>4. \A p : skip(p).pc = th.pc /\ skip(p).feed = th.feed
    BY <1>t, ZenonT(60) DEF Thread
  <2>5. \A p, c : save(p, c).pc = c /\ save(p, c).feed = th.feed /\ save(p, c).pub = row(p)
    <3> HIDE DEF row
    <3> QED
      BY <1>t, ZenonT(60) DEF Thread
  <2>6. \A p \in Pub : row(p).feed = th.feed
    BY ZenonT(60) DEF Pub
  <2>7. PICK next \in {done} \cup {skip(p) : p \in th.pubs}
                      \cup {save(p, "putPub") : p \in th.pubs}
                      \cup {save(p, "ingressMake") : p \in th.pubs} : Go(w, next)
    BY <1>2 DEF SavePub
  <2>8. th.pubs \subseteq Pub
    BY <1>t DEF Thread
  <2>9. /\ next.pc \in {"saveSub", "savePub", "putPub", "ingressMake"} /\ next.feed = th.feed
        /\ next.pc \in PubPcs => next.pub.feed = th.feed
    <3> HIDE DEF done, skip, save, row
    <3> QED
      BY <2>1, <2>3, <2>4, <2>5, <2>6, <2>7, <2>8 DEF PubPcs
  <2>10. Confirmed(next)
    BY <2>2, <2>9 DEF Confirmed, FeedPcs, PubPcs, SubPcs
  <2> QED
    BY <2>1, <2>7, <2>10, <1>q
<1>3. CASE MakeIngress(w)
  <2> DEFINE next == [th EXCEPT !.pc = "ingressPost"]
  <2>1. next.pc = "ingressPost" /\ next.feed = th.feed /\ next.pub = th.pub
    BY <1>t, ZenonT(60) DEF Thread
  <2>2. th.pc = "ingressMake" /\ Go(w, next) /\ UNCHANGED pubs
    BY <1>3 DEF MakeIngress, tables
  <2> HIDE DEF next
  <2>3. Confirmed(next)
    BY <1>t, <2>1, <2>2 DEF Confirmed, FeedPcs, PubPcs, SubPcs
  <2> QED
    BY <2>2, <2>3, <1>q
<1>4. CASE PostIngress(w)
  <2> DEFINE row(st)  == [th.pub EXCEPT !.status = st]
             next(st) == [th EXCEPT !.pc = "putPub", !.pub = row(st)]
  <2>1. \A st : next(st).pc = "putPub" /\ next(st).feed = th.feed /\ next(st).pub.feed = th.pub.feed
    <3>1. th.pub \in Pub
      BY <1>t DEF Thread
    <3>2. \A st : row(st).feed = th.pub.feed
      BY <3>1, ZenonT(60) DEF Pub
    <3> HIDE DEF row
    <3>3. \A st : next(st).pub = row(st) /\ next(st).pc = "putPub" /\ next(st).feed = th.feed
      BY <1>t, ZenonT(60) DEF Thread
    <3> HIDE DEF next
    <3> QED
      BY <3>2, <3>3
  <2>2. PICK st : Go(w, next(st))
    BY <1>4 DEF PostIngress
  <2>3. th.pc = "ingressPost" /\ UNCHANGED pubs
    BY <1>4 DEF PostIngress, tables
  <2> HIDE DEF next
  <2>4. Confirmed(next(st))
    BY <1>t, <2>1, <2>3 DEF Confirmed, FeedPcs, PubPcs, SubPcs
  <2> QED
    BY <2>2, <2>3, <2>4, <1>q
<1>5. CASE PutPub(w)
  <2> DEFINE next == [th EXCEPT !.pc = "savePub"]
  <2>1. next.pc = "savePub" /\ next.feed = th.feed
    BY <1>t, ZenonT(60) DEF Thread
  <2>2. th.pc = "putPub" /\ Go(w, next) /\ pubs' = Put(pubs, th.pub)
    BY <1>5 DEF PutPub
  <2> HIDE DEF next
  <2>3. OnServer(th.feed) /\ OnServer(th.pub.feed)
    BY <1>t, <2>2 DEF Confirmed, FeedPcs, PubPcs
  <2>4. Confirmed(next)
    BY <2>1, <2>3 DEF Confirmed, FeedPcs, PubPcs, SubPcs
  <2>5. RowsConfirmed
    BY <1>u, <2>2, <2>3 DEF RowsConfirmed, Put
  <2> QED
    BY <2>2, <2>4, <2>5, <1>p
<1>6. CASE WritePub(w)
  <2>1. th.rq.op = "putPub" /\ th.rq \in Requests
    BY <1>6, <1>t DEF WritePub, DrThreadOK, Thread
  <2>2. RowsConfirmed
    BY <1>u, <2>1 DEF RowsConfirmed
  <2>3. Go(w, Success)
    BY <1>6 DEF WritePub
  <2> QED
    BY <2>2, <2>3, <1>p, ReplyConfirmed DEF Success
<1>7. CASE FindPub(w)
  <2> DEFINE found(p) == [th EXCEPT !.pub = p, !.feed = p.feed, !.err = "ok", !.pc = "getFeed"]
  <2>1. \A p : found(p).pc = "getFeed"
    BY <1>t, ZenonT(60) DEF Thread
  <2>2. PICK next \in {Reply("notFound")} \cup {found(p) : p \in pubs} : Go(w, next)
    BY <1>7 DEF FindPub
  <2>3. UNCHANGED pubs
    BY <1>7 DEF FindPub, tables
  <2>4. Confirmed(next)
    <3> HIDE DEF found
    <3>1. CASE next \in {found(p) : p \in pubs}
      BY <2>1, <3>1 DEF Confirmed, FeedPcs, PubPcs, SubPcs
    <3> QED
      BY <2>2, <3>1, ReplyConfirmed
  <2> QED
    BY <2>2, <2>3, <2>4, <1>q
<1>8. CASE RemovePub(w)
  <2>1. PICK next \in {Success, Reply("notFound")} : Go(w, next)
    BY <1>8 DEF RemovePub
  <2>2. Confirmed(next)
    BY ReplyConfirmed DEF Success
  <2>3. RowsConfirmed
    BY <1>u, <1>8 DEF RemovePub, RowsConfirmed
  <2> QED
    BY <2>1, <2>2, <2>3, <1>p
<1> QED
  BY <1>1, <1>2, <1>3, <1>4, <1>5, <1>6, <1>7, <1>8 DEF PubNext

(* A node's steps touch none of this.                                      *)
LEMMA NodeStored ==
  ASSUME DrTypeInv, DrTypeInv', ServerInv, NEW w \in Threads, NodeNext(w)
  PROVE  ServerInv'
<1> DEFINE th == t[w]
           Pcs == {"idle", "nodesGet", "nodesPut", "nodeLocation", "staticGet", "staticPut", "nodeStore"}
<1>t. t \in [Threads -> Thread] /\ th \in Thread
  BY DEF DrTypeInv, DrTypeOK
<1>u. UNCHANGED <<drFeeds, drSubs, nextSub, feeds, pubs, subs>>
  BY DEF NodeNext, GetNode, GetNodes, PutNodes, NodeLocation, GetStatic, PutStatic, StoreNode,
         server, tables, ctl
<1>n. \A code : Reply(code).pc = "idle"
  BY DEF Reply, Idle
<1>p. ASSUME NEW next, Go(w, next), next.pc \in Pcs
      PROVE  ServerInv'
  <2>1. Confirmed(next)
    BY <1>p DEF Confirmed, FeedPcs, PubPcs, SubPcs
  <2> QED
    BY <1>p, <1>u, <2>1, QuietServerStep
<1>1. CASE GetNode(w)
  BY <1>1, <1>t, <1>n, <1>p DEF GetNode, Thread
<1>2. CASE GetNodes(w)
  <2> DEFINE seen(c)      == [th EXCEPT !.err = "ok", !.list = drNodes, !.pc = c]
             unseen(code) == [th EXCEPT !.err = code, !.pc = "nodeLocation"]
  <2>1. \A c : seen(c).pc = c /\ unseen(c).pc = "nodeLocation"
    BY <1>t, ZenonT(60) DEF Thread
  <2>2. \/ \E c \in {"nodesPut", "nodeLocation"} : Go(w, seen(c))
        \/ \E code : Go(w, Reply(code)) \/ Go(w, unseen(code))
    BY <1>2 DEF GetNodes
  <2> HIDE DEF seen, unseen
  <2> QED
    BY <2>1, <2>2, <1>n, <1>p
<1>3. CASE PutNodes(w)
  <2> DEFINE put(code) == [th EXCEPT !.pc = "nodeLocation", !.err = code]
  <2>1. \A code : put(code).pc = "nodeLocation"
    BY <1>t, ZenonT(60) DEF Thread
  <2>2. Go(w, Reply("fail")) \/ \E code : Go(w, put(code))
    BY <1>3 DEF PutNodes
  <2> HIDE DEF put
  <2> QED
    BY <2>1, <2>2, <1>n, <1>p
<1>4. CASE NodeLocation(w)
  BY <1>4, <1>t, <1>n, <1>p DEF NodeLocation, ServerError, Thread
<1>5. CASE GetStatic(w)
  <2> DEFINE seen(c) == [th EXCEPT !.err = "ok", !.list = drStatic, !.pc = c]
             none(c) == [th EXCEPT !.list = Only(NullName), !.pc = c]
             failed  == [th EXCEPT !.err = "fail", !.pc = "nodeStore"]
  <2>1. (\A c : seen(c).pc = c /\ none(c).pc = c) /\ failed.pc = "nodeStore"
    BY <1>t, ZenonT(60) DEF Thread
  <2>2. \/ \E c \in {"staticPut", "nodeStore"} : Go(w, seen(c)) \/ Go(w, none(c))
        \/ Go(w, Reply("fail")) \/ Go(w, failed)
    BY <1>5 DEF GetStatic
  <2> HIDE DEF seen, none, failed
  <2> QED
    BY <2>1, <2>2, <1>n, <1>p
<1>6. CASE PutStatic(w)
  BY <1>6, <1>t, <1>n, <1>p DEF PutStatic, Thread
<1>7. CASE StoreNode(w)
  BY <1>7, <1>n, <1>p DEF StoreNode, Success
<1> QED
  BY <1>1, <1>2, <1>3, <1>4, <1>5, <1>6, <1>7 DEF NodeNext

-----------------------------------------------------------------------------
(* A new subscription gets an id no other has; a changed one keeps its id  *)
(* and its feed.                                                           *)
LEMMA SubscribeKept ==
  ASSUME DrTypeInv, SubIds, NEW url, NEW o, Subscribe(url, o), UNCHANGED drFeeds
  PROVE  Kept /\ (o.effect => \E x \in drSubs' : x.id = nextSub /\ x.feed = subProv.feed)
<1> DEFINE new == [id |-> nextSub, feed |-> subProv.feed, url |-> url]
<1>1. nextSub \in Nat /\ drSubs \subseteq [id : Nat, feed : Feeds, url : Urls]
  BY DEF DrTypeInv, DrTypeOK
<1>2. \A x \in drSubs : x.id \in Nat /\ x.id < nextSub
  BY <1>1 DEF SubIds
<1>3. new.id = nextSub /\ new.feed = subProv.feed
  OBVIOUS
<1> HIDE DEF new
<1>4. \/ UNCHANGED <<drSubs, nextSub>> /\ ~o.effect
      \/ drSubs' = drSubs \cup {new} /\ nextSub' = nextSub + 1
  BY DEF Subscribe, new
<1>5. CASE UNCHANGED <<drSubs, nextSub>> /\ ~o.effect
  BY <1>5 DEF Kept, SubIds, OnServer, HasSub
<1>6. CASE drSubs' = drSubs \cup {new} /\ nextSub' = nextSub + 1
  <2>1. SubIds'
    <3> SUFFICES ASSUME NEW x \in drSubs', NEW y \in drSubs'
                 PROVE  x.id < nextSub' /\ (x.id = y.id => x.feed = y.feed)
      BY DEF SubIds
    <3>1. CASE x \in drSubs /\ y \in drSubs
      BY <3>1, <1>1, <1>2, <1>6 DEF SubIds
    <3>2. CASE x = new /\ y = new
      BY <3>2, <1>1, <1>3, <1>6
    <3>3. CASE x \in drSubs /\ y = new
      BY <3>3, <1>1, <1>2, <1>3, <1>6
    <3>4. CASE x = new /\ y \in drSubs
      BY <3>4, <1>1, <1>2, <1>3, <1>6
    <3> QED
      BY <3>1, <3>2, <3>3, <3>4, <1>6
  <2>2. \E x \in drSubs' : x.id = nextSub /\ x.feed = subProv.feed
    BY <1>3, <1>6
  <2>3. \A id \in Nat, f \in Feeds : HasSub(id, f) => HasSub(id, f)'
    BY <1>6 DEF HasSub
  <2> QED
    BY <2>1, <2>2, <2>3 DEF Kept, OnServer
<1> QED
  BY <1>4, <1>5, <1>6

LEMMA RedirectKept ==
  ASSUME DrTypeInv, SubIds, NEW s \in drSubs, NEW url, NEW o, Redirect(s, url, o),
         UNCHANGED <<drFeeds, nextSub>>
  PROVE  Kept
<1> DEFINE new == [s EXCEPT !.url = url]
<1>1. drSubs \subseteq [id : Nat, feed : Feeds, url : Urls]
  BY DEF DrTypeInv, DrTypeOK
<1>2. new.id = s.id /\ new.feed = s.feed
  BY <1>1
<1> HIDE DEF new
<1>3. drSubs' = drSubs \/ drSubs' = {x \in drSubs : x.id # new.id} \cup {new}
  BY DEF Redirect, Put, new
<1>4. CASE drSubs' = drSubs
  BY <1>4 DEF Kept, SubIds, OnServer, HasSub
<1>5. CASE drSubs' = {x \in drSubs : x.id # new.id} \cup {new}
  <2>1. SubIds'
    BY <1>2, <1>5 DEF SubIds
  <2>2. \A id \in Nat, f \in Feeds : HasSub(id, f) => HasSub(id, f)'
    BY <1>2, <1>5 DEF HasSub, SubIds
  <2> QED
    BY <2>1, <2>2 DEF Kept, OnServer
<1> QED
  BY <1>3, <1>4, <1>5

(* A subscriber is stored with the id and the feed the server answered.    *)
LEMMA SubStored ==
  ASSUME DrTypeInv, DrTypeInv', ServerInv, NEW w \in Threads, SubNext(w)
  PROVE  ServerInv'
<1> DEFINE th == t[w]
<1>t. th \in Thread /\ Confirmed(th)
  BY DEF DrTypeInv, DrTypeOK, ServerInv
<1>g. drSubs \subseteq [id : Nat, feed : Feeds, url : Urls] /\ nextSub \in Nat /\ SubIds
  BY DEF DrTypeInv, DrTypeOK, ServerInv
<1>u. UNCHANGED <<drFeeds, feeds, pubs>>
  BY DEF SubNext, SaveSub, NewSubProv, MakeSubscribe, PostSubscribe, EgressNodes, MakeEgress,
         PostEgress, PutSub, UpdateSub, RemoveSub, server, tables
<1>q. ASSUME NEW next, Go(w, next), Confirmed(next), UNCHANGED <<drSubs, nextSub, subs>>
      PROVE  ServerInv'
  BY <1>q, <1>u, QuietServerStep
<1>p. ASSUME NEW next, Go(w, next), Confirmed(next), UNCHANGED <<drSubs, nextSub>>, RowsConfirmed
      PROVE  ServerInv'
  <2>1. Confirmed(next)'
    BY <1>p, <1>u DEF Confirmed, OnServer, HasSub
  <2> QED
    BY <1>p, <1>u, <2>1, SameKept, ServerStep
<1>r. ASSUME NEW next, Go(w, next), Confirmed(next)', UNCHANGED subs, Kept
      PROVE  ServerInv'
  BY <1>r, <1>u, SameRows, ServerStep
<1>1. CASE SaveSub(w)
  <2> DEFINE done    == [th EXCEPT !.pc = "storeFeed"]
             skip(s) == [th EXCEPT !.subs = @ \ {s}]
             new(s)  == [th EXCEPT !.subs = @ \ {s}, !.sub = s, !.pc = "subNew"]
  <2>1. done.pc = "storeFeed" /\ done.feed = th.feed
    BY <1>t, ZenonT(60) DEF Thread
  <2>2. \A s : skip(s).pc = th.pc /\ skip(s).feed = th.feed
    BY <1>t, ZenonT(60) DEF Thread
  <2>3. \A s : new(s).pc = "subNew" /\ new(s).feed = th.feed
    BY <1>t, ZenonT(60) DEF Thread
  <2>4. th.pc = "saveSub" /\ UNCHANGED <<drSubs, nextSub, subs>>
    BY <1>1 DEF SaveSub, tables, server, ctl
  <2>5. PICK next \in {done} \cup {skip(s) : s \in th.subs} \cup {new(s) : s \in th.subs} : Go(w, next)
    BY <1>1 DEF SaveSub
  <2>6. next.pc \in {"storeFeed", "saveSub", "subNew"} /\ next.feed = th.feed
    <3> HIDE DEF done, skip, new
    <3> QED
      BY <2>1, <2>2, <2>3, <2>4, <2>5
  <2>7. Confirmed(next)
    BY <1>t, <2>4, <2>6 DEF Confirmed, FeedPcs, PubPcs, SubPcs
  <2> QED
    BY <2>4, <2>5, <2>7, <1>q
<1>2. CASE NewSubProv(w)
  <2> DEFINE next == [th EXCEPT !.pc = "subMake"]
  <2>1. next.pc = "subMake" /\ next.feed = th.feed
    BY <1>t, ZenonT(60) DEF Thread
  <2>2. th.pc = "subNew" /\ Go(w, next) /\ UNCHANGED <<drSubs, nextSub, subs>>
    BY <1>2 DEF NewSubProv, tables, server, ctl
  <2> HIDE DEF next
  <2>3. Confirmed(next)
    BY <1>t, <2>1, <2>2 DEF Confirmed, FeedPcs, PubPcs, SubPcs
  <2> QED
    BY <2>2, <2>3, <1>q
<1>3. CASE MakeSubscribe(w)
  <2> DEFINE next == [th EXCEPT !.pc = "subPost"]
  <2>1. next.pc = "subPost" /\ next.feed = th.feed
    BY <1>t, ZenonT(60) DEF Thread
  <2>2. th.pc = "subMake" /\ Go(w, next) /\ UNCHANGED <<drSubs, nextSub, subs>>
    BY <1>3 DEF MakeSubscribe, tables, server, ctl
  <2> HIDE DEF next
  <2>3. Confirmed(next)
    BY <1>t, <2>1, <2>2 DEF Confirmed, FeedPcs, PubPcs, SubPcs
  <2> QED
    BY <2>2, <2>3, <1>q
<1>4. CASE PostSubscribe(w)
  <2> DEFINE row  == [th.sub EXCEPT !.id = nextSub, !.feed = subProv.feed]
             next == [th EXCEPT !.sub = row, !.pc = "egressNodes"]
  <2>1. next.pc = "egressNodes" /\ next.feed = th.feed /\ next.sub.id = nextSub
        /\ next.sub.feed = subProv.feed
    <3>1. th.sub \in Sub
      BY <1>t DEF Thread
    <3>2. row.id = nextSub /\ row.feed = subProv.feed
      BY <3>1, ZenonT(60) DEF Sub
    <3> HIDE DEF row
    <3>3. next.sub = row /\ next.pc = "egressNodes" /\ next.feed = th.feed
      BY <1>t, ZenonT(60) DEF Thread
    <3> HIDE DEF next
    <3> QED
      BY <3>2, <3>3
  <2>2. th.pc = "subPost" /\ UNCHANGED subs
    BY <1>4 DEF PostSubscribe, tables
  <2>3. OnServer(th.feed)
    BY <1>t, <2>2 DEF Confirmed, FeedPcs
  <2>4. \/ Go(w, Fails(th, "bad")) /\ UNCHANGED <<drSubs, nextSub>>
        \/ \E o \in Outcomes : /\ Subscribe(th.sub.url, o)
                              /\ Go(w, IF o.answer = "ok" THEN next ELSE Fails(th, "bad"))
    BY <1>4 DEF PostSubscribe
  <2>5. Confirmed(Fails(th, "bad"))
    BY ReplyConfirmed DEF Fails
  <2> HIDE DEF next
  <2>6. CASE Go(w, Fails(th, "bad")) /\ UNCHANGED <<drSubs, nextSub>>
    BY <2>2, <2>5, <2>6, <1>q
  <2>7. ASSUME NEW o \in Outcomes, Subscribe(th.sub.url, o),
               Go(w, IF o.answer = "ok" THEN next ELSE Fails(th, "bad"))
        PROVE  ServerInv'
    <3>1. Kept /\ (o.effect => \E x \in drSubs' : x.id = nextSub /\ x.feed = subProv.feed)
      BY <2>7, <1>g, <1>u, SubscribeKept
    <3>2. CASE o.answer = "ok"
      <4>1. PICK n : n = next /\ Go(w, n)
        BY <2>7, <3>2
      <4>2. \E x \in drSubs' : x.id = n.sub.id /\ x.feed = n.sub.feed
        BY <2>1, <3>1, <3>2, <4>1, OkHasEffect
      <4>3. OnServer(n.feed)'
        BY <2>1, <2>3, <4>1, <1>u DEF OnServer
      <4>4. n.pc = "egressNodes"
        BY <2>1, <4>1
      <4>5. Confirmed(n)'
        BY <4>2, <4>3, <4>4 DEF Confirmed, HasSub, PubPcs
      <4> QED
        BY <2>2, <3>1, <4>1, <4>5, <1>r
    <3>3. CASE o.answer # "ok"
      <4>1. PICK code : Go(w, Reply(code))
        BY <2>7, <3>3 DEF Fails
      <4> QED
        BY <2>2, <3>1, <4>1, <1>r, ReplyConfirmed
    <3> QED
      BY <3>2, <3>3
  <2> QED
    BY <2>4, <2>6, <2>7
<1>5. CASE EgressNodes(w)
  <2> DEFINE none    == [th EXCEPT !.pc = "putSub"]
             some(n) == [th EXCEPT !.at = {n}, !.pc = "egressMake"]
  <2>1. none.pc = "putSub" /\ none.feed = th.feed /\ none.sub = th.sub
    BY <1>t, ZenonT(60) DEF Thread
  <2>2. \A n : some(n).pc = "egressMake" /\ some(n).feed = th.feed /\ some(n).sub = th.sub
    BY <1>t, ZenonT(60) DEF Thread
  <2>3. th.pc = "egressNodes" /\ UNCHANGED <<drSubs, nextSub, subs>>
    BY <1>5 DEF EgressNodes, tables, server, ctl
  <2>4. PICK next \in {none} \cup {some(n) : n \in Nodes} : Go(w, next)
    BY <1>5 DEF EgressNodes, NodesAt
  <2>5. next.pc \in {"putSub", "egressMake"} /\ next.feed = th.feed /\ next.sub = th.sub
    <3> HIDE DEF none, some
    <3> QED
      BY <2>1, <2>2, <2>4
  <2>6. Confirmed(next)
    BY <1>t, <2>3, <2>5 DEF Confirmed, FeedPcs, PubPcs, SubPcs
  <2> QED
    BY <2>3, <2>4, <2>6, <1>q
<1>6. CASE MakeEgress(w)
  <2> DEFINE next == [th EXCEPT !.pc = "egressPost"]
  <2>1. next.pc = "egressPost" /\ next.feed = th.feed /\ next.sub = th.sub
    BY <1>t, ZenonT(60) DEF Thread
  <2>2. th.pc = "egressMake" /\ Go(w, next) /\ UNCHANGED <<drSubs, nextSub, subs>>
    BY <1>6 DEF MakeEgress, tables, server, ctl
  <2> HIDE DEF next
  <2>3. Confirmed(next)
    BY <1>t, <2>1, <2>2 DEF Confirmed, FeedPcs, PubPcs, SubPcs
  <2> QED
    BY <2>2, <2>3, <1>q
<1>7. CASE PostEgress(w)
  <2> DEFINE next == [th EXCEPT !.pc = "putSub"]
  <2>1. next.pc = "putSub" /\ next.feed = th.feed /\ next.sub = th.sub
    BY <1>t, ZenonT(60) DEF Thread
  <2>2. th.pc = "egressPost" /\ Go(w, next) /\ UNCHANGED <<drSubs, nextSub, subs>>
    BY <1>7 DEF PostEgress, tables, ctl
  <2> HIDE DEF next
  <2>3. Confirmed(next)
    BY <1>t, <2>1, <2>2 DEF Confirmed, FeedPcs, PubPcs, SubPcs
  <2> QED
    BY <2>2, <2>3, <1>q
<1>8. CASE PutSub(w)
  <2> DEFINE back == [th EXCEPT !.err = "ok", !.pc = "saveSub"]
  <2>1. back.pc = "saveSub" /\ back.feed = th.feed
    BY <1>t, ZenonT(60) DEF Thread
  <2>2. th.pc = "putSub" /\ subs' = Put(subs, th.sub) /\ UNCHANGED <<drSubs, nextSub>>
    BY <1>8 DEF PutSub, server, ctl
  <2>3. PICK next \in {Success, back} : Go(w, next)
    BY <1>8 DEF PutSub
  <2>4. OnServer(th.feed) /\ HasSub(th.sub.id, th.sub.feed)
    BY <1>t, <2>2 DEF Confirmed, FeedPcs, SubPcs
  <2>5. Confirmed(next)
    <3> HIDE DEF back
    <3>1. Confirmed(back)
      BY <2>1, <2>4 DEF Confirmed, FeedPcs, PubPcs, SubPcs
    <3> QED
      BY <2>3, <3>1, ReplyConfirmed DEF Success
  <2>6. RowsConfirmed
    BY <1>u, <2>2, <2>4 DEF RowsConfirmed, Put
  <2> QED
    BY <2>2, <2>3, <2>5, <2>6, <1>p
<1>9. CASE UpdateSub(w)
  <2> DEFINE spec    == TheOne(th.rq.subs)
             row(x)  == [SubOf(spec, x.feed) EXCEPT !.id = x.id]
             next(x) == [th EXCEPT !.sub = row(x), !.pc = "putSub"]
  <2>1. ASSUME NEW x \in drSubs
        PROVE  /\ next(x).pc = "putSub" /\ next(x).feed = th.feed
               /\ next(x).sub.id = x.id /\ next(x).sub.feed = x.feed
    <3>1. row(x).id = x.id /\ row(x).feed = x.feed
      BY DEF SubOf, NoSub
    <3> HIDE DEF row
    <3>2. next(x).sub = row(x) /\ next(x).pc = "putSub" /\ next(x).feed = th.feed
      BY <1>t, ZenonT(60) DEF Thread
    <3> HIDE DEF next
    <3> QED
      BY <3>1, <3>2
  <2>2. th.pc = "updateSub" /\ UNCHANGED <<subs, nextSub>>
    BY <1>9 DEF UpdateSub, tables, ctl
  <2>3. OnServer(th.feed)
    BY <1>t, <2>2 DEF Confirmed, FeedPcs
  <2>4. \/ Go(w, Reply("notFound")) /\ UNCHANGED drSubs
        \/ \E x \in drSubs, o \in Outcomes :
             /\ Redirect(x, spec.url, o)
             /\ Go(w, next(x)) \/ Go(w, Reply("bad")) \/ Go(w, Reply("fail"))
    BY <1>9 DEF UpdateSub
  <2> HIDE DEF next
  <2>5. CASE Go(w, Reply("notFound")) /\ UNCHANGED drSubs
    BY <2>2, <2>5, <1>q, ReplyConfirmed
  <2>6. ASSUME NEW x \in drSubs, NEW o \in Outcomes, Redirect(x, spec.url, o),
               Go(w, next(x)) \/ Go(w, Reply("bad")) \/ Go(w, Reply("fail"))
        PROVE  ServerInv'
    <3>1. Kept
      BY <2>6, <2>2, <1>g, <1>u, RedirectKept
    <3>2. CASE Go(w, next(x))
      <4>1. PICK n : n = next(x) /\ Go(w, n)
        BY <3>2
      <4>2. n.pc = "putSub" /\ n.feed = th.feed /\ n.sub.id = x.id /\ n.sub.feed = x.feed
        BY <2>1, <4>1
      <4>3. OnServer(n.feed)'
        BY <2>3, <4>2, <1>u DEF OnServer
      <4>4. HasSub(x.id, x.feed)'
        <5>1. x.id \in Nat /\ x.feed \in Feeds /\ HasSub(x.id, x.feed)
          BY <1>g DEF HasSub
        <5> QED
          BY <3>1, <5>1 DEF Kept
      <4>5. Confirmed(n)'
        BY <4>2, <4>3, <4>4 DEF Confirmed, HasSub, PubPcs
      <4> QED
        BY <2>2, <3>1, <4>1, <4>5, <1>r
    <3> QED
      BY <2>2, <2>6, <3>1, <3>2, <1>r, ReplyConfirmed
  <2> QED
    BY <2>4, <2>5, <2>6
<1>10. CASE RemoveSub(w)
  <2>1. PICK next \in {Success, Reply("notFound")} : Go(w, next)
    BY <1>10 DEF RemoveSub
  <2>2. Confirmed(next)
    BY ReplyConfirmed DEF Success
  <2>3. RowsConfirmed
    BY <1>u, <1>10 DEF RemoveSub, RowsConfirmed
  <2>4. UNCHANGED <<drSubs, nextSub>>
    BY <1>10 DEF RemoveSub, server, ctl
  <2> QED
    BY <2>1, <2>2, <2>3, <2>4, <1>p
<1> QED
  BY <1>1, <1>2, <1>3, <1>4, <1>5, <1>6, <1>7, <1>8, <1>9, <1>10 DEF SubNext

-----------------------------------------------------------------------------
(* A feed on the server stays there; it is worked on once it is.           *)
LEMMA OutcomeFeedKept ==
  ASSUME DrTypeInv, SubIds, NEW f \in Feeds, NEW s \in States, NEW U, NEW o,
         SetOnServer(f, s, U, o), UNCHANGED <<drSubs, nextSub>>
  PROVE  Kept /\ (o.effect => drFeeds'[f] # Absent)
<1>1. drFeeds \in [Feeds -> States \cup {Absent}] /\ s # Absent
  BY DEF DrTypeInv, DrTypeOK, States, Absent
<1>2. /\ \A g \in Feeds : drFeeds[g] # Absent => drFeeds'[g] # Absent
      /\ o.effect => drFeeds'[f] # Absent
  BY <1>1 DEF SetOnServer
<1>3. SubIds' /\ \A id \in Nat, g \in Feeds : HasSub(id, g) => HasSub(id, g)'
  BY DEF SubIds, HasSub
<1> QED
  BY <1>2, <1>3 DEF Kept, OnServer

LEMMA FeedStored ==
  ASSUME DrTypeInv, DrTypeInv', ServerInv, NEW w \in Threads, FeedNext(w)
  PROVE  ServerInv'
<1> DEFINE th == t[w]
<1>t. th \in Thread /\ th.rq \in Requests /\ DrThreadOK(th) /\ Confirmed(th)
  BY DEF DrTypeInv, DrTypeOK, ServerInv, Thread
<1>f. /\ th.feed \in Feeds /\ th.state \in States /\ th.rq.feed \in Feeds /\ th.rq.state \in States
  BY <1>t, ConstantsAssumption DEF Thread, Request
<1>s. SubIds /\ \A f \in Feeds : feeds[f] # Absent => OnServer(f)
  BY DEF ServerInv, StoredIsOnServer, OnServer
<1>u. UNCHANGED <<drSubs, nextSub, pubs, subs>>
  BY DEF FeedNext, PostFeed, GetFeed, PutFeed, StoreFeed, DeleteFeed, GetFeeds, server, tables, ctl
<1>q. ASSUME NEW next, Go(w, next), Confirmed(next), UNCHANGED <<drFeeds, feeds>>
      PROVE  ServerInv'
  BY <1>q, <1>u, QuietServerStep
<1>p. ASSUME NEW next, Go(w, next), Confirmed(next), UNCHANGED drFeeds, RowsConfirmed
      PROVE  ServerInv'
  <2>1. Confirmed(next)'
    BY <1>p, <1>u DEF Confirmed, OnServer, HasSub
  <2> QED
    BY <1>p, <1>u, <2>1, SameKept, ServerStep
<1>r. ASSUME NEW next, Go(w, next), Confirmed(next)', UNCHANGED feeds, Kept
      PROVE  ServerInv'
  BY <1>r, <1>u, SameRows, ServerStep
<1>n. ASSUME NEW next, next.pc \in {"newPubService", "subNew", "updateSub", "storeFeed"},
             OnServer(next.feed)'
      PROVE  Confirmed(next)'
  BY <1>n DEF Confirmed, PubPcs, SubPcs
<1>1. CASE PostFeed(w)
  <2> DEFINE S       == {SubOf(x, th.rq.feed) : x \in th.rq.subs}
             next(P) == [th EXCEPT !.pc = "newPubService", !.pubs = P, !.subs = S, !.state = th.rq.state]
  <2>1. \A P : next(P).pc = "newPubService" /\ next(P).feed = th.feed
    <3> HIDE DEF S
    <3> QED
      BY <1>t, ZenonT(60) DEF Thread
  <2>2. th.feed = th.rq.feed /\ UNCHANGED feeds
    BY <1>1, <1>t DEF PostFeed, DrThreadOK, tables
  <2>3. \/ Go(w, Reply("bad")) /\ UNCHANGED drFeeds
        \/ \E P \in RequestedPubs(th.rq), o \in Outcomes :
             /\ SetOnServer(th.rq.feed, th.rq.state, UsersOf(P), o)
             /\ Go(w, IF o.answer # "ok" THEN Reply("fail") ELSE next(P))
    BY <1>1 DEF PostFeed
  <2> HIDE DEF next
  <2>4. CASE Go(w, Reply("bad")) /\ UNCHANGED drFeeds
    BY <2>2, <2>4, <1>q, ReplyConfirmed
  <2>5. ASSUME NEW P, NEW o \in Outcomes,
               SetOnServer(th.rq.feed, th.rq.state, UsersOf(P), o),
               Go(w, IF o.answer # "ok" THEN Reply("fail") ELSE next(P))
        PROVE  ServerInv'
    <3>1. Kept /\ (o.effect => drFeeds'[th.rq.feed] # Absent)
      BY <2>5, <1>f, <1>s, <1>u, OutcomeFeedKept
    <3>2. CASE o.answer # "ok"
      BY <2>2, <2>5, <3>1, <3>2, <1>r, ReplyConfirmed
    <3>3. CASE o.answer = "ok"
      <4>1. PICK n : n = next(P) /\ Go(w, n)
        BY <2>5, <3>3
      <4>2. n.pc = "newPubService" /\ n.feed = th.rq.feed
        BY <2>1, <2>2, <4>1
      <4>3. OnServer(n.feed)'
        BY <3>1, <3>3, <4>2, OkHasEffect DEF OnServer
      <4> QED
        BY <2>2, <3>1, <4>1, <4>2, <4>3, <1>n, <1>r
    <3> QED
      BY <3>2, <3>3
  <2> QED
    BY <2>3, <2>4, <2>5
<1>2. CASE GetFeed(w)
  <2>1. UNCHANGED <<drFeeds, feeds>>
    BY <1>2 DEF GetFeed, server, tables
  <2>2. \A state, P : Update(th, state, P).pc = "putFeed"
    BY <1>t DEF Update, Thread
  <2>3. \A next : next.pc = "putFeed" => Confirmed(next)
    BY DEF Confirmed, FeedPcs, PubPcs, SubPcs
  <2>4. CASE feeds[th.feed] = Absent
    BY <1>2, <2>1, <2>4, <1>q, ReplyConfirmed DEF GetFeed, NoFeed
  <2>5. CASE feeds[th.feed] # Absent
    <3>1. CASE th.rq.op \in {"putFeed", "postPub"}
      BY <1>2, <2>1, <2>2, <2>3, <2>5, <3>1, <1>q DEF GetFeed
    <3>2. CASE th.rq.op = "deletePub"
      BY <1>2, <2>1, <2>2, <2>3, <2>5, <3>2, <1>q, ReplyConfirmed DEF GetFeed, WithoutPub, ServerError
    <3>3. CASE th.rq.op \notin {"putFeed", "postPub", "deletePub"}
      <4> DEFINE new(x)  == [th EXCEPT !.pc = "subNew", !.sub = x]
                 old     == [th EXCEPT !.pc = "updateSub"]
      <4>1. /\ \A x : new(x).pc = "subNew" /\ new(x).feed = th.feed
            /\ old.pc = "updateSub" /\ old.feed = th.feed
        BY <1>t, ZenonT(60) DEF Thread
      <4>2. Go(w, old) \/ \E x : Go(w, new(x))
        BY <1>2, <2>5, <3>3 DEF GetFeed
      <4>3. OnServer(th.feed)
        BY <2>5, <1>f, <1>s
      <4> HIDE DEF new, old
      <4>4. PICK next : Go(w, next) /\ next.pc \in {"subNew", "updateSub"} /\ next.feed = th.feed
        BY <4>1, <4>2
      <4>5. Confirmed(next)
        BY <4>3, <4>4 DEF Confirmed, PubPcs, SubPcs
      <4> QED
        BY <2>1, <4>4, <4>5, <1>q
    <3> QED
      BY <3>1, <3>2, <3>3
  <2> QED
    BY <2>4, <2>5
<1>3. CASE PutFeed(w)
  <2> DEFINE next == [th EXCEPT !.pc = "newPubService"]
  <2>1. next.pc = "newPubService" /\ next.feed = th.feed
    BY <1>t, ZenonT(60) DEF Thread
  <2>2. UNCHANGED feeds
    BY <1>3 DEF PutFeed, tables
  <2>3. \/ Go(w, Fails(th, "fail")) /\ UNCHANGED drFeeds
        \/ \E o \in Outcomes : /\ SetOnServer(th.feed, th.state, th.users, o)
                              /\ Go(w, IF o.answer = "ok" THEN next ELSE Fails(th, "fail"))
    BY <1>3 DEF PutFeed
  <2> HIDE DEF next
  <2>4. CASE Go(w, Fails(th, "fail")) /\ UNCHANGED drFeeds
    BY <2>2, <2>4, <1>q, ReplyConfirmed DEF Fails
  <2>5. ASSUME NEW o \in Outcomes, SetOnServer(th.feed, th.state, th.users, o),
               Go(w, IF o.answer = "ok" THEN next ELSE Fails(th, "fail"))
        PROVE  ServerInv'
    <3>1. Kept /\ (o.effect => drFeeds'[th.feed] # Absent)
      BY <2>5, <1>f, <1>s, <1>u, OutcomeFeedKept
    <3>2. CASE o.answer # "ok"
      <4>1. PICK code : Go(w, Reply(code))
        BY <2>5, <3>2 DEF Fails
      <4> QED
        BY <2>2, <3>1, <4>1, <1>r, ReplyConfirmed
    <3>3. CASE o.answer = "ok"
      <4>1. PICK n : n = next /\ Go(w, n)
        BY <2>5, <3>3
      <4>2. n.pc = "newPubService" /\ n.feed = th.feed
        BY <2>1, <4>1
      <4>3. OnServer(n.feed)'
        BY <3>1, <3>3, <4>2, OkHasEffect DEF OnServer
      <4> QED
        BY <2>2, <3>1, <4>1, <4>2, <4>3, <1>n, <1>r
    <3> QED
      BY <3>2, <3>3
  <2> QED
    BY <2>3, <2>4, <2>5
<1>4. CASE StoreFeed(w)
  <2> DEFINE next == [th EXCEPT !.pc = "removePub"]
  <2>1. next.pc = "removePub"
    BY <1>t, ZenonT(60) DEF Thread
  <2>2. /\ th.pc = "storeFeed" /\ feeds' = [feeds EXCEPT ![th.feed] = th.state]
        /\ UNCHANGED drFeeds
    BY <1>4 DEF StoreFeed, server
  <2>3. OnServer(th.feed)
    BY <1>t, <2>2 DEF Confirmed, FeedPcs
  <2>4. feeds \in [Feeds -> States \cup {Absent}]
    BY DEF DrTypeInv, DrTypeOK
  <2>5. RowsConfirmed
    BY <1>u, <2>2, <2>3, <2>4 DEF RowsConfirmed
  <2>6. PICK n \in {Success, next} : Go(w, n)
    BY <1>4 DEF StoreFeed
  <2> HIDE DEF next
  <2>7. Confirmed(n)
    <3>1. CASE n = next
      BY <2>1, <3>1 DEF Confirmed, FeedPcs, PubPcs, SubPcs
    <3> QED
      BY <2>6, <3>1, ReplyConfirmed DEF Success
  <2> QED
    BY <2>2, <2>5, <2>6, <2>7, <1>p
<1>5. CASE DeleteFeed(w)
  <2>1. /\ feeds' = [feeds EXCEPT ![th.rq.feed] = Absent] /\ Go(w, Success)
        /\ UNCHANGED drFeeds
    BY <1>5 DEF DeleteFeed, server
  <2>2. feeds \in [Feeds -> States \cup {Absent}]
    BY DEF DrTypeInv, DrTypeOK
  <2>3. RowsConfirmed
    BY <1>u, <2>1, <2>2 DEF RowsConfirmed
  <2> QED
    BY <2>1, <2>3, <1>p, ReplyConfirmed DEF Success
<1>6. CASE GetFeeds(w)
  <2>1. Go(w, Success) /\ UNCHANGED <<drFeeds, feeds>>
    BY <1>6 DEF GetFeeds, server, tables
  <2> QED
    BY <2>1, <1>q, ReplyConfirmed DEF Success
<1> QED
  BY <1>1, <1>2, <1>3, <1>4, <1>5, <1>6 DEF FeedNext

-----------------------------------------------------------------------------
LEMMA ServerInvInit ==
  ASSUME Init
  PROVE  ServerInv
<1>1. \A w \in Threads : Confirmed(t[w])
  BY DEF Init, Confirmed, Idle, FeedPcs, PubPcs, SubPcs
<1>2. StoredIsOnServer /\ SubIds
  BY DEF Init, StoredIsOnServer, SubIds
<1> QED
  BY <1>1, <1>2 DEF ServerInv

LEMMA ServerInvNext ==
  ASSUME DrTypeInv, ServerInv, [Next]_vars
  PROVE  ServerInv'
<1>0. DrTypeInv'
  BY DrNextType
<1>1. CASE UNCHANGED vars
  BY <1>1 DEF vars, tables, server, ctl, ServerInv, StoredIsOnServer, SubIds, Confirmed, OnServer, HasSub
<1>2. ASSUME NEW w \in Threads, Start(w)
      PROVE  ServerInv'
  <2> DEFINE first(r) == [Idle EXCEPT !.pc = FirstStep(r.op), !.rq = r, !.feed = r.feed]
  <2>1. PICK r \in Requests : Go(w, first(r))
    BY <1>2 DEF Start
  <2>2. first(r).pc = FirstStep(r.op)
    BY DEF Idle
  <2>3. FirstStep(r.op) \notin FeedPcs \cup PubPcs \cup SubPcs
    BY DEF FirstStep, FeedPcs, PubPcs, SubPcs
  <2> HIDE DEF first
  <2>4. Confirmed(first(r))
    BY <2>2, <2>3 DEF Confirmed
  <2>5. UNCHANGED <<drFeeds, drSubs, nextSub, feeds, pubs, subs>>
    BY <1>2 DEF Start, server, tables
  <2> QED
    BY <1>0, <2>1, <2>4, <2>5, QuietServerStep
<1>3. ASSUME NEW w \in Threads, Serve(w)
      PROVE  ServerInv'
  BY <1>0, <1>3, FeedStored, PubStored, SubStored, NodeStored DEF Serve
<1>4. CASE ExitProcess
  BY <1>4 DEF ExitProcess, server, tables, ServerInv, StoredIsOnServer, SubIds, Confirmed, Idle,
              FeedPcs, PubPcs, SubPcs
<1>5. CASE Finished
  BY <1>1, <1>5 DEF Finished
<1> QED
  BY <1>1, <1>2, <1>3, <1>4, <1>5 DEF Next

(* A feed with a row is a feed of the server, a subscriber with a row has  *)
(* the server's subscription of its id to its feed, and without PUT        *)
(* dr_pubs a publisher with a row is one of a feed of the server: with any *)
(* number of threads, whatever calls are refused or lost, and wherever the *)
(* process is ended (FeedService.addFeed, savePubs, DR_SubService          *)
(* .addDr_Sub).                                                            *)
THEOREM StoredIsAlwaysOnServer == Spec => []StoredIsOnServer
<1>1. Init => DrTypeInv /\ ServerInv
  BY DrInitType, ServerInvInit
<1>2. DrTypeInv /\ ServerInv /\ [Next]_vars => (DrTypeInv /\ ServerInv)'
  BY DrNextType, ServerInvNext
<1>3. DrTypeInv /\ ServerInv => StoredIsOnServer
  BY DEF ServerInv
<1> QED
  BY <1>1, <1>2, <1>3, PTL DEF Spec

-----------------------------------------------------------------------------
(* A publisher that is about to be stored as VALID has its route.  One     *)
(* request is served at a time and every answer arrives.                   *)

(* The connection is set up for the publisher worked on when its route is  *)
(* asked for.                                                              *)
RouteOf(th) == <<th.pub.feed, th.pub.user, th.at>>
SetUpFor(th) ==
  [feed |-> th.pub.feed, user |-> th.pub.user, at |-> th.at, ready |-> TRUE]
RouteOK(th, prov, routes) ==
  /\ th.pc = "ingressPost" => prov = SetUpFor(th)
  /\ th.pc = "putPub" /\ th.pub.status = "VALID" /\ th.at # {} => RouteOf(th) \in routes
RouteInv == \A w \in Threads : RouteOK(t[w], pubProv, ingress)

LEMMA RouteAsked ==
  ASSUME DrTypeInv, AnswersArrive, RouteInv, NEW w \in Threads, PostIngress(w)
  PROVE  RouteOK(t'[w], pubProv', ingress')
<1> DEFINE th == t[w]
           u  == t'[w]
           asked == <<pubProv.feed, pubProv.user, pubProv.at>>
<1>1. /\ th.pc = "ingressPost" /\ u.pc = "putPub" /\ u.at = th.at
      /\ u.pub.feed = th.pub.feed /\ u.pub.user = th.pub.user
      /\ \/ ~pubProv.ready
         \/ \E o \in Outcomes :
              /\ ingress' = IF o.effect THEN ingress \cup {asked} ELSE ingress
              /\ o.answer = "fail" => u.pub.status = "INVALID"
  BY PostIngressStep
<1>2. pubProv = SetUpFor(th)
  BY <1>1 DEF RouteInv, RouteOK
<1>3. pubProv.ready = TRUE /\ asked = RouteOf(u)
  BY <1>1, <1>2 DEF SetUpFor, RouteOf
<1>4. PICK o \in Outcomes :
        /\ ingress' = IF o.effect THEN ingress \cup {asked} ELSE ingress
        /\ o.answer = "fail" => u.pub.status = "INVALID"
  BY <1>1, <1>3
<1>5. (o.effect = TRUE /\ o.answer = "ok") \/ (o.effect = FALSE /\ o.answer = "fail")
  BY Arrives
<1> HIDE DEF th, u, asked
<1>6. RouteOf(u) \in ingress' \/ u.pub.status = "INVALID"
  BY <1>3, <1>4, <1>5
<1> QED
  BY <1>1, <1>6 DEF RouteOK, u

(* Before a publisher is stored as VALID, the ingress route to the nodes   *)
(* of its location was made on the server, when there are such nodes:      *)
(* while requests come one at a time and every answer arrives, also after  *)
(* a restart (DR_PubService.addDr_Pub, addIngressRoute).                   *)
THEOREM ValidPubsAreRouted ==
  ASSUME OneThread, AnswersArrive
  PROVE  Spec => []ValidPubIsRouted
<1>1. Init => RouteInv
  BY DEF Init, RouteInv, RouteOK, Idle
<1>2. DrTypeInv /\ RouteInv /\ [Next]_vars => RouteInv'
  <2> SUFFICES ASSUME DrTypeInv, RouteInv, [Next]_vars PROVE RouteInv'
    OBVIOUS
  <2>1. ASSUME NEW w \in Threads, RouteOK(t'[w], pubProv', ingress') PROVE RouteInv'
    BY <2>1 DEF RouteInv, OneThread
  <2>2. ASSUME NEW w \in Threads, t'[w].pc \notin {"ingressPost", "putPub"} PROVE RouteInv'
    BY <2>1, <2>2 DEF RouteOK
  <2>3. ASSUME NEW w \in Threads, Start(w) PROVE RouteInv'
    <3>1. t'[w].pc = FirstStep(t'[w].rq.op)
      BY <2>3, StartDr
    <3> QED
      BY <2>2, <3>1 DEF FirstStep
  <2>4. ASSUME NEW w \in Threads, FeedNext(w) PROVE RouteInv'
    <3>1. t'[w].pc \notin {"ingressPost", "putPub"}
      BY <2>4, PostFeedStep, GetFeedStep, PutFeedStep, StoreFeedStep, OtherFeedStep DEF FeedNext
    <3> QED
      BY <2>2, <3>1
  <2>5. ASSUME NEW w \in Threads, PubNext(w) PROVE RouteInv'
    <3>1. CASE NewPubService(w) \/ PutPub(w) \/ FindPub(w) \/ WritePub(w) \/ RemovePub(w)
      <4>1. t'[w].pc \notin {"ingressPost", "putPub"}
        BY <3>1, NewPubServiceStep, PutPubStep, FindPubStep, WritePubStep, RemovePubStep
      <4> QED
        BY <2>2, <4>1
    <3>2. CASE SavePub(w)
      <4>1. t'[w].pc # "ingressPost" /\ (t'[w].pc = "putPub" => t'[w].at = {})
        BY <3>2, SavePubStep
      <4> QED
        BY <2>1, <4>1 DEF RouteOK
    <3>3. CASE MakeIngress(w)
      <4>1. /\ t'[w].pc = "ingressPost" /\ SamePub(t[w], t'[w]) /\ pubProv' = SetUpFor(t[w])
        BY <3>3, MakeIngressStep DEF OnlyPc, SetUpFor
      <4> QED
        BY <2>1, <4>1 DEF RouteOK, SamePub, SetUpFor
    <3>4. CASE PostIngress(w)
      BY <2>1, <3>4, RouteAsked
    <3> QED
      BY <2>5, <3>1, <3>2, <3>3, <3>4 DEF PubNext
  <2>6. ASSUME NEW w \in Threads, SubNext(w) PROVE RouteInv'
    <3>1. t'[w].pc \notin {"ingressPost", "putPub"}
      BY <2>6, SubSteps
    <3> QED
      BY <2>2, <3>1
  <2>7. ASSUME NEW w \in Threads, NodeNext(w) PROVE RouteInv'
    <3>1. t'[w].pc \notin {"ingressPost", "putPub"}
      BY <2>7, NodePcStep
    <3> QED
      BY <2>2, <3>1
  <2>8. CASE ExitProcess
    BY <2>8 DEF ExitProcess, RouteInv, RouteOK, Idle
  <2>9. CASE UNCHANGED vars
    BY <2>9 DEF vars, server, statics, RouteInv
  <2> QED
    BY <2>3, <2>4, <2>5, <2>6, <2>7, <2>8, <2>9 DEF Next, Serve, Finished
<1>3. RouteInv => ValidPubIsRouted
  BY DEF RouteInv, RouteOK, RouteOf, ValidPubIsRouted
<1> QED
  BY <1>1, <1>2, <1>3, DrInitType, DrNextType, PTL DEF Spec

-----------------------------------------------------------------------------
(* A stored feed is on the server as its rows say.  One request is served  *)
(* at a time, every answer arrives, the process is not ended, and no PUT   *)
(* dr_pubs writes a row the server is not told of.                         *)
RowsAreSaved == \A r \in Requests : r.op # "putPub"

(* The requests that send a feed to the server, and their steps from there *)
(* on: the publishers and subscribers are saved, then the row is stored.   *)
FeedOps == {"postFeed", "putFeed", "postPub", "deletePub"}
MakePub == {"ingressMake", "ingressPost", "putPub"}
MakeSub == {"subNew", "subMake", "subPost", "egressNodes", "egressMake", "egressPost", "putSub"}
Saving  == {"newPubService", "savePub"} \cup MakePub
Working == Saving \cup {"saveSub"} \cup MakeSub \cup {"storeFeed", "removePub"}
Works(th) == th.rq.op \in FeedOps /\ th.pc \in Working

(* The rows P of the feed worked on that stay, and what is yet to be saved.*)
Stay(th, P) == {p \in P : p.feed = th.feed /\ (th.rq.op = "deletePub" => p.id # th.rq.id)}
Due(th)     == th.pubs \cup IF th.pc \in MakePub THEN {th.pub} ELSE {}
Unsaved(p, th) == p.id = 0 /\ th.rq.op \in {"postFeed", "postPub"}

(* A publisher's id was given by nextPub, and to one row.                  *)
PubIds(P, next) ==
  /\ \A p \in P : p.id # 0 /\ p.id < next
  /\ \A p, q \in P : p.id = q.id => p = q

Synced(f, F, P, sF, sU) ==
  LET rows == {p \in P : p.feed = f} IN
  sF[f] = F[f] /\ sU[f] = UsersOf(rows) /\ rows # {}

(* Which requests reach a step; the row a DELETE dr_pubs is to remove.     *)
OpOK(th) ==
  /\ th.pc \in Working \ MakeSub => th.rq.op \in FeedOps
  /\ th.pc = "removePub" => th.rq.op = "deletePub"
  /\ th.pc \in MakeSub => th.rq.op \in {"postFeed", "postSub", "putSub"}
  /\ th.pc \in MakePub => th.rq.op \in {"postFeed", "postPub"}
  /\ th.pc = "putFeed" => th.rq.op \in FeedOps \ {"postFeed"}
  /\ th.pc = "updateSub" => th.rq.op \in {"postSub", "putSub"}
  /\ th.pc = "removeSub" => th.rq.op = "deleteSub"
TargetOK(th, P) ==
  th.rq.op = "deletePub" /\ th.pc \in {"getFeed", "putFeed"} \cup Working =>
    \E p \in P : p.id = th.rq.id /\ p.feed = th.feed

(* What PUT feeds is about to send; nothing of an update fails once it has *)
(* been sent, since every subscriber has its row.                          *)
SentOK(th, P) ==
  th.pc = "putFeed" =>
    /\ th.users = UsersOf(th.pubs) /\ th.pubs # {}
    /\ Stay(th, P) \subseteq th.pubs
    /\ \A p \in th.pubs : p \in Stay(th, P) \/ (Unsaved(p, th) /\ th.rq.op = "postPub")
SubsOK(th, S) ==
  th.rq.op # "postFeed" /\ (Works(th) \/ th.pc = "putFeed") => th.subs \subseteq S

(* The server has the state that will be stored, and the users of the rows *)
(* there are and of those still to come.                                   *)
StateOK(th, F, sF) ==
  /\ th.pc = "putFeed" => F[th.feed] # Absent
  /\ Works(th) =>
       /\ th.rq.op = "postFeed" => F[th.feed] = Absent
       /\ sF[th.feed] = IF th.pc = "removePub" THEN F[th.feed] ELSE th.state
UsersOK(th, P, sU) ==
  Works(th) => sU[th.feed] = UsersOf(Stay(th, P) \cup Due(th)) /\ sU[th.feed] # {}
PubsOK(th, P, next) ==
  Works(th) =>
    /\ th.pc \notin Saving => th.pubs = {}
    /\ \A p \in th.pubs : p \in Stay(th, P) \/ Unsaved(p, th)
    /\ th.pc \in MakePub => /\ th.pub.feed = th.feed /\ th.pub.id # 0 /\ th.pub.id < next
                            /\ ~Has(P, th.pub.id)

FeedOK(th, F, P, S, sF, sU, next) ==
  /\ OpOK(th) /\ TargetOK(th, P) /\ SentOK(th, P) /\ SubsOK(th, S)
  /\ StateOK(th, F, sF) /\ UsersOK(th, P, sU) /\ PubsOK(th, P, next)
FeedInv ==
  /\ PubIds(pubs, nextPub)
  /\ \A f \in Feeds : feeds[f] # Absent =>
       \/ Synced(f, feeds, pubs, drFeeds, drUsers)
       \/ \E w \in Threads : Works(t[w]) /\ t[w].feed = f
  /\ \A w \in Threads : FeedOK(t[w], feeds, pubs, subs, drFeeds, drUsers, nextPub)

(* Every stored feed but the one worked on is in step with the server.     *)
AllSynced(th, F, P, sF, sU) ==
  \A f \in Feeds : F[f] # Absent => Synced(f, F, P, sF, sU) \/ (Works(th) /\ th.feed = f)

-----------------------------------------------------------------------------
LEMMA FeedStep ==
  ASSUME OneThread, NEW w \in Threads, PubIds(pubs', nextPub'),
         AllSynced(t'[w], feeds', pubs', drFeeds', drUsers'),
         FeedOK(t'[w], feeds', pubs', subs', drFeeds', drUsers', nextPub')
  PROVE  FeedInv'
  BY DEF FeedInv, OneThread, AllSynced

LEMMA FeedSplit ==
  ASSUME OneThread, FeedInv, NEW w \in Threads
  PROVE  /\ PubIds(pubs, nextPub) /\ AllSynced(t[w], feeds, pubs, drFeeds, drUsers)
         /\ FeedOK(t[w], feeds, pubs, subs, drFeeds, drUsers, nextPub)
  BY DEF FeedInv, OneThread, AllSynced

(* A step that leaves the rows and the server's feeds alone, after which   *)
(* the request is not at work: it was not before, or is a POST of a feed   *)
(* that has no row.                                                        *)
LEMMA FeedRests ==
  ASSUME DrTypeInv, OneThread, FeedInv, NEW w \in Threads,
         UNCHANGED <<feeds, pubs, drFeeds, drUsers, nextPub>>,
         Works(t[w]) => t[w].rq.op = "postFeed",
         ~Works(t'[w]), t'[w].pc # "putFeed",
         OpOK(t'[w]), TargetOK(t'[w], pubs)
  PROVE  FeedInv'
<1> DEFINE th == t[w]
           u  == t'[w]
<1>1. /\ PubIds(pubs, nextPub) /\ AllSynced(th, feeds, pubs, drFeeds, drUsers)
      /\ FeedOK(th, feeds, pubs, subs, drFeeds, drUsers, nextPub)
  BY FeedSplit
<1>2. Works(th) => feeds[th.feed] = Absent
  BY <1>1 DEF FeedOK, StateOK
<1>3. AllSynced(u, feeds, pubs, drFeeds, drUsers)
  BY <1>1, <1>2 DEF AllSynced
<1>4. FeedOK(u, feeds, pubs, subs', drFeeds, drUsers, nextPub)
  BY DEF FeedOK, SentOK, SubsOK, StateOK, UsersOK, PubsOK
<1> HIDE DEF th, u
<1> QED
  BY <1>1, <1>3, <1>4, FeedStep DEF u

(* The step of a request that ends, and of one that reaches no such step.  *)
LEMMA FeedEnds ==
  ASSUME DrTypeInv, OneThread, FeedInv, NEW w \in Threads,
         UNCHANGED <<feeds, pubs, drFeeds, drUsers, nextPub>>,
         Works(t[w]) => t[w].rq.op = "postFeed",
         \/ t'[w].pc \notin Working \cup {"getFeed", "putFeed", "updateSub", "removeSub"}
         \/ t'[w].pc = "getFeed" /\ t'[w].rq.op # "deletePub"
         \/ t'[w].pc = "removeSub" /\ t'[w].rq.op = "deleteSub"
  PROVE  FeedInv'
<1>1. ~Works(t'[w]) /\ t'[w].pc # "putFeed" /\ OpOK(t'[w]) /\ TargetOK(t'[w], pubs)
  BY DEF Works, OpOK, TargetOK, Working, Saving, MakePub, MakeSub
<1> QED
  BY <1>1, FeedRests

(* A step within the saving of a feed.                                     *)
LEMMA FeedMoves ==
  ASSUME DrTypeInv, OneThread, FeedInv, NEW w \in Threads,
         UNCHANGED <<feeds, pubs, drFeeds, drUsers>>,
         Works(t[w]), Works(t'[w]), SameFeed(t[w], t'[w]),
         "removePub" \notin {t[w].pc, t'[w].pc},
         PubIds(pubs, nextPub'), OpOK(t'[w]), SubsOK(t'[w], subs'), PubsOK(t'[w], pubs, nextPub'),
         UsersOf(Stay(t[w], pubs) \cup Due(t'[w])) = UsersOf(Stay(t[w], pubs) \cup Due(t[w]))
  PROVE  FeedInv'
<1> DEFINE th == t[w]
           u  == t'[w]
<1>1. /\ PubIds(pubs, nextPub) /\ AllSynced(th, feeds, pubs, drFeeds, drUsers)
      /\ FeedOK(th, feeds, pubs, subs, drFeeds, drUsers, nextPub)
  BY FeedSplit
<1>2. u.rq = th.rq /\ u.feed = th.feed /\ u.state = th.state
  BY DEF SameFeed
<1>3. AllSynced(u, feeds, pubs, drFeeds, drUsers)
  BY <1>1, <1>2 DEF AllSynced
<1>4. TargetOK(u, pubs)
  BY <1>1, <1>2 DEF FeedOK, TargetOK, Works
<1>5. SentOK(u, pubs)
  BY DEF SentOK, Works, Working, Saving, MakePub, MakeSub
<1>6. StateOK(u, feeds, drFeeds)
  BY <1>1, <1>2 DEF FeedOK, StateOK, Works, Working, Saving, MakePub, MakeSub
<1>7. Stay(u, pubs) = Stay(th, pubs)
  BY <1>2 DEF Stay
<1>8. UsersOK(u, pubs, drUsers)
  BY <1>1, <1>2, <1>7 DEF FeedOK, UsersOK
<1> HIDE DEF th, u
<1>9. FeedOK(u, feeds, pubs, subs', drFeeds, drUsers, nextPub')
  BY <1>4, <1>5, <1>6, <1>8 DEF FeedOK, u
<1> QED
  BY <1>3, <1>9, FeedStep DEF u

-----------------------------------------------------------------------------
(* The users of a set of publishers.                                       *)
LEMMA UsersOfCup ==
  ASSUME NEW P, NEW Q
  PROVE  UsersOf(P \cup Q) = UsersOf(P) \cup UsersOf(Q)
  BY DEF UsersOf

LEMMA UsersOfOne ==
  ASSUME NEW p
  PROVE  UsersOf({p}) = {p.user}
  BY DEF UsersOf

LEMMA UsersOfSome ==
  ASSUME NEW P, P # {}
  PROVE  UsersOf(P) # {}
  BY DEF UsersOf

LEMMA PubOfFields ==
  ASSUME NEW s \in PubSpec, NEW f \in Feeds
  PROVE  PubOf(s, f).id = 0 /\ PubOf(s, f).feed = f
<1>1. NoPub \in Pub /\ NoPub.id = 0
  BY NoPubType DEF NoPub
<1> HIDE DEF NoPub
<1> QED
  BY <1>1 DEF PubOf, Pub

(* The steps of publishers.                                                *)
LEMMA SavePubSynced ==
  ASSUME DrTypeInv, OneThread, FeedInv, NEW w \in Threads, SavePub(w)
  PROVE  FeedInv'
<1> DEFINE th == t[w]
           u  == t'[w]
           new(p) == [p EXCEPT !.id = nextPub, !.feed = th.feed, !.status = "VALID"]
           S  == Stay(th, pubs)
<1>1. /\ th.pc = "savePub" /\ SameFeed(th, u) /\ u.subs = th.subs /\ UNCHANGED <<tables, server>>
      /\ \/ u.pc = "saveSub" /\ th.pubs = {} /\ u.pubs = {} /\ nextPub' = nextPub
         \/ \E p \in th.pubs :
              /\ u.pubs = th.pubs \ {p}
              /\ \/ u.pc = "savePub" /\ Has(pubs, p.id) /\ nextPub' = nextPub
                 \/ /\ ~Has(pubs, p.id) /\ nextPub' = nextPub + 1
                    /\ u.pub = new(p) /\ u.at = NodesAt(p.loc)
                    /\ u.pc = IF u.at = {} THEN "putPub" ELSE "ingressMake"
  BY SavePubStep
<1>2. /\ PubIds(pubs, nextPub)
      /\ OpOK(th) /\ SubsOK(th, subs) /\ PubsOK(th, pubs, nextPub)
  BY FeedSplit DEF FeedOK
<1>3. Works(th)
  BY <1>1, <1>2 DEF OpOK, Works, Working, Saving, MakeSub
<1>4. /\ th.pubs \subseteq Pub /\ pubs \subseteq Pub /\ nextPub \in Nat \ {0}
      /\ th \in Thread /\ pubs \subseteq Pub
  BY DEF DrTypeInv, DrTypeOK, Thread
<1>5. u.rq = th.rq /\ u.feed = th.feed /\ UNCHANGED <<feeds, pubs, subs, drFeeds, drUsers>>
  BY <1>1 DEF SameFeed, tables, server
<1>6. S = Stay(u, pubs)
  BY <1>5 DEF Stay
<1>7. Due(th) = th.pubs
  BY <1>1 DEF Due, MakePub
<1> DEFINE Moved == /\ Works(u) /\ u.pc # "removePub" /\ PubIds(pubs, nextPub') /\ OpOK(u)
                    /\ SubsOK(u, subs') /\ PubsOK(u, pubs, nextPub')
                    /\ UsersOf(S \cup Due(u)) = UsersOf(S \cup Due(th))
<1>8. ASSUME u.pc = "saveSub", th.pubs = {}, u.pubs = {}, nextPub' = nextPub PROVE Moved
  <2>1. Works(u) /\ OpOK(u) /\ u.pc # "removePub"
    BY <1>2, <1>3, <1>5, <1>8 DEF Works, OpOK, Working, Saving, MakePub, MakeSub
  <2>2. SubsOK(u, subs') /\ PubsOK(u, pubs, nextPub')
    BY <1>1, <1>2, <1>3, <1>5, <1>8 DEF SubsOK, PubsOK, Saving, MakePub
  <2>3. Due(u) = {}
    BY <1>8 DEF Due, MakePub
  <2> QED
    BY <1>2, <1>7, <1>8, <2>1, <2>2, <2>3
<1>9. ASSUME NEW p \in th.pubs, u.pubs = th.pubs \ {p}, u.pc = "savePub", Has(pubs, p.id),
             nextPub' = nextPub
      PROVE  Moved
  <2>1. Works(u) /\ OpOK(u) /\ u.pc # "removePub"
    BY <1>2, <1>3, <1>5, <1>9 DEF Works, OpOK, Working, Saving, MakePub, MakeSub
  <2>2. p \in S
    BY <1>2, <1>3, <1>9 DEF PubsOK, PubIds, Unsaved, Has
  <2>3. SubsOK(u, subs')
    BY <1>1, <1>2, <1>3, <1>5 DEF SubsOK
  <2>4. \A q \in u.pubs : q \in Stay(u, pubs) \/ Unsaved(q, u)
    BY <1>2, <1>3, <1>5, <1>6, <1>9 DEF PubsOK, Unsaved
  <2>5. PubsOK(u, pubs, nextPub')
    BY <1>9, <2>4 DEF PubsOK, Saving, MakePub
  <2>6. Due(u) = th.pubs \ {p}
    BY <1>9 DEF Due, MakePub
  <2>7. S \cup Due(u) = S \cup Due(th)
    BY <1>7, <2>2, <2>6
  <2> QED
    BY <1>2, <1>9, <2>1, <2>3, <2>5, <2>7
<1>10. ASSUME NEW p \in th.pubs, u.pubs = th.pubs \ {p}, ~Has(pubs, p.id), nextPub' = nextPub + 1,
              u.pub = new(p), u.pc \in {"putPub", "ingressMake"}
       PROVE  Moved
  <2>1. p \notin S
    BY <1>10 DEF Has, Stay
  <2>2. Unsaved(p, th)
    BY <1>2, <1>3, <2>1 DEF PubsOK
  <2>3. Works(u) /\ OpOK(u) /\ u.pc # "removePub"
    BY <1>2, <1>3, <1>5, <1>10, <2>2 DEF Works, OpOK, Working, Saving, MakePub, MakeSub, Unsaved
  <2>4. SubsOK(u, subs')
    BY <1>1, <1>2, <1>3, <1>5 DEF SubsOK
  <2>5. u.pub.id = nextPub /\ u.pub.feed = th.feed /\ u.pub.user = p.user
    BY <1>4, <1>10 DEF Pub
  <2>6. \A q \in u.pubs : q \in Stay(u, pubs) \/ Unsaved(q, u)
    BY <1>2, <1>3, <1>5, <1>6, <1>10 DEF PubsOK, Unsaved
  <2>7. ~Has(pubs, nextPub) /\ PubIds(pubs, nextPub + 1)
    BY <1>2, <1>4 DEF Has, PubIds, Pub
  <2>8. PubsOK(u, pubs, nextPub')
    BY <1>4, <1>5, <1>10, <2>5, <2>6, <2>7 DEF PubsOK, Saving, MakePub
  <2>9. Due(u) = (th.pubs \ {p}) \cup {u.pub}
    BY <1>10 DEF Due, MakePub
  <2>10. UsersOf(S \cup Due(u)) = UsersOf(S \cup (th.pubs \ {p})) \cup {p.user}
    <3>1. S \cup Due(u) = (S \cup (th.pubs \ {p})) \cup {u.pub}
      BY <2>9
    <3>2. UsersOf({u.pub}) = {p.user}
      BY <2>5, UsersOfOne
    <3> HIDE DEF S, u, th, Moved
    <3>3. UsersOf((S \cup (th.pubs \ {p})) \cup {u.pub})
             = UsersOf(S \cup (th.pubs \ {p})) \cup UsersOf({u.pub})
      BY UsersOfCup
    <3> QED
      BY <3>1, <3>2, <3>3
  <2>11. UsersOf(S \cup Due(th)) = UsersOf(S \cup (th.pubs \ {p})) \cup {p.user}
    <3>1. S \cup Due(th) = (S \cup (th.pubs \ {p})) \cup {p}
      BY <1>7
    <3>2. UsersOf({p}) = {p.user}
      BY UsersOfOne
    <3> HIDE DEF S, u, th, Moved
    <3>3. UsersOf((S \cup (th.pubs \ {p})) \cup {p})
             = UsersOf(S \cup (th.pubs \ {p})) \cup UsersOf({p})
      BY UsersOfCup
    <3> QED
      BY <3>1, <3>2, <3>3
  <2> QED
    BY <1>10, <2>3, <2>4, <2>7, <2>8, <2>10, <2>11
<1>11. Moved
  <2> HIDE DEF Moved, new, u, th
  <2>1. CASE u.pc = "saveSub" /\ th.pubs = {} /\ u.pubs = {} /\ nextPub' = nextPub
    BY <1>8, <2>1
  <2>2. CASE \E p \in th.pubs :
              /\ u.pubs = th.pubs \ {p}
              /\ \/ u.pc = "savePub" /\ Has(pubs, p.id) /\ nextPub' = nextPub
                 \/ /\ ~Has(pubs, p.id) /\ nextPub' = nextPub + 1
                    /\ u.pub = new(p) /\ u.at = NodesAt(p.loc)
                    /\ u.pc = IF u.at = {} THEN "putPub" ELSE "ingressMake"
    BY <1>9, <1>10, <2>2
  <2> QED
    BY <1>1, <2>1, <2>2
<1> QED
  BY <1>1, <1>3, <1>5, <1>11, FeedMoves

LEMMA PutPubSynced ==
  ASSUME DrTypeInv, OneThread, FeedInv, NEW w \in Threads, PutPub(w)
  PROVE  FeedInv'
<1> DEFINE th == t[w]
           u  == t'[w]
           p  == th.pub
           S  == Stay(th, pubs)
<1>1. /\ th.pc = "putPub" /\ u.pc = "savePub" /\ u.rq = th.rq /\ u.feed = th.feed
      /\ u.state = th.state /\ u.pubs = th.pubs /\ u.subs = th.subs
      /\ pubs' = Put(pubs, p) /\ UNCHANGED <<feeds, subs, drFeeds, drUsers, nextPub>>
  BY PutPubStep DEF OnlyPc, SameFeed, SameToSave, server
<1>2. /\ PubIds(pubs, nextPub) /\ AllSynced(th, feeds, pubs, drFeeds, drUsers)
      /\ OpOK(th) /\ SubsOK(th, subs) /\ StateOK(th, feeds, drFeeds)
      /\ UsersOK(th, pubs, drUsers) /\ PubsOK(th, pubs, nextPub)
  BY FeedSplit DEF FeedOK
<1>3. th.rq.op \in {"postFeed", "postPub"} /\ Works(th) /\ Works(u) /\ OpOK(u)
  BY <1>1, <1>2 DEF OpOK, Works, Working, Saving, MakePub, MakeSub, FeedOps
<1>4. p.feed = th.feed /\ p.id # 0 /\ p.id < nextPub /\ ~Has(pubs, p.id)
  BY <1>1, <1>2, <1>3 DEF PubsOK, MakePub
<1>5. pubs' = pubs \cup {p}
  BY <1>1, <1>4 DEF Put, Has
<1>6. PubIds(pubs', nextPub')
  BY <1>1, <1>2, <1>4, <1>5 DEF PubIds, Has
<1>7. Stay(u, pubs') = S \cup {p}
  BY <1>1, <1>3, <1>4, <1>5 DEF Stay
<1>8. Due(th) = th.pubs \cup {p} /\ Due(u) = th.pubs
  BY <1>1 DEF Due, MakePub
<1>9. Stay(u, pubs') \cup Due(u) = S \cup Due(th)
  BY <1>7, <1>8
<1>10. AllSynced(u, feeds', pubs', drFeeds', drUsers')
  <2> SUFFICES ASSUME NEW f \in Feeds, feeds[f] # Absent, f # th.feed
               PROVE  Synced(f, feeds, pubs', drFeeds, drUsers)
    BY <1>1, <1>3 DEF AllSynced
  <2>1. Synced(f, feeds, pubs, drFeeds, drUsers)
    BY <1>2 DEF AllSynced
  <2>2. {q \in pubs' : q.feed = f} = {q \in pubs : q.feed = f}
    BY <1>4, <1>5
  <2> QED
    BY <2>1, <2>2 DEF Synced
<1>11. TargetOK(u, pubs') /\ SentOK(u, pubs') /\ SubsOK(u, subs') /\ StateOK(u, feeds', drFeeds')
  BY <1>1, <1>2, <1>3 DEF TargetOK, SentOK, SubsOK, StateOK
<1>12. UsersOK(u, pubs', drUsers')
  BY <1>1, <1>2, <1>3, <1>9 DEF UsersOK
<1>13. PubsOK(u, pubs', nextPub')
  <2>1. \A q \in u.pubs : q \in Stay(u, pubs') \/ Unsaved(q, u)
    BY <1>1, <1>2, <1>3, <1>7 DEF PubsOK, Unsaved
  <2> QED
    BY <1>1, <2>1 DEF PubsOK, Saving, MakePub
<1> HIDE DEF th, u, p, S
<1>14. FeedOK(u, feeds', pubs', subs', drFeeds', drUsers', nextPub')
  BY <1>3, <1>11, <1>12, <1>13 DEF FeedOK
<1> QED
  BY <1>6, <1>10, <1>14, FeedStep DEF u

LEMMA RouteSynced ==
  ASSUME DrTypeInv, OneThread, FeedInv, NEW w \in Threads,
         NewPubService(w) \/ MakeIngress(w) \/ PostIngress(w)
  PROVE  FeedInv'
<1> DEFINE th == t[w]
           u  == t'[w]
<1>1. /\ SameFeed(th, u) /\ SameToSave(th, u)
      /\ UNCHANGED <<feeds, pubs, subs, drFeeds, drUsers, nextPub>>
      /\ \/ th.pc = "newPubService" /\ u.pc = "savePub"
         \/ /\ <<th.pc, u.pc>> \in {<<"ingressMake", "ingressPost">>, <<"ingressPost", "putPub">>}
            /\ u.pub.id = th.pub.id /\ u.pub.feed = th.pub.feed /\ u.pub.user = th.pub.user
  <2>1. CASE NewPubService(w)
    BY <2>1, NewPubServiceStep DEF OnlyPc, tables, server
  <2>2. CASE MakeIngress(w)
    BY <2>2, MakeIngressStep DEF OnlyPc, SamePub, tables, server
  <2>3. CASE PostIngress(w)
    <3>1. /\ th.pc = "ingressPost" /\ u.pc = "putPub" /\ SameFeed(th, u) /\ SameToSave(th, u)
          /\ u.pub.id = th.pub.id /\ u.pub.feed = th.pub.feed /\ u.pub.user = th.pub.user
          /\ UNCHANGED <<tables, drFeeds, drUsers, drSubs, drNodes, drStatic, nextPub>>
      BY <2>3, PostIngressStep
    <3> QED
      BY <3>1 DEF tables
  <2> QED
    BY <2>1, <2>2, <2>3
<1>2. /\ PubIds(pubs, nextPub)
      /\ OpOK(th) /\ SubsOK(th, subs) /\ PubsOK(th, pubs, nextPub)
  BY FeedSplit DEF FeedOK
<1>3. u.rq = th.rq /\ u.feed = th.feed /\ u.pubs = th.pubs /\ u.subs = th.subs
  BY <1>1 DEF SameFeed, SameToSave
<1>4. /\ Works(th) /\ Works(u) /\ OpOK(u) /\ "removePub" \notin {th.pc, u.pc}
      /\ th.pc \in Saving /\ u.pc \in Saving
  BY <1>1, <1>2, <1>3 DEF OpOK, Works, Working, Saving, MakePub, MakeSub
<1>5. SubsOK(u, subs')
  BY <1>1, <1>2, <1>3, <1>4 DEF SubsOK
<1>6. \A q \in u.pubs : q \in Stay(u, pubs) \/ Unsaved(q, u)
  BY <1>2, <1>3, <1>4 DEF PubsOK, Stay, Unsaved
<1>7. PubsOK(u, pubs, nextPub')
  BY <1>1, <1>2, <1>3, <1>4, <1>6 DEF PubsOK, MakePub
<1>8. UsersOf(Stay(th, pubs) \cup Due(u)) = UsersOf(Stay(th, pubs) \cup Due(th))
  <2> DEFINE R == Stay(th, pubs) \cup th.pubs
  <2>1. CASE th.pc = "newPubService" /\ u.pc = "savePub"
    BY <1>3, <2>1 DEF Due, MakePub
  <2>2. ASSUME th.pc \in MakePub, u.pc \in MakePub, u.pub.user = th.pub.user
        PROVE  UsersOf(Stay(th, pubs) \cup Due(u)) = UsersOf(Stay(th, pubs) \cup Due(th))
    <3>1. Stay(th, pubs) \cup Due(u) = R \cup {u.pub} /\ Stay(th, pubs) \cup Due(th) = R \cup {th.pub}
      BY <1>3, <2>2 DEF Due
    <3>2. UsersOf({u.pub}) = UsersOf({th.pub})
      BY <2>2, UsersOfOne
    <3> HIDE DEF R, u, th
    <3>3. /\ UsersOf(R \cup {u.pub}) = UsersOf(R) \cup UsersOf({u.pub})
          /\ UsersOf(R \cup {th.pub}) = UsersOf(R) \cup UsersOf({th.pub})
      BY UsersOfCup
    <3> QED
      BY <3>1, <3>2, <3>3
  <2> QED
    BY <1>1, <2>1, <2>2 DEF MakePub
<1> HIDE DEF th, u
<1>9. UNCHANGED <<feeds, pubs, drFeeds, drUsers>> /\ PubIds(pubs, nextPub')
  BY <1>1, <1>2
<1> QED
  BY <1>1, <1>4, <1>5, <1>7, <1>8, <1>9, FeedMoves DEF th, u

LEMMA RemovePubSynced ==
  ASSUME DrTypeInv, OneThread, FeedInv, NEW w \in Threads, RemovePub(w)
  PROVE  FeedInv'
<1> DEFINE th == t[w]
           u  == t'[w]
<1>1. /\ th.pc = "removePub" /\ u.pc = "idle" /\ pubs' = {p \in pubs : p.id # th.rq.id}
      /\ UNCHANGED <<feeds, subs, drFeeds, drUsers, nextPub>>
  BY RemovePubStep DEF server
<1>2. /\ PubIds(pubs, nextPub) /\ AllSynced(th, feeds, pubs, drFeeds, drUsers)
      /\ OpOK(th) /\ TargetOK(th, pubs) /\ StateOK(th, feeds, drFeeds)
      /\ UsersOK(th, pubs, drUsers) /\ PubsOK(th, pubs, nextPub)
  BY FeedSplit DEF FeedOK
<1>3. th.rq.op = "deletePub" /\ Works(th)
  BY <1>1, <1>2 DEF OpOK, Works, Working, FeedOps
<1>4. PICK p \in pubs : p.id = th.rq.id /\ p.feed = th.feed
  BY <1>2, <1>3 DEF TargetOK, Works
<1>5. Due(th) = {} /\ drFeeds[th.feed] = feeds[th.feed]
  BY <1>1, <1>2, <1>3 DEF PubsOK, StateOK, Due, Saving, MakePub
<1>6. drUsers[th.feed] = UsersOf(Stay(th, pubs)) /\ Stay(th, pubs) # {}
  <2>1. drUsers[th.feed] = UsersOf(Stay(th, pubs)) /\ drUsers[th.feed] # {}
    BY <1>2, <1>3, <1>5 DEF UsersOK
  <2>2. UsersOf({}) = {}
    BY DEF UsersOf
  <2> HIDE DEF th
  <2> QED
    BY <2>1, <2>2
<1>7. Stay(th, pubs) = {q \in pubs' : q.feed = th.feed}
  BY <1>1, <1>3 DEF Stay
<1>8. Synced(th.feed, feeds, pubs', drFeeds, drUsers)
  BY <1>5, <1>6, <1>7 DEF Synced
<1>9. ASSUME NEW f \in Feeds, feeds[f] # Absent, f # th.feed
      PROVE  Synced(f, feeds, pubs', drFeeds, drUsers)
  <2>1. Synced(f, feeds, pubs, drFeeds, drUsers)
    BY <1>2, <1>9 DEF AllSynced
  <2>2. \A q \in pubs : q.feed = f => q.id # th.rq.id
    BY <1>2, <1>4, <1>9 DEF PubIds
  <2>3. {q \in pubs' : q.feed = f} = {q \in pubs : q.feed = f}
    BY <1>1, <2>2
  <2> QED
    BY <2>1, <2>3 DEF Synced
<1>10. AllSynced(u, feeds', pubs', drFeeds', drUsers')
  BY <1>1, <1>8, <1>9 DEF AllSynced
<1>11. PubIds(pubs', nextPub')
  BY <1>1, <1>2 DEF PubIds
<1>12. FeedOK(u, feeds', pubs', subs', drFeeds', drUsers', nextPub')
  BY <1>1 DEF FeedOK, OpOK, TargetOK, SentOK, SubsOK, StateOK, UsersOK, PubsOK, Works,
              Working, Saving, MakePub, MakeSub
<1> HIDE DEF th, u
<1> QED
  BY <1>10, <1>11, <1>12, FeedStep DEF u

LEMMA FindPubSynced ==
  ASSUME DrTypeInv, OneThread, FeedInv, NEW w \in Threads, FindPub(w)
  PROVE  FeedInv'
<1> DEFINE th == t[w]
           u  == t'[w]
<1>1. /\ th.pc = "findPub" /\ UNCHANGED <<feeds, pubs, drFeeds, drUsers, nextPub>>
      /\ \/ u.pc = "idle"
         \/ u.pc = "getFeed" /\ u.rq = th.rq /\ \E p \in pubs : p.id = th.rq.id /\ u.feed = p.feed
  BY FindPubStep DEF tables, server
<1>2. /\ ~Works(th) /\ ~Works(u) /\ u.pc # "putFeed" /\ OpOK(u) /\ TargetOK(u, pubs)
  BY <1>1 DEF Works, OpOK, TargetOK, Working, Saving, MakePub, MakeSub
<1> QED
  BY <1>1, <1>2, FeedRests

LEMMA PubSynced ==
  ASSUME DrTypeInv, OneThread, RowsAreSaved, FeedInv, NEW w \in Threads, PubNext(w)
  PROVE  FeedInv'
<1>1. ~WritePub(w)
  <2>1. t[w].rq \in Requests
    BY DEF DrTypeInv, DrTypeOK, Thread
  <2> QED
    BY <2>1, WritePubStep DEF RowsAreSaved
<1> QED
  BY <1>1, SavePubSynced, PutPubSynced, RouteSynced, RemovePubSynced, FindPubSynced DEF PubNext

LEMMA RequestedUnsaved ==
  ASSUME NEW rq \in Request, NEW P \in RequestedPubs(rq)
  PROVE  P # {} /\ \A p \in P : p.id = 0
<1>1. rq.pubs \subseteq PubSpec /\ rq.feed \in Feeds
  BY DEF Request
<1>2. CASE rq.pubs # {}
  <2>1. P = {PubOf(s, rq.feed) : s \in rq.pubs}
    BY <1>2 DEF RequestedPubs
  <2> QED
    BY <1>1, <1>2, <2>1, PubOfFields
<1>3. CASE rq.pubs = {}
  <2>1. \A l \in CentralChoices : [user |-> TmpUser, loc |-> l] \in PubSpec
    BY ConstantsAssumption DEF CentralChoices, PubSpec
  <2>2. PICK l \in CentralChoices : P = {PubOf([user |-> TmpUser, loc |-> l], rq.feed)}
    BY <1>3 DEF RequestedPubs
  <2> QED
    BY <1>1, <2>1, <2>2, PubOfFields
<1> QED
  BY <1>2, <1>3

(* The steps of subscribers.  A request that updates a feed finds a row    *)
(* for each subscriber, so that it never comes to call the server.         *)
LEMMA SubSynced ==
  ASSUME DrTypeInv, OneThread, FeedInv, NEW w \in Threads, SubNext(w)
  PROVE  FeedInv'
<1> DEFINE th == t[w]
           u  == t'[w]
           mid == {"subMake", "subPost", "egressNodes", "egressMake", "egressPost"}
<1>1. UNCHANGED <<feeds, pubs, drFeeds, drUsers, nextPub>>
  BY SubFrame
<1>2. /\ PubIds(pubs, nextPub)
      /\ OpOK(th) /\ SubsOK(th, subs) /\ PubsOK(th, pubs, nextPub)
  BY FeedSplit DEF FeedOK
<1> DEFINE Ends == u.pc = "idle" /\ (Works(th) => th.rq.op = "postFeed")
           Moved == /\ SameFeed(th, u) /\ u.pubs = th.pubs
                    /\ th.pc \in {"saveSub", "updateSub"} \cup MakeSub
                    /\ u.pc \in {"saveSub", "storeFeed"} \cup MakeSub
                    /\ \/ th.pc \in {"updateSub"} \cup MakeSub /\ u.pc \in MakeSub
                       \/ th.rq.op = "postFeed"
                       \/ /\ th.pc = "saveSub" /\ u.pc \notin MakeSub
                          /\ subs' = subs /\ u.subs \subseteq th.subs
<1>3. Ends \/ Moved
  <2>1. CASE u.pc = "idle" /\ th.pc \in {"removeSub", "updateSub"}
    BY <2>1 DEF Works, Working, Saving, MakePub, MakeSub
  <2>2. CASE u.pc = "idle" /\ th.pc \in {"subNew"} \cup mid
    BY <1>2, <2>2 DEF OpOK, Works, FeedOps, MakeSub
  <2>3. CASE u.pc = "idle" /\ th.pc = "putSub" /\ th.rq.op \in {"postSub", "putSub"}
    BY <2>3 DEF Works, FeedOps
  <2>4. CASE /\ SameFeed(th, u) /\ u.pubs = th.pubs
             /\ th.pc = "saveSub" /\ th.subs = {} /\ u.pc = "storeFeed" /\ u.subs = {}
             /\ subs' = subs
    BY <2>4 DEF MakeSub
  <2>5. ASSUME SameFeed(th, u), u.pubs = th.pubs, th.pc = "saveSub", subs' = subs,
               NEW s \in th.subs, u.subs = th.subs \ {s},
               u.pc = IF Has(subs, s.id) THEN "saveSub" ELSE "subNew"
        PROVE  Ends \/ Moved
    <3>1. CASE th.rq.op = "postFeed"
      BY <2>5, <3>1 DEF MakeSub
    <3>2. CASE th.rq.op # "postFeed"
      <4>1. Works(th)
        BY <1>2, <2>5 DEF OpOK, Works, Working, Saving, MakeSub
      <4>2. Has(subs, s.id)
        BY <1>2, <2>5, <3>2, <4>1 DEF SubsOK, Has
      <4> QED
        BY <2>5, <4>2 DEF MakeSub
    <3> QED
      BY <3>1, <3>2
  <2>6. CASE /\ SameFeed(th, u) /\ u.pubs = th.pubs
             /\ th.pc \in {"subNew"} \cup mid /\ u.pc \in {"putSub"} \cup mid
    BY <2>6 DEF MakeSub
  <2>7. CASE /\ SameFeed(th, u) /\ u.pubs = th.pubs
             /\ th.pc = "putSub" /\ th.rq.op \notin {"postSub", "putSub"} /\ u.pc = "saveSub"
    BY <1>2, <2>7 DEF OpOK, MakeSub
  <2>8. CASE SameFeed(th, u) /\ u.pubs = th.pubs /\ th.pc = "updateSub" /\ u.pc = "putSub"
    BY <2>8 DEF MakeSub
  <2>9. \/ u.pc = "idle" /\ th.pc \in {"removeSub", "updateSub"}
        \/ u.pc = "idle" /\ th.pc \in {"subNew"} \cup mid /\ subs' = subs
        \/ u.pc = "idle" /\ th.pc = "putSub" /\ th.rq.op \in {"postSub", "putSub"}
        \/ /\ SameFeed(th, u) /\ u.pubs = th.pubs
           /\ \/ /\ th.pc = "saveSub" /\ th.subs = {} /\ u.pc = "storeFeed" /\ u.subs = {}
                 /\ subs' = subs
              \/ /\ th.pc = "saveSub" /\ subs' = subs
                 /\ \E s \in th.subs : /\ u.subs = th.subs \ {s}
                                       /\ u.pc = IF Has(subs, s.id) THEN "saveSub" ELSE "subNew"
              \/ th.pc \in {"subNew"} \cup mid /\ u.pc \in {"putSub"} \cup mid
              \/ th.pc = "putSub" /\ th.rq.op \notin {"postSub", "putSub"} /\ u.pc = "saveSub"
              \/ th.pc = "updateSub" /\ u.pc = "putSub"
    BY SubSteps
  <2> HIDE DEF Ends, Moved, th, u, mid
  <2> QED
    BY <2>1, <2>2, <2>3, <2>4, <2>5, <2>6, <2>7, <2>8, <2>9
<1>4. CASE Ends
  BY <1>1, <1>4, FeedEnds DEF Working, Saving, MakePub, MakeSub
<1>5. CASE Moved
  <2>1. u.rq = th.rq /\ u.feed = th.feed
    BY <1>5 DEF SameFeed
  <2>2. CASE ~Works(th)
    <3>1. th.pc \in {"updateSub"} \cup MakeSub /\ u.pc \in MakeSub /\ th.rq.op \in {"postSub", "putSub"}
      BY <1>2, <1>5, <2>2 DEF OpOK, Works, Working, Saving, FeedOps, MakePub, MakeSub
    <3>2. ~Works(u) /\ u.pc # "putFeed" /\ OpOK(u) /\ TargetOK(u, pubs)
      BY <2>1, <3>1 DEF Works, FeedOps, OpOK, TargetOK, Working, Saving, MakePub, MakeSub
    <3> QED
      BY <1>1, <2>2, <3>2, FeedRests
  <2>3. CASE Works(th)
    <3>1. Works(u) /\ "removePub" \notin {th.pc, u.pc} /\ th.pc \notin Saving /\ u.pc \notin Saving
      BY <1>5, <2>1, <2>3 DEF Works, Working, Saving, MakePub, MakeSub
    <3>2. OpOK(u)
      BY <1>2, <1>5, <2>1, <2>3, <3>1 DEF OpOK, Works, Working, Saving, MakePub, MakeSub
    <3>3. SubsOK(u, subs')
      BY <1>2, <1>5, <2>1, <2>3, <3>2 DEF SubsOK, OpOK, Works, FeedOps
    <3>4. u.pubs = {} /\ th.pubs = {}
      BY <1>2, <1>5, <2>3, <3>1 DEF PubsOK
    <3>5. PubsOK(u, pubs, nextPub')
      BY <3>1, <3>4 DEF PubsOK, Saving
    <3>6. Due(u) = {} /\ Due(th) = {}
      BY <3>1, <3>4 DEF Due, Saving
    <3> QED
      BY <1>1, <1>2, <1>5, <2>3, <3>1, <3>2, <3>3, <3>5, <3>6, FeedMoves
  <2> QED
    BY <2>2, <2>3
<1> QED
  BY <1>3, <1>4, <1>5

LEMMA NodeSynced ==
  ASSUME DrTypeInv, OneThread, FeedInv, NEW w \in Threads, NodeNext(w)
  PROVE  FeedInv'
<1>1. t[w].pc \notin Working
  BY DEF NodeNext, GetNode, GetNodes, PutNodes, NodeLocation, GetStatic, PutStatic, StoreNode,
         Working, Saving, MakePub, MakeSub
<1>2. t'[w].pc \notin Working \cup {"getFeed", "putFeed", "updateSub", "removeSub"}
  BY NodePcStep DEF Working, Saving, MakePub, MakeSub
<1>3. UNCHANGED <<feeds, pubs, drFeeds, drUsers, nextPub>>
  BY DEF NodeNext, GetNode, GetNodes, PutNodes, NodeLocation, GetStatic, PutStatic, StoreNode,
         tables, server, ctl
<1> QED
  BY <1>1, <1>2, <1>3, FeedEnds DEF Works

-----------------------------------------------------------------------------
(* The steps of feeds.                                                     *)
LEMMA PostFeedSynced ==
  ASSUME DrTypeInv, ServerInv, OneThread, AnswersArrive, RowsAreSaved, FeedInv,
         NEW w \in Threads, PostFeed(w)
  PROVE  FeedInv'
<1> DEFINE th == t[w]
           u  == t'[w]
           f  == th.feed
<1>1. /\ th.pc = "postFeed" /\ th.rq.op = "postFeed"
      /\ UNCHANGED <<feeds, pubs, subs, nextPub>>
      /\ \/ u.pc = "idle" /\ UNCHANGED <<drFeeds, drUsers>>
         \/ /\ drFeeds[f] = Absent
            /\ \E P \in RequestedPubs(th.rq), o \in Outcomes :
                 /\ SetOnServer(f, th.rq.state, UsersOf(P), o)
                 /\ \/ u.pc = "idle" /\ o.answer # "ok"
                    \/ u.pc = "newPubService" /\ o.answer = "ok" /\ u.rq = th.rq
                       /\ u.feed = f /\ u.state = th.rq.state /\ u.pubs = P
  BY PostFeedStep DEF tables
<1>2. /\ PubIds(pubs, nextPub) /\ AllSynced(th, feeds, pubs, drFeeds, drUsers)
  BY FeedSplit
<1>3. ~Works(th)
  BY <1>1 DEF Works, Working, Saving, MakePub, MakeSub
<1>4. ASSUME u.pc = "idle", UNCHANGED <<drFeeds, drUsers>> PROVE FeedInv'
  BY <1>1, <1>3, <1>4, FeedEnds DEF Working, Saving, MakePub, MakeSub
<1>5. ASSUME drFeeds[f] = Absent, NEW P \in RequestedPubs(th.rq), NEW o \in Outcomes,
             o.effect = TRUE, SetOnServer(f, th.rq.state, UsersOf(P), o),
             u.pc = "newPubService", u.rq = th.rq, u.feed = f, u.state = th.rq.state, u.pubs = P
      PROVE  FeedInv'
  <2>1. f \in Feeds /\ th.rq \in Request
    BY ConstantsAssumption DEF DrTypeInv, DrTypeOK, Thread
  <2>2. feeds[f] = Absent /\ \A p \in pubs : p.feed # f
    BY <1>5, <2>1 DEF ServerInv, StoredIsOnServer, RowsAreSaved
  <2>3. P # {} /\ \A p \in P : p.id = 0
    BY <1>5, <2>1, RequestedUnsaved
  <2>4. drFeeds' = [drFeeds EXCEPT ![f] = th.rq.state] /\ drUsers' = [drUsers EXCEPT ![f] = UsersOf(P)]
    BY <1>5 DEF SetOnServer
  <2>5. /\ drFeeds'[f] = th.rq.state /\ drUsers'[f] = UsersOf(P)
        /\ \A g \in Feeds : g # f => drFeeds'[g] = drFeeds[g] /\ drUsers'[g] = drUsers[g]
    BY <2>1, <2>4 DEF DrTypeInv, DrTypeOK
  <2>6. AllSynced(u, feeds', pubs', drFeeds', drUsers')
    BY <1>1, <1>2, <1>3, <2>2, <2>5 DEF AllSynced, Synced
  <2>7. Works(u) /\ OpOK(u) /\ u.rq.op = "postFeed"
    BY <1>1, <1>5 DEF Works, FeedOps, OpOK, Working, Saving, MakePub, MakeSub
  <2>8. TargetOK(u, pubs') /\ SentOK(u, pubs') /\ SubsOK(u, subs')
    BY <1>5, <2>7 DEF TargetOK, SentOK, SubsOK
  <2>9. StateOK(u, feeds', drFeeds')
    BY <1>1, <1>5, <2>2, <2>5 DEF StateOK
  <2>10. Stay(u, pubs') \cup Due(u) = P
    BY <1>1, <1>5, <2>2 DEF Stay, Due, MakePub
  <2>11. UsersOf(P) # {}
    BY <2>3, UsersOfSome
  <2>12. UsersOK(u, pubs', drUsers')
    BY <1>5, <2>5, <2>10, <2>11 DEF UsersOK
  <2>13. PubsOK(u, pubs', nextPub')
    BY <1>5, <2>3, <2>7 DEF PubsOK, Unsaved, Saving, MakePub
  <2> HIDE DEF th, u, f
  <2>14. FeedOK(u, feeds', pubs', subs', drFeeds', drUsers', nextPub') /\ PubIds(pubs', nextPub')
    BY <1>1, <1>2, <2>7, <2>8, <2>9, <2>12, <2>13 DEF FeedOK
  <2> QED
    BY <2>6, <2>14, FeedStep DEF u
<1> HIDE DEF th, u, f
<1>6. ASSUME NEW P \in RequestedPubs(th.rq), NEW o \in Outcomes, o.answer # "ok",
             SetOnServer(f, th.rq.state, UsersOf(P), o)
      PROVE  UNCHANGED <<drFeeds, drUsers>>
  <2>1. o.effect = FALSE
    BY <1>6, Arrives
  <2> QED
    BY <1>6, <2>1 DEF SetOnServer
<1>7. ASSUME NEW o \in Outcomes, o.answer = "ok" PROVE o.effect = TRUE
  BY <1>7, Arrives
<1> QED
  BY <1>1, <1>4, <1>5, <1>6, <1>7

(* DELETE dr_pubs refuses to take the last publisher of a feed.            *)
LEMMA OthersStay ==
  ASSUME NEW P, NEW p \in P, Cardinality(P) # 1
  PROVE  P \ {p} # {}
<1>1. P \ {p} = {} => P = {p}
  OBVIOUS
<1>2. Cardinality({p}) = 1
  BY FS_Singleton
<1> QED
  BY <1>1, <1>2

LEMMA GetFeedSynced ==
  ASSUME DrTypeInv, OneThread, FeedInv, NEW w \in Threads, GetFeed(w)
  PROVE  FeedInv'
<1> DEFINE th == t[w]
           u  == t'[w]
           f  == th.feed
           rows == {p \in pubs : p.feed = f}
<1>1. /\ th.pc = "getFeed" /\ UNCHANGED <<feeds, pubs, subs, drFeeds, drUsers, nextPub>>
      /\ \/ u.pc = "idle"
         \/ /\ u.pc \in {"subNew", "updateSub"} /\ u.rq = th.rq
            /\ th.rq.op \in {"postSub", "putSub"}
         \/ /\ u.pc = "putFeed" /\ u.rq = th.rq /\ u.feed = f /\ feeds[f] # Absent
            /\ u.users = UsersOf(u.pubs) /\ u.subs = SubsOf(f)
            /\ \/ th.rq.op = "putFeed" /\ u.pubs = rows
               \/ /\ th.rq.op = "postPub"
                  /\ u.pubs = rows \cup {PubOf(TheOne(th.rq.pubs), f)}
               \/ /\ th.rq.op = "deletePub" /\ Cardinality(rows) # 1
                  /\ u.pubs = {p \in rows : p.id # th.rq.id}
  BY GetFeedStep DEF tables, server, PubsOf
<1>2. /\ PubIds(pubs, nextPub) /\ AllSynced(th, feeds, pubs, drFeeds, drUsers)
      /\ TargetOK(th, pubs)
  BY FeedSplit DEF FeedOK
<1>3. ~Works(th) /\ th.rq \in Request /\ f \in Feeds
  BY <1>1, ConstantsAssumption DEF Works, Working, Saving, MakePub, MakeSub, DrTypeInv, DrTypeOK,
                                   Thread
<1>4. CASE u.pc = "idle"
  BY <1>1, <1>3, <1>4, FeedEnds DEF Working, Saving, MakePub, MakeSub
<1>5. CASE u.pc \in {"subNew", "updateSub"} /\ u.rq = th.rq /\ th.rq.op \in {"postSub", "putSub"}
  <2>1. ~Works(u) /\ u.pc # "putFeed" /\ OpOK(u) /\ TargetOK(u, pubs)
    BY <1>5 DEF Works, FeedOps, OpOK, TargetOK, Working, Saving, MakePub, MakeSub
  <2> QED
    BY <1>1, <1>3, <2>1, FeedRests
<1>6. ASSUME u.pc = "putFeed", u.rq = th.rq, u.feed = f, feeds[f] # Absent,
             u.users = UsersOf(u.pubs), u.subs = SubsOf(f),
             \/ th.rq.op = "putFeed" /\ u.pubs = rows
             \/ /\ th.rq.op = "postPub"
                /\ u.pubs = rows \cup {PubOf(TheOne(th.rq.pubs), f)}
             \/ /\ th.rq.op = "deletePub" /\ Cardinality(rows) # 1
                /\ u.pubs = {p \in rows : p.id # th.rq.id}
      PROVE  FeedInv'
  <2>1. Synced(f, feeds, pubs, drFeeds, drUsers)
    BY <1>2, <1>3, <1>6 DEF AllSynced
  <2>2. rows # {}
    BY <2>1 DEF Synced
  <2>3. u.rq.op \in {"putFeed", "postPub", "deletePub"}
    BY <1>6
  <2>4. OpOK(u) /\ ~Works(u)
    BY <1>6, <2>3 DEF OpOK, Works, FeedOps, Working, Saving, MakePub, MakeSub
  <2>5. TargetOK(u, pubs)
    BY <1>1, <1>2, <1>6 DEF TargetOK
  <2>6. u.pubs # {}
    <3>1. CASE u.rq.op = "deletePub"
      <4>1. PICK p \in pubs : p.id = u.rq.id /\ p.feed = f
        BY <1>6, <2>5, <3>1 DEF TargetOK
      <4>2. rows \ {p} # {}
        BY <1>6, <3>1, <4>1, OthersStay
      <4>3. \A q \in rows : q # p => q.id # p.id
        BY <1>2, <4>1 DEF PubIds
      <4> QED
        BY <1>6, <3>1, <4>1, <4>2, <4>3
    <3> QED
      BY <1>6, <2>2, <2>3, <3>1
  <2>7. Stay(u, pubs) \subseteq u.pubs /\ \A p \in u.pubs : p \in Stay(u, pubs)
                                            \/ (Unsaved(p, u) /\ u.rq.op = "postPub")
    <3>1. CASE u.rq.op # "postPub"
      BY <1>6, <3>1 DEF Stay
    <3>2. CASE u.rq.op = "postPub"
      <4>1. TheOne(th.rq.pubs) \in PubSpec
        BY <1>3, <1>6, <3>2, ConstantsAssumption DEF TheOne, Request, DrTypeInv, DrTypeOK, Thread
      <4>2. PubOf(TheOne(th.rq.pubs), f).id = 0
        BY <1>3, <4>1, PubOfFields
      <4>3. u.pubs = rows \cup {PubOf(TheOne(th.rq.pubs), f)} /\ Stay(u, pubs) = rows
        BY <1>6, <3>2 DEF Stay
      <4> QED
        BY <3>2, <4>2, <4>3 DEF Unsaved
    <3> QED
      BY <3>1, <3>2
  <2>8. SentOK(u, pubs)
    BY <1>6, <2>6, <2>7 DEF SentOK
  <2>9. SubsOK(u, subs)
    BY <1>6 DEF SubsOK, SubsOf
  <2>10. StateOK(u, feeds, drFeeds) /\ UsersOK(u, pubs, drUsers) /\ PubsOK(u, pubs, nextPub)
    BY <1>6, <2>4 DEF StateOK, UsersOK, PubsOK
  <2>11. AllSynced(u, feeds, pubs, drFeeds, drUsers)
    BY <1>2, <1>3 DEF AllSynced
  <2> HIDE DEF th, u, f, rows
  <2>12. FeedOK(u, feeds, pubs, subs, drFeeds, drUsers, nextPub)
    BY <2>4, <2>5, <2>8, <2>9, <2>10 DEF FeedOK
  <2> QED
    BY <1>1, <1>2, <2>11, <2>12, FeedStep DEF u
<1> HIDE DEF th, u, f, rows
<1> QED
  BY <1>1, <1>4, <1>5, <1>6

LEMMA PutFeedSynced ==
  ASSUME DrTypeInv, OneThread, AnswersArrive, FeedInv, NEW w \in Threads, PutFeed(w)
  PROVE  FeedInv'
<1> DEFINE th == t[w]
           u  == t'[w]
           f  == th.feed
<1>1. /\ th.pc = "putFeed" /\ UNCHANGED <<feeds, pubs, subs, nextPub>>
      /\ \/ u.pc = "idle" /\ UNCHANGED <<drFeeds, drUsers>>
         \/ \E o \in Outcomes :
              /\ SetOnServer(f, th.state, th.users, o)
              /\ \/ u.pc = "idle" /\ o.answer # "ok"
                 \/ u.pc = "newPubService" /\ o.answer = "ok" /\ OnlyPc(th, u)
  BY PutFeedStep DEF tables
<1>2. /\ PubIds(pubs, nextPub) /\ AllSynced(th, feeds, pubs, drFeeds, drUsers)
      /\ OpOK(th) /\ TargetOK(th, pubs) /\ SentOK(th, pubs) /\ SubsOK(th, subs)
  BY FeedSplit DEF FeedOK
<1>3. ~Works(th) /\ f \in Feeds
  BY <1>1 DEF Works, Working, Saving, MakePub, MakeSub, DrTypeInv, DrTypeOK, Thread
<1>4. ASSUME u.pc = "idle", UNCHANGED <<drFeeds, drUsers>> PROVE FeedInv'
  BY <1>1, <1>3, <1>4, FeedEnds DEF Working, Saving, MakePub, MakeSub
<1>5. ASSUME NEW o \in Outcomes, o.effect = TRUE, SetOnServer(f, th.state, th.users, o),
             u.pc = "newPubService", OnlyPc(th, u)
      PROVE  FeedInv'
  <2>1. /\ u.rq = th.rq /\ u.feed = f /\ u.state = th.state
        /\ u.pubs = th.pubs /\ u.subs = th.subs
    BY <1>5 DEF OnlyPc, SameFeed, SameToSave
  <2>2. drFeeds' = [drFeeds EXCEPT ![f] = th.state] /\ drUsers' = [drUsers EXCEPT ![f] = th.users]
    BY <1>5 DEF SetOnServer
  <2>3. /\ drFeeds'[f] = th.state /\ drUsers'[f] = th.users
        /\ \A g \in Feeds : g # f => drFeeds'[g] = drFeeds[g] /\ drUsers'[g] = drUsers[g]
    BY <1>3, <2>2 DEF DrTypeInv, DrTypeOK
  <2>4. Works(u) /\ OpOK(u) /\ u.rq.op # "postFeed"
    BY <1>1, <1>2, <1>5, <2>1 DEF OpOK, Works, FeedOps, Working, Saving, MakePub, MakeSub
  <2>5. AllSynced(u, feeds', pubs', drFeeds', drUsers')
    BY <1>1, <1>2, <1>3, <2>1, <2>3, <2>4 DEF AllSynced, Synced
  <2>6. TargetOK(u, pubs') /\ SubsOK(u, subs')
    BY <1>1, <1>2, <2>1 DEF TargetOK, SubsOK
  <2>7. SentOK(u, pubs') /\ StateOK(u, feeds', drFeeds')
    BY <1>5, <2>1, <2>3, <2>4 DEF SentOK, StateOK
  <2>8. /\ th.users = UsersOf(th.pubs) /\ th.pubs # {} /\ Stay(th, pubs) \subseteq th.pubs
        /\ \A p \in th.pubs : p \in Stay(th, pubs) \/ (Unsaved(p, th) /\ th.rq.op = "postPub")
    BY <1>1, <1>2 DEF SentOK
  <2>9. Stay(u, pubs') = Stay(th, pubs) /\ Due(u) = th.pubs
    BY <1>1, <1>5, <2>1 DEF Stay, Due, MakePub
  <2>10. Stay(u, pubs') \cup Due(u) = th.pubs /\ UsersOf(th.pubs) # {}
    BY <2>8, <2>9, UsersOfSome
  <2>11. UsersOK(u, pubs', drUsers')
    BY <2>1, <2>3, <2>8, <2>10 DEF UsersOK
  <2>12. PubsOK(u, pubs', nextPub')
    BY <1>5, <2>1, <2>8, <2>9 DEF PubsOK, Unsaved, Saving, MakePub
  <2> HIDE DEF th, u, f
  <2>13. FeedOK(u, feeds', pubs', subs', drFeeds', drUsers', nextPub') /\ PubIds(pubs', nextPub')
    BY <1>1, <1>2, <2>4, <2>6, <2>7, <2>11, <2>12 DEF FeedOK
  <2> QED
    BY <2>5, <2>13, FeedStep DEF u
<1> HIDE DEF th, u, f
<1>6. ASSUME NEW o \in Outcomes, o.answer # "ok", SetOnServer(f, th.state, th.users, o)
      PROVE  UNCHANGED <<drFeeds, drUsers>>
  <2>1. o.effect = FALSE
    BY <1>6, Arrives
  <2> QED
    BY <1>6, <2>1 DEF SetOnServer
<1>7. ASSUME NEW o \in Outcomes, o.answer = "ok" PROVE o.effect = TRUE
  BY <1>7, Arrives
<1> QED
  BY <1>1, <1>4, <1>5, <1>6, <1>7

LEMMA StoreFeedSynced ==
  ASSUME DrTypeInv, OneThread, FeedInv, NEW w \in Threads, StoreFeed(w)
  PROVE  FeedInv'
<1> DEFINE th == t[w]
           u  == t'[w]
           f  == th.feed
<1>1. /\ th.pc = "storeFeed" /\ feeds' = [feeds EXCEPT ![f] = th.state]
      /\ UNCHANGED <<pubs, subs, drFeeds, drUsers, nextPub>>
      /\ \/ th.rq.op = "deletePub" /\ u.pc = "removePub" /\ OnlyPc(th, u)
         \/ th.rq.op # "deletePub" /\ u.pc = "idle"
  BY StoreFeedStep DEF server
<1>2. /\ PubIds(pubs, nextPub) /\ AllSynced(th, feeds, pubs, drFeeds, drUsers)
      /\ OpOK(th) /\ TargetOK(th, pubs) /\ SubsOK(th, subs)
      /\ StateOK(th, feeds, drFeeds) /\ UsersOK(th, pubs, drUsers) /\ PubsOK(th, pubs, nextPub)
  BY FeedSplit DEF FeedOK
<1>3. Works(th) /\ f \in Feeds
  BY <1>1, <1>2 DEF OpOK, Works, Working, Saving, MakePub, MakeSub, DrTypeInv, DrTypeOK, Thread
<1>4. /\ feeds'[f] = th.state /\ drFeeds[f] = th.state
      /\ \A g \in Feeds : g # f => feeds'[g] = feeds[g]
  BY <1>1, <1>2, <1>3 DEF StateOK, DrTypeInv, DrTypeOK
<1>5. th.pubs = {} /\ Due(th) = {}
  BY <1>1, <1>2, <1>3 DEF PubsOK, Due, Saving, MakePub
<1>6. CASE th.rq.op = "deletePub" /\ u.pc = "removePub" /\ OnlyPc(th, u)
  <2>1. u.rq = th.rq /\ u.feed = f /\ u.pubs = th.pubs /\ u.subs = th.subs
    BY <1>6 DEF OnlyPc, SameFeed, SameToSave
  <2>2. Works(u) /\ OpOK(u)
    BY <1>6, <2>1 DEF OpOK, Works, FeedOps, Working, Saving, MakePub, MakeSub
  <2>3. AllSynced(u, feeds', pubs', drFeeds', drUsers')
    BY <1>1, <1>2, <1>4, <2>1, <2>2 DEF AllSynced, Synced
  <2>4. TargetOK(u, pubs') /\ SubsOK(u, subs')
    BY <1>1, <1>2, <1>3, <2>1 DEF TargetOK, SubsOK, Works
  <2>5. SentOK(u, pubs') /\ StateOK(u, feeds', drFeeds')
    BY <1>1, <1>4, <1>6, <2>1 DEF SentOK, StateOK
  <2>6. Stay(u, pubs') = Stay(th, pubs) /\ Due(u) = {}
    BY <1>1, <1>5, <1>6, <2>1 DEF Stay, Due, MakePub
  <2>7. UsersOK(u, pubs', drUsers')
    BY <1>1, <1>2, <1>3, <1>5, <2>1, <2>6 DEF UsersOK
  <2>8. PubsOK(u, pubs', nextPub')
    BY <1>5, <1>6, <2>1 DEF PubsOK, Saving, MakePub
  <2> HIDE DEF th, u, f
  <2>9. FeedOK(u, feeds', pubs', subs', drFeeds', drUsers', nextPub') /\ PubIds(pubs', nextPub')
    BY <1>1, <1>2, <2>2, <2>4, <2>5, <2>7, <2>8 DEF FeedOK
  <2> QED
    BY <2>3, <2>9, FeedStep DEF u
<1>7. CASE th.rq.op # "deletePub" /\ u.pc = "idle"
  <2> DEFINE rows == {p \in pubs : p.feed = f}
  <2>1. Stay(th, pubs) = rows
    BY <1>7 DEF Stay
  <2>2. drUsers[f] = UsersOf(rows) /\ drUsers[f] # {}
    BY <1>2, <1>3, <1>5, <2>1 DEF UsersOK
  <2>3. rows # {}
    <3>1. UsersOf({}) = {}
      BY DEF UsersOf
    <3> HIDE DEF rows
    <3> QED
      BY <2>2, <3>1
  <2>4. Synced(f, feeds', pubs, drFeeds, drUsers)
    BY <1>4, <2>2, <2>3 DEF Synced
  <2>5. AllSynced(u, feeds', pubs', drFeeds', drUsers')
    BY <1>1, <1>2, <1>4, <2>4 DEF AllSynced, Synced
  <2>6. FeedOK(u, feeds', pubs', subs', drFeeds', drUsers', nextPub')
    BY <1>7 DEF FeedOK, OpOK, TargetOK, SentOK, SubsOK, StateOK, UsersOK, PubsOK, Works,
                Working, Saving, MakePub, MakeSub
  <2> HIDE DEF th, u, f
  <2> QED
    BY <1>1, <1>2, <2>5, <2>6, FeedStep DEF u
<1> QED
  BY <1>1, <1>6, <1>7

LEMMA DeleteFeedSynced ==
  ASSUME DrTypeInv, OneThread, FeedInv, NEW w \in Threads, DeleteFeed(w) \/ GetFeeds(w)
  PROVE  FeedInv'
<1> DEFINE th == t[w]
           u  == t'[w]
           f  == th.rq.feed
<1>1. /\ th.pc \in {"deleteFeed", "getFeeds"} /\ u.pc = "idle"
      /\ feeds' \in {feeds, [feeds EXCEPT ![f] = Absent]}
      /\ UNCHANGED <<pubs, subs, drFeeds, drUsers, nextPub>>
  BY OtherFeedStep DEF server
<1>2. PubIds(pubs, nextPub) /\ AllSynced(th, feeds, pubs, drFeeds, drUsers)
  BY FeedSplit
<1>3. ~Works(th)
  BY <1>1 DEF Works, Working, Saving, MakePub, MakeSub
<1>4. \A g \in Feeds : feeds'[g] # Absent => feeds'[g] = feeds[g]
  BY <1>1 DEF DrTypeInv, DrTypeOK
<1>5. AllSynced(u, feeds', pubs', drFeeds', drUsers')
  BY <1>1, <1>2, <1>3, <1>4 DEF AllSynced, Synced
<1>6. FeedOK(u, feeds', pubs', subs', drFeeds', drUsers', nextPub')
  BY <1>1 DEF FeedOK, OpOK, TargetOK, SentOK, SubsOK, StateOK, UsersOK, PubsOK, Works,
              Working, Saving, MakePub, MakeSub
<1> HIDE DEF th, u, f
<1> QED
  BY <1>1, <1>2, <1>5, <1>6, FeedStep DEF u

-----------------------------------------------------------------------------
LEMMA FeedInvInit == Init => FeedInv
<1> SUFFICES ASSUME Init PROVE FeedInv
  OBVIOUS
<1>1. pubs = {} /\ \A f \in Feeds : feeds[f] = Absent
  BY DEF Init
<1>2. \A w \in Threads : t[w].pc = "idle"
  BY DEF Init, Idle
<1>3. \A w \in Threads : FeedOK(t[w], feeds, pubs, subs, drFeeds, drUsers, nextPub)
  BY <1>2 DEF FeedOK, OpOK, TargetOK, SentOK, SubsOK, StateOK, UsersOK, PubsOK, Works,
              Working, Saving, MakePub, MakeSub
<1>4. PubIds(pubs, nextPub)
  BY <1>1 DEF PubIds
<1> QED
  BY <1>1, <1>3, <1>4 DEF FeedInv

LEMMA StartSynced ==
  ASSUME DrTypeInv, OneThread, FeedInv, NEW w \in Threads, Start(w)
  PROVE  FeedInv'
<1>1. /\ t[w].pc = "idle" /\ t'[w].pc = FirstStep(t'[w].rq.op)
      /\ t'[w].rq \in Requests /\ UNCHANGED <<feeds, pubs, drFeeds, drUsers, nextPub>>
  BY StartDr DEF tables, server
<1>2. t'[w].rq.op \in Ops
  BY <1>1, ConstantsAssumption DEF Request
<1>3. ~Works(t[w])
  BY <1>1 DEF Works, Working, Saving, MakePub, MakeSub
<1>4. \/ t'[w].pc \notin Working \cup {"getFeed", "putFeed", "updateSub", "removeSub"}
      \/ t'[w].pc = "getFeed" /\ t'[w].rq.op # "deletePub"
      \/ t'[w].pc = "removeSub" /\ t'[w].rq.op = "deleteSub"
  BY <1>1, <1>2 DEF FirstStep, Ops, Working, Saving, MakePub, MakeSub
<1> QED
  BY <1>1, <1>3, <1>4, FeedEnds

LEMMA FeedInvNext ==
  ASSUME OneThread, AnswersArrive, RowsAreSaved, MaxExits = 0,
         DrTypeInv, ServerInv, FeedInv, [Next]_vars
  PROVE  FeedInv'
<1>1. ASSUME NEW w \in Threads, FeedNext(w) PROVE FeedInv'
  BY <1>1, PostFeedSynced, GetFeedSynced, PutFeedSynced, StoreFeedSynced, DeleteFeedSynced
     DEF FeedNext
<1>2. ~ExitProcess
  <2>1. exits \in 0..0
    BY DEF DrTypeInv, DrTypeOK
  <2> QED
    BY <2>1 DEF ExitProcess
<1>3. CASE UNCHANGED vars
  BY <1>3 DEF vars, tables, server, ctl, FeedInv
<1> QED
  BY <1>1, <1>2, <1>3, StartSynced, PubSynced, SubSynced, NodeSynced DEF Next, Serve, Finished

LEMMA FeedInvCorrect ==
  ASSUME OneThread, AnswersArrive, RowsAreSaved, MaxExits = 0
  PROVE  Spec => [](DrTypeInv /\ FeedInv)
<1>1. DrTypeInv /\ ServerInv /\ FeedInv /\ [Next]_vars => FeedInv'
  BY FeedInvNext
<1> QED
  BY <1>1, FeedInvInit, ServerInvInit, ServerInvNext, DrInitType, DrNextType, PTL DEF Spec

(* A feed that is stored is on the server as its rows say, whenever no     *)
(* request is served: suspended or not, and with exactly the users of its  *)
(* publishers.  Requests come one at a time, every answer arrives (the     *)
(* server may refuse any call), the process is not ended, and no PUT       *)
(* dr_pubs is sent, which does not tell the server (FeedService.addFeed,   *)
(* updateFeed, DR_PubResource.deleteDr_Pub).                               *)
THEOREM FeedsStayInSync ==
  ASSUME OneThread, AnswersArrive, RowsAreSaved, MaxExits = 0
  PROVE  Spec => []FeedInSync
<1>1. FeedInv => FeedInSync
  BY DEF FeedInv, FeedInSync, Quiet, Synced, PubsOf, Works, Working, Saving, MakePub, MakeSub
<1> QED
  BY <1>1, FeedInvCorrect, PTL

(* A feed that is stored has a publisher whenever no request is served,    *)
(* under the same hypotheses: a feed is stored after its publishers, and   *)
(* DELETE dr_pubs, which reads the rows before it sends the feed without   *)
(* one, leaves another (DR_PubResource.deleteDr_Pub).                      *)
THEOREM FeedsKeepAPub ==
  ASSUME OneThread, AnswersArrive, RowsAreSaved, MaxExits = 0
  PROVE  Spec => []FeedHasPub
<1>1. FeedInv => FeedHasPub
  BY DEF FeedInv, FeedHasPub, Quiet, Synced, PubsOf, Works, Working, Saving, MakePub, MakeSub
<1> QED
  BY <1>1, FeedInvCorrect, PTL

(* The steps of a PUT feeds.                                               *)
LEMMA PutFeedStepKeeps ==
  ASSUME DrTypeInv, OneThread, AnswersArrive, FeedInv, [Next]_vars, NEW w \in Threads,
         MaxExits = 0, t[w].rq.op = "putFeed", Steps(w)
  PROVE  UNCHANGED <<pubs, subs, drUsers, drSubs>>
<1> DEFINE th == t[w]
           u  == t'[w]
<1>1. /\ AllSynced(th, feeds, pubs, drFeeds, drUsers)
      /\ OpOK(th) /\ SentOK(th, pubs) /\ SubsOK(th, subs) /\ StateOK(th, feeds, drFeeds)
  BY FeedSplit DEF FeedOK
<1>2. CASE Start(w)
  BY <1>2, StartDr DEF tables, server
<1>3. CASE PutFeed(w)
  <2>1. /\ th.pc = "putFeed" /\ UNCHANGED <<pubs, subs, drSubs>>
        /\ \/ UNCHANGED <<drFeeds, drUsers>>
           \/ \E o \in Outcomes : SetOnServer(th.feed, th.state, th.users, o)
    BY <1>3 DEF PutFeed, tables
  <2>2. th.pubs = Stay(th, pubs) /\ th.users = UsersOf(th.pubs)
    BY <1>1, <2>1 DEF SentOK
  <2>3. /\ th.feed \in Feeds /\ feeds[th.feed] # Absent /\ ~Works(th)
    BY <1>1, <2>1 DEF StateOK, Works, Working, Saving, MakePub, MakeSub, DrTypeInv, DrTypeOK, Thread
  <2>4. Synced(th.feed, feeds, pubs, drFeeds, drUsers)
    BY <1>1, <2>3 DEF AllSynced
  <2>5. Stay(th, pubs) = {p \in pubs : p.feed = th.feed}
    BY DEF Stay
  <2>6. drUsers[th.feed] = th.users
    BY <2>2, <2>4, <2>5 DEF Synced
  <2>7. [drUsers EXCEPT ![th.feed] = th.users] = drUsers
    BY <2>6 DEF DrTypeInv, DrTypeOK
  <2>8. drUsers' = drUsers
    BY <2>1, <2>7 DEF SetOnServer
  <2> QED
    BY <2>1, <2>8
<1>4. CASE FeedNext(w) /\ ~PutFeed(w)
  <2>1. ~PostFeed(w)
    BY PostFeedStep
  <2> QED
    BY <1>4, <2>1, GetFeedStep, StoreFeedStep, OtherFeedStep DEF FeedNext, tables, server
<1>5. CASE PubNext(w)
  <2>1. th.pc \notin {"putPub", "removePub"}
    BY <1>1 DEF OpOK, MakePub
  <2>2. ~PutPub(w) /\ ~RemovePub(w) /\ ~WritePub(w)
    BY <2>1, PutPubStep, RemovePubStep, WritePubStep
  <2>3. CASE NewPubService(w) \/ SavePub(w) \/ MakeIngress(w) \/ FindPub(w)
    BY <2>3 DEF NewPubService, SavePub, MakeIngress, FindPub, tables, server
  <2>4. CASE PostIngress(w)
    BY <2>4 DEF PostIngress, tables
  <2> QED
    BY <1>5, <2>2, <2>3, <2>4 DEF PubNext
<1>6. CASE SubNext(w)
  <2>1. th.pc \notin {"updateSub", "removeSub"} \cup MakeSub
    BY <1>1 DEF OpOK
  <2>2. SaveSub(w)
    BY <1>6, <2>1 DEF SubNext, NewSubProv, MakeSubscribe, PostSubscribe, EgressNodes, MakeEgress,
                      PostEgress, PutSub, UpdateSub, RemoveSub, MakeSub
  <2> QED
    BY <2>2 DEF SaveSub, tables, server
<1>7. CASE NodeNext(w)
  BY <1>7 DEF NodeNext, GetNode, GetNodes, PutNodes, NodeLocation, GetStatic, PutStatic, StoreNode,
              tables, server
<1>8. ~ExitProcess
  <2>1. exits \in 0..0
    BY DEF DrTypeInv, DrTypeOK
  <2> QED
    BY <2>1 DEF ExitProcess
<1>9. ~UNCHANGED vars
  BY DEF Steps, vars
<1>10. \E v \in Threads : Start(v) \/ Serve(v)
  BY <1>8, <1>9 DEF Next, Finished
<1>11. Start(w) \/ Serve(w)
  BY <1>10 DEF OneThread
<1> QED
  BY <1>2, <1>3, <1>4, <1>5, <1>6, <1>7, <1>11 DEF Serve

(* PUT feeds updates no publisher and no subscriber, neither in the tables *)
(* nor on the server, under the same hypotheses: it sends the users the    *)
(* server has already, and the publishers and subscribers it goes through  *)
(* all have their rows (FeedResource.updateFeed, FeedService.savePubs,     *)
(* saveSubs).                                                              *)
THEOREM PutFeedKeeps ==
  ASSUME OneThread, AnswersArrive, RowsAreSaved, MaxExits = 0
  PROVE  Spec => PutFeedKeepsClients
<1>1. DrTypeInv /\ FeedInv /\ [Next]_vars =>
        [\A w \in Threads : t[w].rq.op = "putFeed" /\ Steps(w) =>
           UNCHANGED <<pubs, subs, drUsers, drSubs>>]_vars
  BY PutFeedStepKeeps
<1> QED
  BY <1>1, FeedInvCorrect, PTL DEF Spec, PutFeedKeepsClients

=============================================================================
