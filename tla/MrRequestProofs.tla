-------------------------- MODULE MrRequestProofs --------------------------
(***************************************************************************)
(* What the requests of MrProvisioning achieve and may not do, for every   *)
(* value of the constants the theorems leave open.  The steps of a request *)
(* are first described field by field (what a step leaves alone, where it  *)
(* goes on and what it answers), then a step is tied to the operation it   *)
(* belongs to (OpInv); every theorem is an invariant over those lemmas.    *)
(***************************************************************************)
EXTENDS MrAafProofs, SequenceTheorems, FiniteSetTheorems, WellFoundedInduction

-----------------------------------------------------------------------------
(* The steps field by field: what a thread's record becomes.  th is the    *)
(* record before the step, u the one after it.                             *)
KeepTopic(th, u)  == u.rq = th.rq /\ u.fqtn = th.fqtn /\ u.repl = th.repl
KeepClient(th, u) == u.cur = th.cur /\ u.left = th.left /\ u.posts = th.posts
KeepBridge(th, u) == /\ u.locs = th.locs /\ u.hub = th.hub /\ u.plan = th.plan
                     /\ u.mm = th.mm /\ u.wrong = th.wrong
KeepLists(th, u)  == u.todo = th.todo /\ u.view = th.view /\ u.dels = th.dels

(* The request is over, or its cluster is still to be marked INVALID.      *)
Over(th, u) ==
  \/ u.pc = "idle"
  \/ /\ u.pc = "clusterInvalid" /\ u.rq = th.rq
     /\ th.rq.op \notin {"postTopic", "createMmaTopic"}

LEMMA Moves ==
  ASSUME TypeInv, NEW w \in Threads, NEW u, Go(w, u)
  PROVE  t'[w] = u /\ t[w] \in Thread /\ \A v \in Threads : v # w => t'[v] = t[v]
  BY DEF TypeInv, TypeOK, Go

LEMMA Replies ==
  ASSUME NEW code PROVE Reply(code).pc = "idle" /\ Reply(code).reply = code
  BY DEF Reply, Idle

(* addTopic returns: POST topics answers success only with a topic, and a  *)
(* cluster resource only after ok or conflict.                             *)
LEMMA Returns ==
  ASSUME NEW th \in Thread, NEW stored \in BOOLEAN, NEW u, u = AddTopicReturns(th, stored)
  PROVE  /\ Over(th, u)
         /\ th.rq.op = "postTopic" =>
              u.pc = "idle" /\ u.reply = IF stored THEN "success" ELSE th.err
         /\ th.rq.op \in {"postCluster", "putCluster"} /\ th.err \notin {"ok", "conflict"} =>
              u.pc = "clusterInvalid"
<1> DEFINE v == [th EXCEPT !.pc = "clusterInvalid"]
<1>1. v.pc = "clusterInvalid" /\ v.rq = th.rq
  BY DEF Thread
<1> HIDE DEF v
<1>2. \/ \E code : u = Reply(code)
      \/ u = v /\ th.rq.op \notin {"postTopic", "createMmaTopic"}
  BY DEF AddTopicReturns, ClusterAnswer, Success, v
<1>3. Over(th, u)
  <2>1. (\E code : u = Reply(code)) => u.pc = "idle"
    BY Replies
  <2>2. u = v => u.pc = "clusterInvalid" /\ u.rq = th.rq
    BY <1>1
  <2> QED
    BY <1>2, <2>1, <2>2 DEF Over
<1>4. th.rq.op = "postTopic" => u = Reply(IF stored THEN "success" ELSE th.err)
  BY DEF AddTopicReturns, Success
<1>5. th.rq.op \in {"postCluster", "putCluster"} /\ th.err \notin {"ok", "conflict"} => u = v
  BY DEF AddTopicReturns, v
<1> QED
  BY <1>1, <1>3, <1>4, <1>5, Replies

LEMMA Fails ==
  ASSUME NEW th \in Thread, NEW u, u = AddClientFails(th)
  PROVE  /\ Over(th, u) /\ (th.rq.op = "postClient" => u.pc = "idle")
         /\ th.rq.op = "postTopic" => u.pc = "idle" /\ u.reply = th.err
         /\ th.rq.op \in {"postCluster", "putCluster"} /\ th.err \notin {"ok", "conflict"} =>
              u.pc = "clusterInvalid"
<1>1. CASE th.rq.op = "postClient"
  BY <1>1, Replies DEF AddClientFails, Over
<1>2. CASE th.rq.op # "postClient"
  BY <1>2, Returns DEF AddClientFails
<1> QED
  BY <1>1, <1>2

LEMMA SetsErr ==
  ASSUME NEW th \in Thread, NEW code \in {"ok", "conflict", "fail", "notFound"}
  PROVE  LET v == [th EXCEPT !.err = code]
         IN  /\ v \in Thread /\ v.pc = th.pc /\ v.err = code /\ KeepTopic(th, v)
             /\ KeepClient(th, v) /\ KeepBridge(th, v) /\ KeepLists(th, v)
  BY DEF Thread, Codes, KeepTopic, KeepClient, KeepBridge, KeepLists

(* addTopic and removeTopic.                                               *)
LEMMA ReviewStep ==
  ASSUME TypeInv, NEW w \in Threads, Review(w)
  PROVE  LET th == t[w] u == t'[w] IN
         /\ th.pc = "review" /\ u.pc = "exists" /\ u.rq = th.rq /\ u.fqtn = th.fqtn
         /\ u.repl \in {"e2c", None}
         /\ u.err = th.err /\ KeepClient(th, u) /\ KeepBridge(th, u) /\ KeepLists(th, u)
<1> DEFINE th == t[w]
<1>1. PICK r \in {"e2c", None} : Go(w, [th EXCEPT !.repl = r, !.pc = "exists"])
  BY DEF Review, ReviewTopic
<1>2. th \in Thread /\ t'[w] = [th EXCEPT !.repl = r, !.pc = "exists"] /\ th.pc = "review"
  BY <1>1, Moves DEF Review
<1> QED
  BY <1>2 DEF Thread, KeepClient, KeepBridge, KeepLists

LEMMA ExistsStep ==
  ASSUME TypeInv, NEW w \in Threads, Exists(w)
  PROVE  LET th == t[w] u == t'[w] IN
         /\ th.pc = "exists"
         /\ \/ /\ topics[th.fqtn] # Absent
               /\ u = AddTopicReturns([th EXCEPT !.err = "conflict"], FALSE)
            \/ /\ topics[th.fqtn] = Absent
               /\ u.pc = "perm" /\ u.err = "notFound" /\ u.left = Actions
               /\ KeepTopic(th, u) /\ KeepBridge(th, u) /\ KeepLists(th, u)
<1> DEFINE th == t[w]
           v  == [th EXCEPT !.err = "notFound", !.left = Actions, !.pc = "perm"]
<1>1. th \in Thread /\ th.pc = "exists"
      /\ t'[w] = IF topics[th.fqtn] # Absent
                 THEN AddTopicReturns([th EXCEPT !.err = "conflict"], FALSE) ELSE v
  BY Moves DEF Exists
<1>2. /\ v.pc = "perm" /\ v.err = "notFound" /\ v.left = Actions
      /\ KeepTopic(th, v) /\ KeepBridge(th, v) /\ KeepLists(th, v)
  BY <1>1 DEF Thread, KeepTopic, KeepBridge, KeepLists
<1> HIDE DEF v
<1> QED
  BY <1>1, <1>2

LEMMA AddPermStep ==
  ASSUME TypeInv, NEW w \in Threads, AddPerm(w)
  PROVE  LET th == t[w] u == t'[w] IN
         /\ th.pc = "perm"
         /\ \/ /\ u.pc \in {"perm", "next"} /\ u.err = th.err
               /\ \E a \in th.left : u.left = th.left \ {a}
               /\ KeepTopic(th, u) /\ KeepBridge(th, u) /\ KeepLists(th, u)
            \/ u = AddTopicReturns([th EXCEPT !.err = "fail"], FALSE)
<1> DEFINE th == t[w]
           v(a) == [th EXCEPT !.left = th.left \ {a},
                              !.pc = IF th.left = {a} THEN "next" ELSE "perm"]
<1>1. PICK a \in th.left :
        Go(w, v(a)) \/ Go(w, AddTopicReturns([th EXCEPT !.err = "fail"], FALSE))
  BY DEF AddPerm
<1>2. th \in Thread /\ th.pc = "perm"
      /\ t'[w] \in {v(a), AddTopicReturns([th EXCEPT !.err = "fail"], FALSE)}
  BY <1>1, Moves DEF AddPerm
<1>3. /\ v(a).pc \in {"perm", "next"} /\ v(a).err = th.err /\ v(a).left = th.left \ {a}
      /\ KeepTopic(th, v(a)) /\ KeepBridge(th, v(a)) /\ KeepLists(th, v(a))
  BY <1>2 DEF Thread, KeepTopic, KeepBridge, KeepLists
<1> HIDE DEF v
<1> QED
  BY <1>2, <1>3

(* The next client is added, skipped, or ends addTopic; or there is none.  *)
LEMMA NextClientStep ==
  ASSUME TypeInv, NEW w \in Threads, NextClient(w)
  PROVE  LET th == t[w] u == t'[w] s == Head(th.todo) IN
         /\ th.pc = "next" /\ (th.todo # <<>> => nextId' = nextId + 1)
         /\ \/ /\ th.todo = <<>> /\ u.pc = "bridge" /\ u.err = th.err
               /\ KeepTopic(th, u) /\ KeepBridge(th, u) /\ KeepLists(th, u) /\ KeepClient(th, u)
            \/ /\ th.todo # <<>> /\ s \in ClientSpec /\ s.loc # NoLoc
               /\ u.pc = "grant" /\ u.todo = Tail(th.todo) /\ u.left = s.acts
               /\ u.cur = [id |-> nextId, fqtn |-> th.fqtn, loc |-> s.loc,
                           role |-> s.role, acts |-> s.acts, status |-> "VALID"]
               /\ u.err = th.err /\ u.view = th.view /\ u.dels = th.dels
               /\ KeepTopic(th, u) /\ KeepBridge(th, u)
            \/ /\ th.todo # <<>> /\ s \in ClientSpec /\ s.loc = NoLoc
               /\ u.pc = "next" /\ u.todo = Tail(th.todo) /\ u.err = th.err
               /\ u.view = th.view \cup {Null} /\ u.dels = th.dels
               /\ KeepTopic(th, u) /\ KeepBridge(th, u) /\ KeepClient(th, u)
            \/ /\ th.todo # <<>> /\ s \in ClientSpec /\ s.loc = NoLoc /\ th.err # "ok"
               /\ u = AddTopicReturns([th EXCEPT !.todo = Tail(th.todo)], FALSE)
<1> DEFINE th == t[w]
           s  == Head(th.todo)
           c  == [id |-> nextId, fqtn |-> th.fqtn, loc |-> s.loc,
                  role |-> s.role, acts |-> s.acts, status |-> "VALID"]
           rest == [th EXCEPT !.todo = Tail(th.todo)]
           u1 == [th EXCEPT !.pc = "bridge"]
           u2 == [rest EXCEPT !.pc = "grant", !.left = s.acts, !.cur = c]
           u3 == [rest EXCEPT !.view = rest.view \cup {Null}]
<1>1. th \in Thread /\ th.pc = "next" /\ (th.todo # <<>> => nextId' = nextId + 1)
      /\ \/ th.todo = <<>> /\ t'[w] = u1
         \/ /\ th.todo # <<>>
            /\ t'[w] = IF s.loc # NoLoc THEN u2 ELSE IF th.err = "ok" THEN u3
                       ELSE AddTopicReturns(rest, FALSE)
  <2>1. \A u : Go(w, u) => t'[w] = u
    BY Moves
  <2>2. th \in Thread
    BY DEF TypeInv, TypeOK
  <2> QED
    BY <2>1, <2>2 DEF NextClient
<1>2. th.todo # <<>> => s \in ClientSpec
  BY <1>1 DEF Thread
<1>3. /\ u1.pc = "bridge" /\ u1.err = th.err
      /\ KeepTopic(th, u1) /\ KeepBridge(th, u1) /\ KeepLists(th, u1) /\ KeepClient(th, u1)
  BY <1>1 DEF Thread, KeepTopic, KeepBridge, KeepLists, KeepClient
<1> HIDE DEF s, c
<1>4. /\ u2.pc = "grant" /\ u2.todo = Tail(th.todo) /\ u2.left = s.acts /\ u2.cur = c
      /\ u2.err = th.err /\ u2.view = th.view /\ u2.dels = th.dels
      /\ KeepTopic(th, u2) /\ KeepBridge(th, u2)
  BY <1>1 DEF Thread, KeepTopic, KeepBridge
<1>5. /\ u3.pc = "next" /\ u3.todo = Tail(th.todo) /\ u3.err = th.err
      /\ u3.view = th.view \cup {Null} /\ u3.dels = th.dels
      /\ KeepTopic(th, u3) /\ KeepBridge(th, u3) /\ KeepClient(th, u3)
  BY <1>1 DEF Thread, KeepTopic, KeepBridge, KeepClient
<1>6. rest = [th EXCEPT !.todo = Tail(th.todo)]
  OBVIOUS
<1> HIDE DEF u1, u2, u3, rest
<1> QED
  BY <1>1, <1>2, <1>3, <1>4, <1>5, <1>6 DEF s, c

LEMMA PutTopicStep ==
  ASSUME TypeInv, NEW w \in Threads, PutTopic(w)
  PROVE  LET th == t[w] u == t'[w] IN
         /\ th.pc = "putTopic" /\ topics' = [topics EXCEPT ![th.fqtn] = th.repl]
         /\ \/ /\ th.rq.op = "deleteClient" /\ u.pc = "revoke" /\ u.err = "ok"
               /\ KeepTopic(th, u) /\ KeepBridge(th, u) /\ KeepLists(th, u) /\ KeepClient(th, u)
            \/ /\ th.rq.op # "deleteClient"
               /\ u = AddTopicReturns([th EXCEPT !.err = "ok"], TRUE)
<1> DEFINE th == t[w]
           ok == [th EXCEPT !.err = "ok"]
           v  == [ok EXCEPT !.pc = "revoke"]
<1>1. th \in Thread
  BY DEF TypeInv, TypeOK
<1>2. /\ ok \in Thread /\ ok.pc = th.pc /\ ok.err = "ok" /\ KeepTopic(th, ok)
      /\ KeepClient(th, ok) /\ KeepBridge(th, ok) /\ KeepLists(th, ok)
  BY <1>1, SetsErr
<1>3. /\ ok.pc = "putTopic" /\ topics' = [topics EXCEPT ![ok.fqtn] = ok.repl]
      /\ t'[w] = IF ok.rq.op = "deleteClient" THEN v ELSE AddTopicReturns(ok, TRUE)
  BY Moves DEF PutTopic
<1> HIDE DEF ok
<1>4. /\ v.pc = "revoke" /\ v.err = "ok"
      /\ KeepTopic(ok, v) /\ KeepBridge(ok, v) /\ KeepLists(ok, v) /\ KeepClient(ok, v)
  BY <1>2 DEF Thread, KeepTopic, KeepBridge, KeepLists, KeepClient
<1> HIDE DEF v
<1>5. ok = [th EXCEPT !.err = "ok"]
  BY DEF ok
<1> QED
  BY <1>2, <1>3, <1>4, <1>5 DEF KeepTopic, KeepBridge, KeepLists, KeepClient

LEMMA ListClientsStep ==
  ASSUME TypeInv, NEW w \in Threads, ListClients(w)
  PROVE  LET th == t[w] u == t'[w] IN
         /\ th.pc = "list"
         /\ \/ u = Reply("notFound")
            \/ /\ u.pc \in {"dropTopic", "find"} /\ u.err = "ok"
               /\ u.dels = {c.id : c \in ClientsOf(th.fqtn)}
               /\ KeepTopic(th, u) /\ KeepClient(th, u) /\ KeepBridge(th, u)
<1> DEFINE th == t[w]
           ids == {c.id : c \in ClientsOf(th.fqtn)}
           v == [th EXCEPT !.dels = ids, !.err = "ok",
                           !.pc = IF ids = {} THEN "dropTopic" ELSE "find"]
<1>1. th \in Thread /\ th.pc = "list" /\ t'[w] \in {v, Reply("notFound")}
  BY Moves DEF ListClients
<1> HIDE DEF ids
<1>2. /\ v.pc \in {"dropTopic", "find"} /\ v.err = "ok" /\ v.dels = ids
      /\ KeepTopic(th, v) /\ KeepClient(th, v) /\ KeepBridge(th, v)
  BY <1>1 DEF Thread, KeepTopic, KeepClient, KeepBridge
<1> HIDE DEF v
<1> QED
  BY <1>1, <1>2 DEF ids

LEMMA DropTopicStep ==
  ASSUME TypeInv, NEW w \in Threads, DropTopic(w)
  PROVE  /\ t[w].pc = "dropTopic" /\ t'[w] = Success
         /\ topics' = [topics EXCEPT ![t[w].fqtn] = Absent]
  BY Moves DEF DropTopic

(* What the steps of addTopic and removeTopic leave alone.                 *)
LEMMA TopicFrame ==
  ASSUME NEW w \in Threads, TopicNext(w)
  PROVE  /\ UNCHANGED <<layer, clusters, clients, mirrors, grants, created, agent>>
         /\ PutTopic(w) \/ DropTopic(w) \/ UNCHANGED topics
         /\ nextId' = nextId \/ (NextClient(w) /\ nextId' = nextId + 1)
  BY DEF TopicNext, Review, Exists, AddPerm, NextClient, PutTopic, ListClients, DropTopic,
         aafVars, mrVars, ctlVars

(* The services of clients.                                                *)
LEMMA FindClusterStep ==
  ASSUME TypeInv, NEW w \in Threads, FindCluster(w)
  PROVE  LET th == t[w] u == t'[w] IN
         /\ th.pc = "cluster" /\ th.rq.op = "postClient"
         /\ \/ u = Reply("bad")
            \/ /\ u.pc = "topic" /\ u.err = "ok"
               /\ KeepTopic(th, u) /\ KeepClient(th, u) /\ KeepBridge(th, u) /\ KeepLists(th, u)
<1> DEFINE th == t[w]
           v  == [th EXCEPT !.err = "ok", !.pc = "topic"]
<1>1. th \in Thread /\ th.pc = "cluster" /\ t'[w] \in {v, Reply("bad")}
  BY Moves DEF FindCluster
<1>2. th.rq.op = "postClient"
  BY <1>1 DEF TypeInv, ThreadOK
<1>3. /\ v.pc = "topic" /\ v.err = "ok"
      /\ KeepTopic(th, v) /\ KeepClient(th, v) /\ KeepBridge(th, v) /\ KeepLists(th, v)
  BY <1>1 DEF Thread, KeepTopic, KeepClient, KeepBridge, KeepLists
<1> HIDE DEF v
<1> QED
  BY <1>1, <1>2, <1>3

LEMMA FindTopicStep ==
  ASSUME TypeInv, NEW w \in Threads, FindTopic(w)
  PROVE  LET th == t[w] u == t'[w] s == Head(th.rq.clients) IN
         /\ th.pc = "topic" /\ th.rq.op = "postClient" /\ nextId' = nextId + 1
         /\ \/ u = Reply("notFound")
            \/ /\ topics[th.fqtn] # Absent
               /\ u.pc = "grant" /\ u.left = s.acts /\ u.err = "ok"
               /\ u.cur = [id |-> IF th.rq.id = 0 THEN nextId ELSE th.rq.id,
                           fqtn |-> th.fqtn, loc |-> s.loc,
                           role |-> s.role, acts |-> s.acts, status |-> "VALID"]
               /\ KeepTopic(th, u) /\ KeepBridge(th, u) /\ KeepLists(th, u)
<1> DEFINE th == t[w]
           s  == Head(th.rq.clients)
           c  == [id |-> IF th.rq.id = 0 THEN nextId ELSE th.rq.id,
                  fqtn |-> th.fqtn, loc |-> s.loc,
                  role |-> s.role, acts |-> s.acts, status |-> "VALID"]
           v  == [th EXCEPT !.err = "ok", !.pc = "grant", !.left = s.acts, !.cur = c]
<1>1. /\ th \in Thread /\ th.pc = "topic" /\ nextId' = nextId + 1
      /\ t'[w] = IF topics[th.fqtn] = Absent THEN Reply("notFound") ELSE v
  BY Moves DEF FindTopic
<1>2. th.rq.op = "postClient"
  BY <1>1 DEF TypeInv, ThreadOK
<1> HIDE DEF s, c
<1>3. /\ v.pc = "grant" /\ v.err = "ok" /\ v.left = s.acts /\ v.cur = c
      /\ KeepTopic(th, v) /\ KeepBridge(th, v) /\ KeepLists(th, v)
  BY <1>1 DEF Thread, KeepTopic, KeepBridge, KeepLists
<1> HIDE DEF v
<1> QED
  BY <1>1, <1>2, <1>3 DEF s, c

LEMMA GrantStep ==
  ASSUME TypeInv, NEW w \in Threads, Grant(w)
  PROVE  LET th == t[w] u == t'[w] IN
         /\ th.pc = "grant"
         /\ \E a \in th.left :
              \/ /\ grants' = grants \cup {<<th.cur.fqtn, th.cur.role, a>>}
                 /\ u.pc = "grant" /\ u.left = th.left \ {a} /\ u.err = th.err
                 /\ u.cur = th.cur /\ u.posts = th.posts
                 /\ KeepTopic(th, u) /\ KeepBridge(th, u) /\ KeepLists(th, u)
              \/ /\ grants' \in {grants, grants \cup {<<th.cur.fqtn, th.cur.role, a>>}}
                 /\ u = AddClientFails([th EXCEPT !.err = "fail"])
              \/ /\ "aaf2xx" \in Faults
                 /\ grants' \in {grants, grants \cup {<<th.cur.fqtn, th.cur.role, a>>}}
                 /\ u.pc = IF th.rq.op = "postClient" THEN "reread" ELSE "next"
                 /\ u.view = IF th.rq.op = "postClient" THEN th.view
                             ELSE th.view \cup {NullOf(th.cur)}
                 /\ u.err = "ok" /\ u.left = {} /\ u.cur = th.cur /\ u.posts = th.posts
                 /\ u.todo = th.todo /\ u.dels = th.dels
                 /\ KeepTopic(th, u) /\ KeepBridge(th, u)
<1> DEFINE th == t[w]
           g(a) == <<th.cur.fqtn, th.cur.role, a>>
           v(a) == [th EXCEPT !.left = th.left \ {a}]
           f == AddClientFails([th EXCEPT !.err = "fail"])
           n == AddClientNull(th)
<1>1. PICK a \in th.left :
        \/ grants' = grants \cup {g(a)} /\ Go(w, v(a))
        \/ grants' \in {grants, grants \cup {g(a)}} /\ Go(w, f)
        \/ "aaf2xx" \in Faults /\ grants' \in {grants, grants \cup {g(a)}} /\ Go(w, n)
  BY DEF Grant
<1> HIDE DEF g, v, f, n
<1>2. th \in Thread /\ th.pc = "grant"
      /\ \/ grants' = grants \cup {g(a)} /\ t'[w] = v(a)
         \/ grants' \in {grants, grants \cup {g(a)}} /\ t'[w] = f
         \/ "aaf2xx" \in Faults /\ grants' \in {grants, grants \cup {g(a)}} /\ t'[w] = n
  BY <1>1, Moves DEF Grant
<1>3. /\ v(a).pc = th.pc /\ v(a).left = th.left \ {a} /\ v(a).err = th.err
      /\ v(a).cur = th.cur /\ v(a).posts = th.posts
      /\ KeepTopic(th, v(a)) /\ KeepBridge(th, v(a)) /\ KeepLists(th, v(a))
  BY <1>2 DEF Thread, KeepTopic, KeepBridge, KeepLists, v
<1>4. /\ n.pc = IF th.rq.op = "postClient" THEN "reread" ELSE "next"
      /\ n.view = IF th.rq.op = "postClient" THEN th.view ELSE th.view \cup {NullOf(th.cur)}
      /\ n.err = "ok" /\ n.left = {} /\ n.cur = th.cur /\ n.posts = th.posts
      /\ n.todo = th.todo /\ n.dels = th.dels
      /\ KeepTopic(th, n) /\ KeepBridge(th, n)
  BY <1>2, AddClientNullType DEF KeepTopic, KeepBridge, n
<1> QED
  BY <1>2, <1>3, <1>4 DEF g, f

(* A client but for its status.                                            *)
SameClient(c, d) == /\ c.id = d.id /\ c.fqtn = d.fqtn /\ c.loc = d.loc
                    /\ c.role = d.role /\ c.acts = d.acts

LEMMA PlaceStep ==
  ASSUME TypeInv, NEW w \in Threads, Place(w)
  PROVE  LET th == t[w] u == t'[w] l == th.cur.loc IN
         /\ th.pc = "grant" /\ th.left = {} /\ u.left = th.left /\ u.err = th.err
         /\ SameClient(u.cur, th.cur)
         /\ KeepTopic(th, u) /\ KeepBridge(th, u) /\ KeepLists(th, u)
         /\ \/ l \notin ClusterLocs /\ u.pc = "post" /\ u.posts = {} /\ u.cur.status = "STAGED"
            \/ /\ l \in ClusterLocs /\ layer[l] = "central"
               /\ u.pc = "centrals" /\ u.cur = th.cur
            \/ /\ l \in ClusterLocs /\ layer[l] # "central"
               /\ u.pc = "post" /\ u.posts = {l} /\ u.cur = th.cur
<1> DEFINE th == t[w]
           l  == th.cur.loc
           u1 == [th EXCEPT !.cur.status = "STAGED", !.posts = {}, !.pc = "post"]
           u2 == [th EXCEPT !.pc = "centrals"]
           u3 == [th EXCEPT !.posts = {l}, !.pc = "post"]
<1>1. /\ th \in Thread /\ th.pc = "grant" /\ th.left = {}
      /\ t'[w] = IF l \notin ClusterLocs THEN u1
                 ELSE IF layer[l] = "central" THEN u2 ELSE u3
  BY Moves DEF Place
<1>2. /\ SameClient(u1.cur, th.cur) /\ u1.cur.status = "STAGED"
      /\ u1.pc = "post" /\ u1.posts = {} /\ u1.left = th.left /\ u1.err = th.err
      /\ KeepTopic(th, u1) /\ KeepBridge(th, u1) /\ KeepLists(th, u1)
  BY <1>1 DEF Thread, Client, SameClient, KeepTopic, KeepBridge, KeepLists
<1>3. \A u \in {u2, u3} :
        /\ u.cur = th.cur /\ u.left = th.left /\ u.err = th.err
        /\ KeepTopic(th, u) /\ KeepBridge(th, u) /\ KeepLists(th, u)
  BY <1>1 DEF Thread, KeepTopic, KeepBridge, KeepLists
<1>4. u2.pc = "centrals" /\ u3.pc = "post" /\ u3.posts = {l}
  BY <1>1 DEF Thread
<1> HIDE DEF u1, u2, u3
<1>5. SameClient(th.cur, th.cur)
  BY DEF SameClient
<1> QED
  BY <1>1, <1>2, <1>3, <1>4, <1>5

LEMMA ListCentralsStep ==
  ASSUME TypeInv, NEW w \in Threads, ListCentrals(w)
  PROVE  LET th == t[w] u == t'[w] IN
         /\ th.pc = "centrals"
         /\ \/ u = ServerError
            \/ /\ u.pc = "post" /\ u.posts = Centrals /\ u.err = th.err
               /\ u.cur = th.cur /\ u.left = th.left
               /\ KeepTopic(th, u) /\ KeepBridge(th, u) /\ KeepLists(th, u)
<1> DEFINE th == t[w]
           v  == [th EXCEPT !.posts = Centrals, !.pc = "post"]
<1>1. th \in Thread /\ th.pc = "centrals" /\ t'[w] \in {v, ServerError}
  BY Moves DEF ListCentrals
<1>2. /\ v.pc = "post" /\ v.posts = Centrals /\ v.err = th.err
      /\ v.cur = th.cur /\ v.left = th.left
      /\ KeepTopic(th, v) /\ KeepBridge(th, v) /\ KeepLists(th, v)
  BY <1>1 DEF Thread, KeepTopic, KeepBridge, KeepLists
<1> HIDE DEF v
<1> QED
  BY <1>1, <1>2

LEMMA PostToClusterStep ==
  ASSUME TypeInv, NEW w \in Threads, PostToCluster(w)
  PROVE  LET th == t[w] u == t'[w] IN
         /\ th.pc = "post" /\ created \subseteq created'
         /\ \E l \in th.posts :
              \/ /\ u.pc = "post" /\ u.posts = th.posts \ {l} /\ u.left = th.left
                 /\ \/ /\ u.cur.status = "VALID"
                       /\ <<l, th.cur.fqtn>> \in created' \/ "mrConn" \in Faults
                    \/ u.cur.status = "INVALID"
                 /\ SameClient(u.cur, th.cur)
                 /\ u.err = "ok" \/ u.err = th.err
                 /\ KeepTopic(th, u) /\ KeepBridge(th, u) /\ KeepLists(th, u)
              \/ u = AddClientFails([th EXCEPT !.err = "fail"])
              \/ th.err # "ok" /\ u = AddClientFails(th)
<1> DEFINE th == t[w]
           v(l) == [th EXCEPT !.posts = th.posts \ {l}, !.cur.status = "VALID"]
           x(l) == [v(l) EXCEPT !.err = "ok"]
           z(l) == [v(l) EXCEPT !.cur.status = "INVALID"]
           f == AddClientFails([th EXCEPT !.err = "fail"])
<1>1. PICK l \in th.posts :
        \/ created' = created \cup {<<l, th.cur.fqtn>>} /\ Go(w, x(l))
        \/ created' \in {created, created \cup {<<l, th.cur.fqtn>>}} /\ Go(w, f)
        \/ /\ "mrConn" \in Faults /\ created' \in {created, created \cup {<<l, th.cur.fqtn>>}}
           /\ Go(w, IF th.err = "ok" THEN v(l) ELSE AddClientFails(th))
        \/ /\ created' = created
           /\ Go(w, IF th.err = "ok" THEN z(l) ELSE AddClientFails(th))
  BY DEF PostToCluster
<1> HIDE DEF v, x, z, f
<1>2. th \in Thread /\ th.pc = "post"
      /\ \/ created' = created \cup {<<l, th.cur.fqtn>>} /\ t'[w] = x(l)
         \/ created' \in {created, created \cup {<<l, th.cur.fqtn>>}} /\ t'[w] = f
         \/ /\ "mrConn" \in Faults /\ created' \in {created, created \cup {<<l, th.cur.fqtn>>}}
            /\ t'[w] = IF th.err = "ok" THEN v(l) ELSE AddClientFails(th)
         \/ /\ created' = created
            /\ t'[w] = IF th.err = "ok" THEN z(l) ELSE AddClientFails(th)
  BY <1>1, Moves DEF PostToCluster
<1> DEFINE y == v(l)
<1>3. /\ y.pc = th.pc /\ y.posts = th.posts \ {l} /\ y.left = th.left
      /\ y.cur.status = "VALID" /\ SameClient(y.cur, th.cur)
      /\ KeepTopic(th, y) /\ KeepBridge(th, y) /\ KeepLists(th, y)
  BY <1>2 DEF Thread, Client, SameClient, KeepTopic, KeepBridge, KeepLists, v
<1>6. /\ x(l).pc = y.pc /\ x(l).posts = y.posts /\ x(l).left = y.left /\ x(l).cur = y.cur
      /\ KeepTopic(y, x(l)) /\ KeepBridge(y, x(l)) /\ KeepLists(y, x(l))
  BY <1>2 DEF Thread, KeepTopic, KeepBridge, KeepLists, v, x
<1>4. v(l).err = th.err /\ x(l).err = "ok"
  BY <1>2 DEF Thread, Client, v, x
<1>5. created \subseteq created'
  BY <1>2
<1>7. /\ x(l).pc = th.pc /\ x(l).posts = th.posts \ {l} /\ x(l).left = th.left
      /\ x(l).cur.status = "VALID" /\ SameClient(x(l).cur, th.cur)
      /\ KeepTopic(th, x(l)) /\ KeepBridge(th, x(l)) /\ KeepLists(th, x(l))
  BY <1>3, <1>6 DEF KeepTopic, KeepBridge, KeepLists
<1>8. /\ z(l).pc = th.pc /\ z(l).posts = th.posts \ {l} /\ z(l).left = th.left
      /\ z(l).cur.status = "INVALID" /\ SameClient(z(l).cur, th.cur) /\ z(l).err = th.err
      /\ KeepTopic(th, z(l)) /\ KeepBridge(th, z(l)) /\ KeepLists(th, z(l))
  BY <1>2 DEF Thread, Client, SameClient, KeepTopic, KeepBridge, KeepLists, v, z
<1> QED
  BY <1>2, <1>3, <1>4, <1>5, <1>7, <1>8 DEF f

LEMMA StoreClientStep ==
  ASSUME TypeInv, NEW w \in Threads, StoreClient(w)
  PROVE  LET th == t[w] u == t'[w] IN
         /\ th.pc = "post" /\ th.posts = {} /\ clients' = Put(th.cur)
         /\ u.err = "ok" /\ u.todo = th.todo /\ u.dels = th.dels
         /\ KeepTopic(th, u) /\ KeepBridge(th, u) /\ KeepClient(th, u)
         /\ IF th.rq.op = "postClient" THEN u.pc = "reread" /\ u.view = th.view
            ELSE u.pc = "next" /\ u.view = th.view \cup {th.cur}
<1> DEFINE th == t[w]
           ok == [th EXCEPT !.err = "ok"]
           p  == [ok EXCEPT !.pc = "reread"]
           n  == [ok EXCEPT !.view = ok.view \cup {ok.cur}, !.pc = "next"]
<1>1. th \in Thread
  BY DEF TypeInv, TypeOK
<1>2. /\ ok \in Thread /\ ok.pc = th.pc /\ ok.err = "ok" /\ KeepTopic(th, ok)
      /\ KeepClient(th, ok) /\ KeepBridge(th, ok) /\ KeepLists(th, ok)
  BY <1>1, SetsErr
<1>3. /\ ok.pc = "post" /\ ok.posts = {} /\ clients' = Put(ok.cur)
      /\ t'[w] = IF ok.rq.op = "postClient" THEN p ELSE n
  BY Moves DEF StoreClient
<1> HIDE DEF ok
<1>4. /\ \A u \in {p, n} : /\ u.err = "ok" /\ u.todo = ok.todo /\ u.dels = ok.dels
                           /\ KeepTopic(ok, u) /\ KeepBridge(ok, u) /\ KeepClient(ok, u)
      /\ p.pc = "reread" /\ p.view = ok.view
      /\ n.pc = "next" /\ n.view = ok.view \cup {ok.cur}
  BY <1>2 DEF Thread, KeepTopic, KeepBridge, KeepClient
<1> HIDE DEF p, n
<1> QED
  BY <1>2, <1>3, <1>4 DEF KeepTopic, KeepBridge, KeepClient, KeepLists

LEMMA RereadStep ==
  ASSUME TypeInv, NEW w \in Threads, Reread(w)
  PROVE  LET th == t[w] u == t'[w] IN
         /\ th.pc = "reread" /\ th.rq.op = "postClient"
         /\ \/ u = ServerError
            \/ /\ topics[th.fqtn] # Absent
               /\ u.pc = "bridge" /\ u.repl = topics[th.fqtn] /\ u.view = ClientsOf(th.fqtn)
               /\ u.rq = th.rq /\ u.fqtn = th.fqtn /\ u.err = th.err
               /\ u.todo = th.todo /\ u.dels = th.dels
               /\ KeepClient(th, u) /\ KeepBridge(th, u)
<1> DEFINE th == t[w]
           v  == [th EXCEPT !.repl = topics[th.fqtn], !.view = ClientsOf(th.fqtn),
                            !.pc = "bridge"]
<1>1. th \in Thread /\ th.pc = "reread"
      /\ t'[w] = IF topics[th.fqtn] = Absent THEN ServerError ELSE v
  BY Moves DEF Reread
<1>2. th.rq.op = "postClient"
  BY <1>1 DEF TypeInv, ThreadOK
<1>3. /\ v.pc = "bridge" /\ v.repl = topics[th.fqtn] /\ v.view = ClientsOf(th.fqtn)
      /\ v.rq = th.rq /\ v.fqtn = th.fqtn /\ v.err = th.err
      /\ v.todo = th.todo /\ v.dels = th.dels
      /\ KeepClient(th, v) /\ KeepBridge(th, v)
  BY <1>1 DEF Thread, KeepClient, KeepBridge
<1> HIDE DEF v
<1> QED
  BY <1>1, <1>2, <1>3

LEMMA LookupClientStep ==
  ASSUME TypeInv, NEW w \in Threads, LookupClient(w)
  PROVE  LET th == t[w] u == t'[w] IN
         /\ th.pc = "lookup" /\ th.rq.op = "putClient"
         /\ u.pc = "overwrite" /\ u.rq = th.rq /\ u.fqtn = th.fqtn /\ u.dels = th.dels
<1> DEFINE th == t[w]
<1>1. PICK code : Go(w, [th EXCEPT !.pc = "overwrite", !.err = code])
  BY DEF LookupClient
<1>2. th \in Thread /\ th.pc = "lookup" /\ t'[w] = [th EXCEPT !.pc = "overwrite", !.err = code]
  BY <1>1, Moves DEF LookupClient
<1>3. th.rq.op = "putClient"
  BY <1>2 DEF TypeInv, ThreadOK
<1> QED
  BY <1>2, <1>3 DEF Thread

LEMMA OverwriteClientStep ==
  ASSUME TypeInv, NEW w \in Threads, OverwriteClient(w)
  PROVE  t[w].pc = "overwrite" /\ t[w].rq.op = "putClient" /\ \E code : t'[w] = Reply(code)
<1>1. \E code : Go(w, Reply(code))
  BY DEF OverwriteClient, Success
<1>2. t[w].pc = "overwrite" /\ \E code : t'[w] = Reply(code)
  BY <1>1, Moves DEF OverwriteClient
<1> QED
  BY <1>2 DEF TypeInv, ThreadOK

LEMMA FindClientStep ==
  ASSUME TypeInv, NEW w \in Threads, FindClient(w)
  PROVE  LET th == t[w] u == t'[w] IN
         /\ th.pc = "find"
         /\ \/ u = Reply("notFound")
            \/ /\ u.cur \in clients /\ u.cur.id \in th.dels /\ u.left = u.cur.acts
               /\ u.err = "ok" /\ u.posts = th.posts
               /\ u.pc = IF th.rq.op = "deleteClient" THEN "view" ELSE "revoke"
               /\ KeepTopic(th, u) /\ KeepBridge(th, u) /\ KeepLists(th, u)
<1> DEFINE th == t[w]
           q  == IF th.rq.op = "deleteClient" THEN "view" ELSE "revoke"
           v(c) == [th EXCEPT !.cur = c, !.left = c.acts, !.err = "ok", !.pc = q]
<1>1. th \in Thread /\ th.pc = "find"
      /\ (Go(w, Reply("notFound"))
            \/ \E c \in clients : c.id \in th.dels /\ Go(w, v(c)))
  BY DEF TypeInv, TypeOK, FindClient
<1>2. CASE Go(w, Reply("notFound"))
  BY <1>1, <1>2, Moves
<1>3. ASSUME NEW c \in clients, c.id \in th.dels, Go(w, v(c))
      PROVE  LET u == t'[w] IN
             /\ u.cur = c /\ u.left = c.acts /\ u.err = "ok" /\ u.posts = th.posts /\ u.pc = q
             /\ KeepTopic(th, u) /\ KeepBridge(th, u) /\ KeepLists(th, u)
  <2>1. t'[w] = v(c)
    BY <1>3, Moves
  <2> HIDE DEF q
  <2> QED
    BY <1>1, <2>1 DEF Thread, KeepTopic, KeepBridge, KeepLists
<1> HIDE DEF v
<1> QED
  BY <1>1, <1>2, <1>3

LEMMA ViewTopicStep ==
  ASSUME TypeInv, NEW w \in Threads, ViewTopic(w)
  PROVE  LET th == t[w] u == t'[w] f == th.cur.fqtn IN
         /\ th.pc = "view"
         /\ u.rq = th.rq /\ u.todo = th.todo /\ u.dels = th.dels
         /\ KeepClient(th, u) /\ KeepBridge(th, u)
         /\ \/ /\ topics[f] = Absent /\ u.pc = "revoke" /\ u.err = "notFound"
            \/ /\ topics[f] # Absent /\ u.pc = "bridge" /\ u.err = "ok"
               /\ u.fqtn = f /\ u.repl = topics[f]
               /\ u.view = {c \in ClientsOf(f) : c.id # th.cur.id}
<1> DEFINE th == t[w]
           f  == th.cur.fqtn
           cs == {c \in ClientsOf(f) : c.id # th.cur.id}
           v1 == [th EXCEPT !.err = "notFound", !.pc = "revoke"]
           v2 == [th EXCEPT !.fqtn = f, !.repl = topics[f], !.err = "ok",
                            !.view = cs, !.pc = "bridge"]
<1>1. /\ th \in Thread /\ th.pc = "view"
      /\ t'[w] = IF topics[f] = Absent THEN v1 ELSE v2
  BY Moves DEF ViewTopic
<1> HIDE DEF cs
<1>2. /\ v1.rq = th.rq /\ v1.todo = th.todo /\ v1.dels = th.dels
      /\ KeepClient(th, v1) /\ KeepBridge(th, v1)
      /\ v1.pc = "revoke" /\ v1.err = "notFound"
  BY <1>1 DEF Thread, KeepClient, KeepBridge
<1>3. /\ v2.rq = th.rq /\ v2.todo = th.todo /\ v2.dels = th.dels
      /\ KeepClient(th, v2) /\ KeepBridge(th, v2)
      /\ v2.pc = "bridge" /\ v2.err = "ok"
      /\ v2.fqtn = f /\ v2.repl = topics[f] /\ v2.view = cs
  BY <1>1 DEF Thread, KeepClient, KeepBridge
<1> HIDE DEF v1, v2
<1> QED
  BY <1>1, <1>2, <1>3 DEF cs

(* removeMr_Client returns: an answer, or the next client of removeTopic.  *)
LEMMA RemoveReturns ==
  ASSUME NEW th \in Thread, NEW u, u = RemoveClientReturns(th)
  PROVE  \/ /\ u.pc = "idle" /\ (u.reply = "success" => th.err = "ok")
            /\ th.rq.op # "deleteClient" => th.err # "ok"
         \/ /\ th.rq.op # "deleteClient" /\ th.err = "ok" /\ u.err = "ok"
            /\ u.pc \in {"dropTopic", "find"} /\ u.dels = th.dels \ {th.cur.id}
            /\ (u.pc = "dropTopic" <=> u.dels = {})
            /\ u.todo = th.todo /\ u.view = th.view
            /\ KeepTopic(th, u) /\ KeepClient(th, u) /\ KeepBridge(th, u)
<1> DEFINE rest == th.dels \ {th.cur.id}
           q == IF rest = {} THEN "dropTopic" ELSE "find"
           v == [th EXCEPT !.dels = rest, !.pc = q]
<1>1. u = IF th.rq.op = "deleteClient" THEN (IF th.err = "ok" THEN Success ELSE Reply(th.err))
          ELSE IF th.err # "ok" THEN Reply(th.err) ELSE v
  BY DEF RemoveClientReturns
<1>2. q \in {"dropTopic", "find"} /\ (q = "dropTopic" <=> rest = {})
  OBVIOUS
<1> HIDE DEF rest, q
<1>3. /\ v.pc = q /\ v.dels = rest /\ v.err = th.err /\ v.todo = th.todo /\ v.view = th.view
      /\ KeepTopic(th, v) /\ KeepClient(th, v) /\ KeepBridge(th, v)
  BY DEF Thread, KeepTopic, KeepClient, KeepBridge
<1>4. th.err \in Codes /\ "success" \notin Codes
  BY DEF Thread, Codes
<1> HIDE DEF v
<1> QED
  BY <1>1, <1>2, <1>3, <1>4, Replies DEF Success, rest

(* What an answer or a return leads to.                                    *)
LEMMA Ends ==
  ASSUME NEW th \in Thread, NEW u,
         \/ u \in {ServerError, Success} \/ (\E code : u = Reply(code))
         \/ u = AddTopicReturns(th, TRUE) \/ u = AddTopicReturns(th, FALSE)
         \/ u = AddClientFails(th) \/ u = RemoveClientReturns(th)
  PROVE  u.pc \in {"idle", "clusterInvalid", "dropTopic", "find"}
<1>1. CASE u \in {ServerError, Success} \/ \E code : u = Reply(code)
  BY <1>1, Replies DEF ServerError, Success
<1>2. CASE u = AddTopicReturns(th, TRUE) \/ u = AddTopicReturns(th, FALSE)
           \/ u = AddClientFails(th)
  <2>1. Over(th, u)
    BY <1>2, Returns, Fails
  <2> QED
    BY <2>1 DEF Over
<1>3. CASE u = RemoveClientReturns(th)
  BY <1>3, RemoveReturns
<1> QED
  BY <1>1, <1>2, <1>3

LEMMA RevokeGrantStep ==
  ASSUME TypeInv, NEW w \in Threads, RevokeGrant(w)
  PROVE  LET th == t[w] u == t'[w] IN
         /\ th.pc = "revoke" /\ DeleteLevel >= 2
         /\ \E a \in th.left :
              \/ /\ grants' = grants \ {<<th.cur.fqtn, th.cur.role, a>>}
                 /\ u.pc = "revoke" /\ u.left = th.left \ {a} /\ u.err = th.err
                 /\ u.cur = th.cur /\ u.posts = th.posts
                 /\ KeepTopic(th, u) /\ KeepBridge(th, u) /\ KeepLists(th, u)
              \/ /\ grants' \in {grants, grants \ {<<th.cur.fqtn, th.cur.role, a>>}}
                 /\ u = RemoveClientReturns([th EXCEPT !.err = "fail"])
              \/ /\ "aaf2xx" \in Faults
                 /\ grants' \in {grants, grants \ {<<th.cur.fqtn, th.cur.role, a>>}}
                 /\ u.pc = "drop" /\ u.err = "ok"
                 /\ KeepTopic(th, u) /\ KeepClient(th, u) /\ KeepBridge(th, u)
                 /\ KeepLists(th, u)
<1> DEFINE th == t[w]
           g(a) == <<th.cur.fqtn, th.cur.role, a>>
           v(a) == [th EXCEPT !.left = th.left \ {a}]
           f == RemoveClientReturns([th EXCEPT !.err = "fail"])
           d == [th EXCEPT !.err = "ok", !.pc = "drop"]
<1>1. PICK a \in th.left :
        \/ grants' = grants \ {g(a)} /\ Go(w, v(a))
        \/ grants' \in {grants, grants \ {g(a)}} /\ Go(w, f)
        \/ "aaf2xx" \in Faults /\ grants' \in {grants, grants \ {g(a)}} /\ Go(w, d)
  BY DEF RevokeGrant
<1> HIDE DEF g, v, f, d
<1>2. th \in Thread /\ th.pc = "revoke" /\ DeleteLevel >= 2
      /\ \/ grants' = grants \ {g(a)} /\ t'[w] = v(a)
         \/ grants' \in {grants, grants \ {g(a)}} /\ t'[w] = f
         \/ "aaf2xx" \in Faults /\ grants' \in {grants, grants \ {g(a)}} /\ t'[w] = d
  BY <1>1, Moves DEF RevokeGrant
<1>3. /\ v(a).pc = th.pc /\ v(a).left = th.left \ {a} /\ v(a).err = th.err
      /\ v(a).cur = th.cur /\ v(a).posts = th.posts
      /\ KeepTopic(th, v(a)) /\ KeepBridge(th, v(a)) /\ KeepLists(th, v(a))
  BY <1>2 DEF Thread, KeepTopic, KeepBridge, KeepLists, v
<1>4. /\ d.pc = "drop" /\ d.err = "ok"
      /\ KeepTopic(th, d) /\ KeepClient(th, d) /\ KeepBridge(th, d) /\ KeepLists(th, d)
  BY <1>2 DEF Thread, KeepTopic, KeepClient, KeepBridge, KeepLists, d
<1> QED
  BY <1>2, <1>3, <1>4 DEF g, f

LEMMA DropClientStep ==
  ASSUME TypeInv, NEW w \in Threads, DropClient(w)
  PROVE  LET th == t[w] IN
         /\ \/ th.pc = "revoke" /\ (DeleteLevel >= 2 => th.left = {})
            \/ th.pc = "drop"
         /\ clients' = IF DeleteLevel = 1 \/ (DeleteLevel >= 2 /\ th.err = "ok")
                       THEN {c \in clients : c.id # th.cur.id} ELSE clients
         /\ t'[w] = RemoveClientReturns(th)
  BY Moves DEF DropClient

(* What the services of clients leave alone.                               *)
LEMMA ClientFrame ==
  ASSUME NEW w \in Threads, ClientNext(w)
  PROVE  /\ UNCHANGED <<layer, clusters, topics, mirrors, perms, agent>>
         /\ Grant(w) \/ RevokeGrant(w) \/ UNCHANGED grants
         /\ StoreClient(w) \/ OverwriteClient(w) \/ DropClient(w) \/ UNCHANGED clients
         /\ PostToCluster(w) \/ UNCHANGED created
         /\ FindTopic(w) \/ UNCHANGED nextId
<1>1. CASE FindCluster(w) \/ FindTopic(w) \/ Grant(w) \/ Place(w) \/ ListCentrals(w)
  BY <1>1 DEF FindCluster, FindTopic, Grant, Place, ListCentrals, aafVars, mrVars, ctlVars
<1>2. CASE PostToCluster(w) \/ StoreClient(w) \/ Reread(w) \/ LookupClient(w)
  BY <1>2 DEF PostToCluster, StoreClient, Reread, LookupClient, aafVars, mrVars, ctlVars
<1>3. CASE OverwriteClient(w) \/ FindClient(w) \/ ViewTopic(w) \/ RevokeGrant(w) \/ DropClient(w)
  BY <1>3 DEF OverwriteClient, FindClient, ViewTopic, RevokeGrant, DropClient,
     aafVars, mrVars, ctlVars
<1> QED
  BY <1>1, <1>2, <1>3 DEF ClientNext

(* checkForBridge and updateMirrorMaker.  BridgeSteps: what all of their   *)
(* steps but the last have in common.                                      *)
InBridge == {"loc", "plan", "mmCreate", "mmWhitelist", "mmPut"}
KeepWork(th, u) == KeepTopic(th, u) /\ KeepClient(th, u) /\ KeepLists(th, u)

LEMMA ChecksBridge ==
  ASSUME NEW th \in Thread, NEW valid \in BOOLEAN, NEW u, u = BridgeReturns(th, valid)
  PROVE  \/ th.rq.op = "postClient" /\ u = Success
         \/ /\ th.rq.op # "postClient" /\ (th.rq.op = "deleteClient" \/ valid)
            /\ u.pc = IF th.rq.op = "deleteClient" /\ ~valid THEN "revoke" ELSE "putTopic"
            /\ u.err = th.err /\ KeepWork(th, u) /\ KeepBridge(th, u)
         \/ /\ th.rq.op \notin {"postClient", "deleteClient"} /\ ~valid
            /\ u = AddTopicReturns(th, FALSE)
<1>1. \A q : LET v == [th EXCEPT !.pc = q]
             IN v.pc = q /\ v.err = th.err /\ KeepWork(th, v) /\ KeepBridge(th, v)
  BY DEF Thread, KeepWork, KeepTopic, KeepClient, KeepLists, KeepBridge
<1> QED
  BY <1>1 DEF BridgeReturns

LEMMA StartBridgeStep ==
  ASSUME TypeInv, NEW w \in Threads, StartBridge(w)
  PROVE  LET th == t[w] u == t'[w] g == GraphOf(th.view, TRUE, layer) IN
         /\ th.pc = "bridge"
         /\ \/ th.repl = None /\ u = BridgeReturns(th, TRUE)
            \/ u = ServerError
            \/ /\ th.repl # None /\ \A c \in th.view : ~IsNull(c)
               /\ u.pc = "loc" /\ u.locs = g /\ u.wrong = FALSE
               /\ u.hub \in CentralChoices(g, layer, NoLoc)
               /\ u.err = th.err /\ KeepWork(th, u)
<1> DEFINE th == t[w]
           g  == GraphOf(th.view, TRUE, layer)
           v(c) == [th EXCEPT !.locs = g, !.hub = c, !.wrong = FALSE, !.pc = "loc"]
<1>1. /\ th \in Thread /\ th.pc = "bridge"
      /\ IF th.repl = None THEN Go(w, BridgeReturns(th, TRUE))
         ELSE IF \E c \in th.view : IsNull(c) THEN Go(w, ServerError)
         ELSE \E c \in CentralChoices(g, layer, NoLoc) : Go(w, v(c))
  BY DEF TypeInv, TypeOK, StartBridge
<1>2. \A u : Go(w, u) => t'[w] = u
  BY Moves
<1>3. ASSUME NEW c \in CentralChoices(g, layer, NoLoc), Go(w, v(c))
      PROVE  LET u == t'[w] IN
             /\ u.pc = "loc" /\ u.locs = g /\ u.wrong = FALSE /\ u.hub = c
             /\ u.err = th.err /\ KeepWork(th, u)
  <2>1. t'[w] = v(c)
    BY <1>2, <1>3
  <2> HIDE DEF g
  <2> QED
    BY <1>1, <2>1 DEF Thread, KeepWork, KeepTopic, KeepClient, KeepLists
<1> HIDE DEF v, g
<1>4. CASE th.repl = None \/ \E c \in th.view : IsNull(c)
  BY <1>1, <1>2, <1>4
<1>5. CASE th.repl # None /\ \A c \in th.view : ~IsNull(c)
  BY <1>1, <1>3, <1>5 DEF g
<1> QED
  BY <1>4, <1>5

LEMMA VisitLocStep ==
  ASSUME TypeInv, NEW w \in Threads, VisitLoc(w)
  PROVE  LET th == t[w] u == t'[w] IN
         /\ th.pc = "loc" /\ u.err = th.err /\ u.hub = th.hub /\ u.mm = th.mm /\ KeepWork(th, u)
         /\ \E l \in th.locs :
              /\ u.locs = th.locs \ {l}
              /\ \/ /\ th.repl = NotSpecified /\ u.pc = "loc" /\ u.wrong = TRUE
                    /\ u.plan = th.plan
                 \/ /\ th.repl # NotSpecified /\ u.pc = "plan" /\ u.wrong = th.wrong
                    /\ u.plan = StepsAt(th.repl, th.hub, l, l \in ClusterLocs)
<1> DEFINE th == t[w]
           steps(l) == StepsAt(th.repl, th.hub, l, l \in ClusterLocs)
           rest(l) == [th EXCEPT !.locs = th.locs \ {l}]
           v1(l) == [rest(l) EXCEPT !.wrong = TRUE]
           v2(l) == [rest(l) EXCEPT !.pc = "plan", !.plan = steps(l)]
<1>1. PICK l \in th.locs : Go(w, IF th.repl = NotSpecified THEN v1(l) ELSE v2(l))
  BY DEF VisitLoc
<1> HIDE DEF steps, v1, v2
<1>2. /\ th \in Thread /\ th.pc = "loc"
      /\ t'[w] = IF th.repl = NotSpecified THEN v1(l) ELSE v2(l)
  BY <1>1, Moves DEF VisitLoc
<1>3. \A u \in {v1(l), v2(l)} :
        /\ u.err = th.err /\ u.hub = th.hub /\ u.mm = th.mm /\ KeepWork(th, u)
        /\ u.locs = th.locs \ {l}
  BY <1>2 DEF Thread, KeepWork, KeepTopic, KeepClient, KeepLists, v1, v2
<1>4. /\ v1(l).pc = th.pc /\ v1(l).wrong = TRUE /\ v1(l).plan = th.plan
      /\ v2(l).pc = "plan" /\ v2(l).wrong = th.wrong /\ v2(l).plan = steps(l)
  BY <1>2 DEF Thread, v1, v2
<1> QED
  BY <1>2, <1>3, <1>4 DEF steps

LEMMA EndBridgeStep ==
  ASSUME TypeInv, NEW w \in Threads, EndBridge(w)
  PROVE  LET th == t[w] IN
         th.pc = "loc" /\ th.locs = {} /\ t'[w] = BridgeReturns(th, ~th.wrong)
  BY Moves DEF EndBridge

LEMMA ReadMmStep ==
  ASSUME TypeInv, NEW w \in Threads, ReadMm(w)
  PROVE  LET th == t[w] u == t'[w] b == Head(th.plan) IN
         /\ th.pc = "plan"
         /\ \/ u = ServerError
            \/ /\ u.err = th.err /\ KeepWork(th, u)
               /\ u.locs = th.locs /\ u.hub = th.hub /\ u.plan = th.plan /\ u.wrong = th.wrong
               /\ \/ th.plan = <<>> /\ u.pc = "loc" /\ u.mm = th.mm
                  \/ /\ th.plan # <<>> /\ b # Npe /\ u.pc = "mmCreate"
                     /\ u.mm = Append(IF b \in DOMAIN mirrors THEN mirrors[b] ELSE <<>>,
                                      th.fqtn)
<1> DEFINE th == t[w]
           b  == Head(th.plan)
           m  == Append(IF b \in DOMAIN mirrors THEN mirrors[b] ELSE <<>>, th.fqtn)
           v1 == [th EXCEPT !.pc = "loc"]
           v2 == [th EXCEPT !.pc = "mmCreate", !.mm = m]
<1>1. /\ th \in Thread /\ th.pc = "plan"
      /\ t'[w] = IF th.plan = <<>> THEN v1 ELSE IF b = Npe THEN ServerError ELSE v2
  BY Moves DEF ReadMm
<1> HIDE DEF m
<1>2. \A u \in {v1, v2} :
        /\ u.err = th.err /\ KeepWork(th, u)
        /\ u.locs = th.locs /\ u.hub = th.hub /\ u.plan = th.plan /\ u.wrong = th.wrong
  BY <1>1 DEF Thread, KeepWork, KeepTopic, KeepClient, KeepLists
<1>3. v1.pc = "loc" /\ v1.mm = th.mm /\ v2.pc = "mmCreate" /\ v2.mm = m
  BY <1>1 DEF Thread
<1> HIDE DEF v1, v2
<1> QED
  BY <1>1, <1>2, <1>3 DEF m

LEMMA SendCreateStep ==
  ASSUME TypeInv, NEW w \in Threads, SendCreate(w)
  PROVE  LET th == t[w] u == t'[w] IN
         /\ th.pc = "mmCreate" /\ KeepWork(th, u) /\ u.hub = th.hub /\ u.mm = th.mm
         /\ \/ /\ u.err = "fail" /\ u.wrong = TRUE /\ u.locs = {} /\ u.plan = <<>> /\ u.pc = "loc"
            \/ /\ u.pc \in {"mmPut", "mmWhitelist"} /\ u.err = th.err /\ KeepBridge(th, u)
<1> DEFINE th == t[w]
           v1 == [th EXCEPT !.err = "fail", !.wrong = TRUE, !.locs = {}, !.plan = <<>>,
                            !.pc = "loc"]
           v2(q) == [th EXCEPT !.pc = q]
<1>1. /\ th \in Thread /\ th.pc = "mmCreate"
      /\ t'[w] \in {v1, v2("mmPut"), v2("mmWhitelist")}
  BY Moves DEF SendCreate
<1>2. /\ v1.err = "fail" /\ v1.wrong = TRUE /\ v1.locs = {} /\ v1.plan = <<>> /\ v1.pc = "loc"
      /\ KeepWork(th, v1) /\ v1.hub = th.hub /\ v1.mm = th.mm
  BY <1>1 DEF Thread, KeepWork, KeepTopic, KeepClient, KeepLists
<1>3. \A q : v2(q).pc = q /\ v2(q).err = th.err /\ KeepBridge(th, v2(q)) /\ KeepWork(th, v2(q))
  BY <1>1 DEF Thread, KeepWork, KeepTopic, KeepClient, KeepLists, KeepBridge
<1> HIDE DEF v1, v2
<1> QED
  BY <1>1, <1>2, <1>3 DEF KeepBridge

LEMMA SendWhitelistStep ==
  ASSUME TypeInv, NEW w \in Threads, SendWhitelist(w)
  PROVE  LET th == t[w] u == t'[w] IN
         /\ th.pc = "mmWhitelist" /\ u.pc = "mmPut" /\ u.err = th.err
         /\ KeepWork(th, u) /\ KeepBridge(th, u)
         /\ agent' = agent \/ agent' = Set(agent, Head(th.plan), th.mm)
<1> DEFINE th == t[w]
           v  == [th EXCEPT !.pc = "mmPut"]
<1>1. /\ th \in Thread /\ th.pc = "mmWhitelist" /\ t'[w] = v
      /\ agent' = agent \/ agent' = Set(agent, Head(th.plan), th.mm)
  BY Moves DEF SendWhitelist
<1>2. v.pc = "mmPut" /\ v.err = th.err /\ KeepWork(th, v) /\ KeepBridge(th, v)
  BY <1>1 DEF Thread, KeepWork, KeepTopic, KeepClient, KeepLists, KeepBridge
<1> QED
  BY <1>1, <1>2

LEMMA PutMmStep ==
  ASSUME TypeInv, NEW w \in Threads, PutMm(w)
  PROVE  LET th == t[w] u == t'[w] IN
         /\ th.pc = "mmPut" /\ u.pc = "plan" /\ u.err = th.err /\ u.plan = Tail(th.plan)
         /\ KeepWork(th, u) /\ u.locs = th.locs /\ u.hub = th.hub /\ u.mm = th.mm
         /\ u.wrong = th.wrong
         /\ mirrors' = Set(mirrors, Head(th.plan), th.mm)
<1> DEFINE th == t[w]
           v  == [th EXCEPT !.plan = Tail(th.plan), !.pc = "plan"]
<1>1. /\ th \in Thread /\ th.pc = "mmPut" /\ t'[w] = v
      /\ mirrors' = Set(mirrors, Head(th.plan), th.mm)
  BY Moves DEF PutMm
<1>2. /\ v.pc = "plan" /\ v.err = th.err /\ v.plan = Tail(th.plan)
      /\ KeepWork(th, v) /\ v.locs = th.locs /\ v.hub = th.hub /\ v.mm = th.mm
      /\ v.wrong = th.wrong
  BY <1>1 DEF Thread, KeepWork, KeepTopic, KeepClient, KeepLists
<1> QED
  BY <1>1, <1>2

LEMMA BridgeFrame ==
  ASSUME NEW w \in Threads, BridgeNext(w)
  PROVE  /\ UNCHANGED <<layer, clusters, topics, clients, perms, grants, created, nextId>>
         /\ PutMm(w) \/ UNCHANGED mirrors
         /\ SendWhitelist(w) \/ UNCHANGED agent
  BY DEF BridgeNext, StartBridge, VisitLoc, EndBridge, ReadMm, SendCreate, SendWhitelist,
     PutMm, aafVars, mrVars, ctlVars

(* The services of clusters and locations: they end the request, carry it  *)
(* on, or begin to add the bridge admin topic.                             *)
AdminSpec(l, role) == [loc |-> l, role |-> role, acts |-> Actions]

LEMMA ClusterStep ==
  ASSUME TypeInv, NEW w \in Threads, ClusterNext(w)
  PROVE  LET th == t[w] u == t'[w] IN
         \/ /\ u.pc = "idle"
            /\ \/ u.reply # "success"
               \/ th.pc \in {"clusterLoc", "clusterRemove", "locPut", "locRemove"}
         \/ /\ u.rq = th.rq /\ u.dels = th.dels
            /\ \/ /\ th.pc = "clusterGet" /\ u.pc = "clusterPut"
                  /\ th.rq.op \in {"postCluster", "putCluster"}
               \/ /\ th.pc = "clusterGet" /\ u.pc = "clusterRemove"
                  /\ th.rq.op \notin {"postCluster", "putCluster"}
               \/ th.pc = "clusterPut" /\ u.pc = "clusterLoc"
               \/ th.pc = "locGet" /\ u.pc = "locPut"
         \/ /\ th.pc \in {"clusterLoc", "central"} /\ u.rq = th.rq
            /\ u.pc = "exists" /\ u.fqtn = AdminTopic /\ u.err = th.err
            /\ u.repl = NotSpecified /\ u.view = th.view /\ u.dels = th.dels
            /\ \E l \in Locs : u.todo = <<AdminSpec(l, ProvRole), AdminSpec(l, AgentRole)>>
<1> DEFINE th == t[w]
           Stops(code) == Go(w, Reply(code))
           On(q) == [th EXCEPT !.pc = q]
           Admin(l) == AddAdminTopic(th, l)
<1>0. th \in Thread /\ th.rq.loc \in Locs
  BY ConstantsAssumption DEF TypeInv, TypeOK, Thread, Request
<1>1. \A u : Go(w, u) => t'[w] = u
  BY Moves
<1>2. \A code : Stops(code) => t'[w].pc = "idle" /\ t'[w].reply = code
  BY <1>1, Replies
<1>3. \A q : Go(w, On(q)) => t'[w].pc = q /\ t'[w].rq = th.rq /\ t'[w].dels = th.dels
  BY <1>0, <1>1 DEF Thread
<1>4. \A l : Go(w, Admin(l)) =>
        LET u == t'[w] IN
        /\ u.rq = th.rq /\ u.pc = "exists" /\ u.fqtn = AdminTopic /\ u.err = th.err
        /\ u.repl = NotSpecified /\ u.view = th.view /\ u.dels = th.dels
        /\ u.todo = <<AdminSpec(l, ProvRole), AdminSpec(l, AgentRole)>>
  BY <1>0, <1>1 DEF Thread, AddAdminTopic, AdminSpec
<1> HIDE DEF th, Stops, On, Admin
<1>5. CASE GetCluster(w)
  BY <1>2, <1>3, <1>5 DEF GetCluster, Stops, On, th
<1>6. CASE PutCluster(w)
  BY <1>3, <1>6 DEF PutCluster, On, th
<1>7. CASE ClusterLocation(w)
  <2>1. th.pc = "clusterLoc" /\ (Go(w, Admin(th.rq.loc)) \/ \E code : Stops(code))
    BY <1>7 DEF ClusterLocation, Stops, Admin, th, ClusterAnswer, ServerError, Success
  <2> QED
    BY <1>0, <1>2, <1>4, <2>1 DEF th
<1>8. CASE InvalidateCluster(w)
  <2>1. Stops("ok")
    BY <1>8 DEF InvalidateCluster, ClusterAnswer, Stops
  <2> QED
    BY <1>2, <2>1
<1>9. CASE RemoveCluster(w) \/ PutLocation(w) \/ RemoveLocation(w)
  <2>1. Stops("success") /\ th.pc \in {"clusterRemove", "locPut", "locRemove"}
    BY <1>9 DEF RemoveCluster, PutLocation, RemoveLocation, Success, Stops, th
  <2> QED
    BY <1>2, <2>1 DEF th
<1>10. CASE CentralLocation(w)
  <2>1. th.pc = "central" /\ \E l \in Locs : Go(w, Admin(l))
    BY <1>10, ConstantsAssumption DEF CentralLocation, CentralChoices, Admin, th
  <2> QED
    BY <1>4, <2>1 DEF th
<1>11. CASE GetLocation(w)
  BY <1>2, <1>3, <1>11 DEF GetLocation, Stops, On, th
<1> QED
  BY <1>5, <1>6, <1>7, <1>8, <1>9, <1>10, <1>11 DEF ClusterNext

LEMMA ClusterFrame ==
  ASSUME NEW w \in Threads, ClusterNext(w)
  PROVE  /\ UNCHANGED <<topics, clients, mirrors, perms, grants, created, agent, nextId>>
         /\ PutLocation(w) \/ RemoveLocation(w) \/ UNCHANGED layer
         /\ PutCluster(w) \/ InvalidateCluster(w) \/ RemoveCluster(w) \/ UNCHANGED clusters
  BY DEF ClusterNext, GetCluster, PutCluster, ClusterLocation, InvalidateCluster,
     RemoveCluster, CentralLocation, GetLocation, PutLocation, RemoveLocation,
     aafVars, mrVars, ctlVars

(* A request begins, or all of them are lost with the process.             *)
LEMMA StartStep ==
  ASSUME TypeInv, NEW w \in Threads, Start(w)
  PROVE  LET th == t[w] u == t'[w] IN
         /\ th.pc = "idle" /\ u.rq \in Requests /\ u.pc = FirstStep(u.rq)
         /\ u.fqtn = u.rq.fqtn /\ u.repl = u.rq.repl /\ u.todo = u.rq.clients
         /\ u.dels = {u.rq.id} /\ u.err = "none" /\ u.view = {} /\ u.posts = {}
         /\ UNCHANGED <<layer, clusters, topics, clients, mirrors, perms, grants, created,
                        agent, nextId>>
<1> DEFINE v(r) == [Idle EXCEPT !.pc = FirstStep(r), !.rq = r, !.fqtn = r.fqtn,
                      !.repl = r.repl, !.todo = r.clients, !.dels = {r.id}]
<1>1. PICK r \in Requests : Go(w, v(r))
  BY DEF Start
<1>2. t'[w] = v(r)
  BY <1>1, Moves
<1> DEFINE p == FirstStep(r)
<1> HIDE DEF p
<1>3. LET u == [Idle EXCEPT !.pc = p, !.rq = r, !.fqtn = r.fqtn,
                  !.repl = r.repl, !.todo = r.clients, !.dels = {r.id}]
      IN  /\ u.rq = r /\ u.pc = p /\ u.fqtn = r.fqtn /\ u.repl = r.repl /\ u.todo = r.clients
          /\ u.dels = {r.id} /\ u.err = "none" /\ u.view = {} /\ u.posts = {}
  BY DEF Idle
<1>4. LET u == v(r) IN
      /\ u.rq = r /\ u.pc = FirstStep(r) /\ u.fqtn = r.fqtn /\ u.repl = r.repl
      /\ u.todo = r.clients
      /\ u.dels = {r.id} /\ u.err = "none" /\ u.view = {} /\ u.posts = {}
  BY <1>3 DEF p
<1> HIDE DEF v
<1> QED
  BY <1>2, <1>4 DEF Start, aafVars, mrVars

LEMMA Others ==
  ASSUME TypeInv, NEW w \in Threads, Start(w) \/ Serve(w)
  PROVE  \A v \in Threads : v # w => t'[v] = t[v]
<1>1. \E u : Go(w, u)
  <2>1. CASE Start(w)
    BY <2>1 DEF Start
  <2>2. CASE TopicNext(w)
    BY <2>2 DEF TopicNext, Review, Exists, AddPerm, NextClient, PutTopic, ListClients,
       DropTopic
  <2>3. CASE ClientNext(w)
    BY <2>3 DEF ClientNext, FindCluster, FindTopic, Grant, Place, ListCentrals,
       PostToCluster, StoreClient, Reread, LookupClient, OverwriteClient, FindClient,
       ViewTopic, RevokeGrant, DropClient
  <2>4. CASE BridgeNext(w)
    BY <2>4, BridgeNextSteps DEF BridgeStep
  <2>5. CASE ClusterNext(w)
    BY <2>5, ClusterNextSteps
  <2> QED
    BY <2>1, <2>2, <2>3, <2>4, <2>5 DEF Serve
<1> QED
  BY <1>1, Moves

LEMMA ExitStep ==
  ASSUME ExitProcess \/ UNCHANGED vars
  PROVE  /\ \A v \in Threads : t'[v] = t[v] \/ t'[v] = Idle
         /\ UNCHANGED <<layer, clusters, topics, clients, mirrors, perms, grants, created,
                        agent, nextId>>
  BY DEF ExitProcess, vars, aafVars, mrVars

(* A thread serves one request until it is over, and works on one topic    *)
(* but for the two steps that take one up.                                 *)
LEMMA SameRequest ==
  ASSUME TypeInv, NEW w \in Threads, Serve(w)
  PROVE  \/ t'[w].pc = "idle"
         \/ /\ t'[w].rq = t[w].rq
            /\ \/ t'[w].pc = "clusterInvalid" \/ t'[w].fqtn = t[w].fqtn
               \/ ViewTopic(w) \/ ClusterNext(w)
<1> DEFINE th == t[w]
           u  == t'[w]
           Same == u.pc = "clusterInvalid" \/ u.fqtn = th.fqtn \/ ViewTopic(w) \/ ClusterNext(w)
           Goal == u.pc = "idle" \/ (u.rq = th.rq /\ Same)
<1>0. th \in Thread
  BY DEF TypeInv, TypeOK
<1>1. \A code : u = Reply(code) => Goal
  BY Replies
<1>2. u = Success \/ u = ServerError => Goal
  BY <1>1 DEF Success, ServerError
<1>3. KeepTopic(th, u) \/ Over(th, u) => Goal
  BY DEF KeepTopic, Over
<1>4. \A v : /\ v \in Thread /\ v.rq = th.rq /\ v.fqtn = th.fqtn
             /\ \/ u = AddClientFails(v) \/ u = RemoveClientReturns(v)
                \/ u = AddTopicReturns(v, TRUE) \/ u = AddTopicReturns(v, FALSE)
             => Goal
  <2> SUFFICES ASSUME NEW v \in Thread, v.rq = th.rq, v.fqtn = th.fqtn,
                      \/ u = AddClientFails(v) \/ u = RemoveClientReturns(v)
                      \/ u = AddTopicReturns(v, TRUE) \/ u = AddTopicReturns(v, FALSE)
               PROVE  Goal
    OBVIOUS
  <2>1. Over(v, u) \/ u.pc = "idle" \/ KeepTopic(v, u)
    <3> HIDE DEF u
    <3> QED
      BY Fails, Returns, RemoveReturns
  <2> QED
    BY <2>1 DEF Over, KeepTopic
<1>5. \A code \in {"ok", "conflict", "fail", "notFound"} :
        /\ [th EXCEPT !.err = code] \in Thread /\ [th EXCEPT !.err = code].rq = th.rq
        /\ [th EXCEPT !.err = code].fqtn = th.fqtn
  BY <1>0 DEF Thread, Codes
<1>6. \A x \in BOOLEAN : u = BridgeReturns(th, x) => Goal
  <2> SUFFICES ASSUME NEW x \in BOOLEAN, u = BridgeReturns(th, x) PROVE Goal
    OBVIOUS
  <2>1. u = Success \/ KeepWork(th, u) \/ u = AddTopicReturns(th, FALSE)
    <3> HIDE DEF u
    <3>1. CASE x
      <4>1. u = BridgeReturns(th, TRUE)
        BY <3>1
      <4> QED
        BY <1>0, <4>1, ChecksBridge
    <3>2. CASE ~x
      <4>1. u = BridgeReturns(th, FALSE)
        BY <3>2
      <4> QED
        BY <1>0, <4>1, ChecksBridge
    <3> QED
      BY <3>1, <3>2
  <2> QED
    BY <1>0, <1>2, <1>3, <1>4, <2>1 DEF KeepWork
<1>7. CASE TopicNext(w)
  <2>1. CASE Review(w)
    BY <2>1, ReviewStep
  <2>2. CASE Exists(w)
    BY <1>3, <1>4, <1>5, <2>2, ExistsStep
  <2>3. CASE AddPerm(w)
    BY <1>3, <1>4, <1>5, <2>3, AddPermStep
  <2>4. CASE NextClient(w)
    <3>1. \/ KeepTopic(th, u)
          \/ th.todo # <<>> /\ u = AddTopicReturns([th EXCEPT !.todo = Tail(th.todo)], FALSE)
      BY <2>4, NextClientStep
    <3>2. th.todo # <<>> => LET v == [th EXCEPT !.todo = Tail(th.todo)]
                            IN  v \in Thread /\ v.rq = th.rq /\ v.fqtn = th.fqtn
      <4>1. th.todo # <<>> => Tail(th.todo) \in Seq(ClientSpec)
        BY <1>0 DEF Thread
      <4> QED
        BY <1>0, <4>1 DEF Thread
    <3> QED
      BY <1>3, <1>4, <3>1, <3>2
  <2>5. CASE PutTopic(w)
    BY <1>3, <1>4, <1>5, <2>5, PutTopicStep
  <2>6. CASE ListClients(w)
    BY <1>1, <1>3, <2>6, ListClientsStep
  <2>7. CASE DropTopic(w)
    BY <1>2, <2>7, DropTopicStep
  <2> QED
    BY <1>7, <2>1, <2>2, <2>3, <2>4, <2>5, <2>6, <2>7 DEF TopicNext
<1>8. CASE ClientNext(w)
  <2>1. CASE FindCluster(w)
    BY <1>1, <1>3, <2>1, FindClusterStep
  <2>2. CASE FindTopic(w)
    BY <1>1, <1>3, <2>2, FindTopicStep
  <2>3. CASE Grant(w)
    BY <1>3, <1>4, <1>5, <2>3, GrantStep
  <2>4. CASE Place(w)
    BY <1>3, <2>4, PlaceStep
  <2>5. CASE ListCentrals(w)
    BY <1>2, <1>3, <2>5, ListCentralsStep
  <2>6. CASE PostToCluster(w)
    BY <1>0, <1>3, <1>4, <1>5, <2>6, PostToClusterStep
  <2>7. CASE StoreClient(w)
    BY <1>3, <2>7, StoreClientStep
  <2>8. CASE Reread(w)
    BY <1>2, <2>8, RereadStep
  <2>9. CASE LookupClient(w)
    BY <2>9, LookupClientStep
  <2>10. CASE OverwriteClient(w)
    BY <1>1, <2>10, OverwriteClientStep
  <2>11. CASE FindClient(w)
    BY <1>1, <1>3, <2>11, FindClientStep
  <2>12. CASE ViewTopic(w)
    BY <2>12, ViewTopicStep
  <2>13. CASE RevokeGrant(w)
    BY <1>3, <1>4, <1>5, <2>13, RevokeGrantStep
  <2>14. CASE DropClient(w)
    BY <1>0, <1>4, <2>14, DropClientStep
  <2> QED
    BY <1>8, <2>1, <2>2, <2>3, <2>4, <2>5, <2>6, <2>7, <2>8, <2>9, <2>10, <2>11, <2>12,
       <2>13, <2>14 DEF ClientNext
<1>9. CASE BridgeNext(w)
  <2>1. KeepWork(th, u) => Goal
    BY <1>3 DEF KeepWork
  <2>2. CASE StartBridge(w)
    BY <1>2, <1>6, <2>1, <2>2, StartBridgeStep
  <2>3. CASE VisitLoc(w)
    BY <2>1, <2>3, VisitLocStep
  <2>4. CASE EndBridge(w)
    BY <1>6, <2>4, EndBridgeStep
  <2>5. CASE ReadMm(w)
    BY <1>2, <2>1, <2>5, ReadMmStep
  <2>6. CASE SendCreate(w)
    BY <2>1, <2>6, SendCreateStep
  <2>7. CASE SendWhitelist(w)
    BY <2>1, <2>7, SendWhitelistStep
  <2>8. CASE PutMm(w)
    BY <2>1, <2>8, PutMmStep
  <2> QED
    BY <1>9, <2>2, <2>3, <2>4, <2>5, <2>6, <2>7, <2>8 DEF BridgeNext
<1>10. CASE ClusterNext(w)
  BY <1>10, ClusterStep
<1> QED
  BY <1>7, <1>8, <1>9, <1>10 DEF Serve
LEMMA ServesBusy == ASSUME TypeInv, NEW w \in Threads, Serve(w) PROVE t[w].pc # "idle"
<1>1. CASE TopicNext(w)
  BY <1>1, ReviewStep, ExistsStep, AddPermStep, NextClientStep, PutTopicStep, ListClientsStep,
     DropTopicStep DEF TopicNext
<1>2. CASE ClientNext(w)
  <2>1. CASE FindCluster(w) \/ FindTopic(w) \/ Grant(w) \/ Place(w) \/ ListCentrals(w)
             \/ PostToCluster(w)
    BY <2>1, FindClusterStep, FindTopicStep, GrantStep, PlaceStep, ListCentralsStep,
       PostToClusterStep
  <2>2. CASE StoreClient(w) \/ Reread(w) \/ LookupClient(w) \/ OverwriteClient(w)
    BY <2>2, StoreClientStep, RereadStep, LookupClientStep, OverwriteClientStep
  <2>3. CASE FindClient(w) \/ ViewTopic(w) \/ RevokeGrant(w) \/ DropClient(w)
    BY <2>3, FindClientStep, ViewTopicStep, RevokeGrantStep, DropClientStep
  <2> QED
    BY <1>2, <2>1, <2>2, <2>3 DEF ClientNext
<1>3. CASE BridgeNext(w)
  BY <1>3, StartBridgeStep, VisitLocStep, EndBridgeStep, ReadMmStep, SendCreateStep,
     SendWhitelistStep, PutMmStep DEF BridgeNext
<1>4. CASE ClusterNext(w)
  BY <1>4 DEF ClusterNext, GetCluster, PutCluster, ClusterLocation, InvalidateCluster,
     RemoveCluster, CentralLocation, GetLocation, PutLocation, RemoveLocation
<1> QED
  BY <1>1, <1>2, <1>3, <1>4 DEF Serve

(* Which operations a step belongs to.                                     *)
AddOps == {"postTopic", "createMmaTopic", "postCluster", "putCluster"}
OpOK(th) ==
  /\ th.pc = "review" => th.rq.op = "postTopic"
  /\ th.pc \in {"exists", "perm", "next"} => th.rq.op \in AddOps
  /\ th.pc \in {"grant", "centrals", "post"} => th.rq.op \in AddOps \cup {"postClient"}
  /\ th.pc \in {"bridge"} \cup InBridge => th.rq.op \in AddOps \cup {"postClient", "deleteClient"}
  /\ th.pc = "putTopic" => th.rq.op \in AddOps \cup {"deleteClient"}
  /\ th.pc \in {"list", "dropTopic"} => th.rq.op = "deleteTopic"
  /\ th.pc \in {"find", "revoke", "drop"} => th.rq.op \in {"deleteTopic", "deleteClient"}
  /\ th.pc = "drop" => "aaf2xx" \in Faults
  /\ th.pc = "view" => th.rq.op = "deleteClient"
  /\ th.pc = "central" => th.rq.op = "createMmaTopic"
  /\ th.pc \in {"clusterPut", "clusterLoc", "clusterInvalid"} =>
       th.rq.op \in {"postCluster", "putCluster"}
  /\ th.pc = "clusterGet" => th.rq.op \in {"postCluster", "putCluster", "deleteCluster"}
  /\ th.pc = "clusterRemove" => th.rq.op = "deleteCluster"
  /\ th.pc \in {"locGet", "locPut"} => th.rq.op \in {"postLocation", "putLocation"}
  /\ th.pc = "locRemove" => th.rq.op = "deleteLocation"
OpInv == \A w \in Threads : OpOK(t[w])

LEMMA OpOver ==
  ASSUME NEW th, NEW u, Over(th, u), th.rq.op \in AddOps \/ u.pc = "idle" PROVE OpOK(u)
  BY DEF Over, OpOK, AddOps, InBridge

LEMMA OpIdle == ASSUME NEW u, u.pc = "idle" PROVE OpOK(u)
  BY DEF OpOK, InBridge

(* The records a service method returns with.                              *)
LEMMA OpReturns ==
  ASSUME NEW th \in Thread, th.rq.op \in AddOps, NEW code \in {"ok", "conflict", "fail"},
         NEW stored \in BOOLEAN, NEW u, u = AddTopicReturns([th EXCEPT !.err = code], stored)
  PROVE  OpOK(u)
<1> DEFINE v == [th EXCEPT !.err = code]
<1>1. v \in Thread /\ v.rq = th.rq
  <2>1. code \in {"ok", "conflict", "fail", "notFound"}
    OBVIOUS
  <2> QED
    BY <2>1, SetsErr DEF KeepTopic
<1> HIDE DEF v
<1>2. Over(v, u)
  BY <1>1, Returns DEF v
<1> QED
  BY <1>1, <1>2, OpOver

LEMMA OpFails ==
  ASSUME NEW th \in Thread, th.rq.op \in AddOps \cup {"postClient"}, NEW u, u = AddClientFails(th)
  PROVE  OpOK(u)
<1>1. Over(th, u) /\ (th.rq.op = "postClient" => u.pc = "idle")
  BY Fails
<1> QED
  BY <1>1, OpOver

LEMMA OpTopic ==
  ASSUME TypeInv, NEW w \in Threads, TopicNext(w), OpOK(t[w])
  PROVE  OpOK(t'[w])
<1> DEFINE th == t[w]
           u  == t'[w]
<1>0. th \in Thread /\ OpOK(th)
  BY DEF TypeInv, TypeOK
<1> HIDE DEF th, u
<1>1. CASE Review(w)
  BY <1>0, <1>1, ReviewStep DEF OpOK, AddOps, InBridge, th, u
<1>2. CASE Exists(w)
  <2>1. th.rq.op \in AddOps
    BY <1>0, <1>2, ExistsStep DEF OpOK, th
  <2>2. \/ u = AddTopicReturns([th EXCEPT !.err = "conflict"], FALSE)
        \/ u.pc = "perm" /\ u.rq = th.rq
    BY <1>2, ExistsStep DEF KeepTopic, th, u
  <2>3. u = AddTopicReturns([th EXCEPT !.err = "conflict"], FALSE) => OpOK(u)
    BY <1>0, <2>1, OpReturns
  <2>4. u.pc = "perm" /\ u.rq = th.rq => OpOK(u)
    BY <2>1 DEF OpOK, InBridge
  <2> QED
    BY <2>2, <2>3, <2>4 DEF u
<1>3. CASE AddPerm(w)
  <2>1. th.rq.op \in AddOps
    BY <1>0, <1>3, AddPermStep DEF OpOK, th
  <2>2. \/ u = AddTopicReturns([th EXCEPT !.err = "fail"], FALSE)
        \/ u.pc \in {"perm", "next"} /\ u.rq = th.rq
    BY <1>3, AddPermStep DEF KeepTopic, th, u
  <2>3. u = AddTopicReturns([th EXCEPT !.err = "fail"], FALSE) => OpOK(u)
    BY <1>0, <2>1, OpReturns
  <2>4. u.pc \in {"perm", "next"} /\ u.rq = th.rq => OpOK(u)
    BY <2>1 DEF OpOK, InBridge
  <2> QED
    BY <2>2, <2>3, <2>4 DEF u
<1>4. CASE NextClient(w)
  <2> DEFINE v == [th EXCEPT !.todo = Tail(th.todo)]
  <2>1. th.rq.op \in AddOps
    BY <1>0, <1>4, NextClientStep DEF OpOK, th
  <2>2. \/ th.todo # <<>> /\ u = AddTopicReturns(v, FALSE)
        \/ u.pc \in {"bridge", "grant", "next"} /\ u.rq = th.rq
    BY <1>4, NextClientStep DEF KeepTopic, th, u
  <2>3. ASSUME th.todo # <<>>, u = AddTopicReturns(v, FALSE) PROVE OpOK(u)
    <3>1. Tail(th.todo) \in Seq(ClientSpec)
      BY <1>0, <2>3 DEF Thread
    <3>2. v \in Thread /\ v.rq = th.rq
      BY <1>0, <3>1 DEF Thread
    <3> HIDE DEF v
    <3>3. Over(v, u)
      BY <2>3, <3>2, Returns
    <3> QED
      BY <2>1, <3>2, <3>3, OpOver
  <2>4. u.pc \in {"bridge", "grant", "next"} /\ u.rq = th.rq => OpOK(u)
    BY <2>1 DEF OpOK, InBridge
  <2> QED
    BY <2>2, <2>3, <2>4 DEF u
<1>5. CASE PutTopic(w)
  <2>1. \/ th.rq.op = "deleteClient" /\ u.pc = "revoke" /\ u.rq = th.rq
        \/ /\ th.rq.op # "deleteClient"
           /\ u = AddTopicReturns([th EXCEPT !.err = "ok"], TRUE)
    BY <1>5, PutTopicStep DEF KeepTopic, th, u
  <2>2. th.rq.op \in AddOps \cup {"deleteClient"}
    BY <1>0, <1>5, PutTopicStep DEF OpOK, th
  <2>3. th.rq.op # "deleteClient" => OpOK(u)
    BY <1>0, <2>1, <2>2, OpReturns
  <2>4. th.rq.op = "deleteClient" => OpOK(u)
    BY <2>1 DEF OpOK, InBridge
  <2> QED
    BY <2>3, <2>4 DEF u
<1>6. CASE ListClients(w)
  <2>1. th.rq.op = "deleteTopic"
    BY <1>0, <1>6, ListClientsStep DEF OpOK, th
  <2>2. u.pc = "idle" \/ (u.pc \in {"dropTopic", "find"} /\ u.rq = th.rq)
    BY <1>6, ListClientsStep, Replies DEF KeepTopic, th, u
  <2> QED
    BY <2>1, <2>2 DEF OpOK, InBridge, u
<1>7. CASE DropTopic(w)
  BY <1>7, DropTopicStep, Replies, OpIdle DEF Success, u
<1> QED
  BY <1>1, <1>2, <1>3, <1>4, <1>5, <1>6, <1>7 DEF TopicNext, u

LEMMA OpClient ==
  ASSUME TypeInv, NEW w \in Threads, ClientNext(w), OpOK(t[w])
  PROVE  OpOK(t'[w])
<1> DEFINE th == t[w]
           u  == t'[w]
<1>0. th \in Thread /\ OpOK(th)
  BY DEF TypeInv, TypeOK
<1>a. \A code : u = Reply(code) => OpOK(u)
  BY Replies, OpIdle
<1>b. u = Success \/ u = ServerError => OpOK(u)
  BY <1>a DEF Success, ServerError
<1>c. ASSUME th.rq.op \in AddOps \cup {"postClient"},
             u = AddClientFails(th) \/ u = AddClientFails([th EXCEPT !.err = "fail"])
      PROVE  OpOK(u)
  <2>1. [th EXCEPT !.err = "fail"] \in Thread /\ [th EXCEPT !.err = "fail"].rq = th.rq
    BY <1>0, SetsErr DEF KeepTopic
  <2> QED
    BY <1>0, <1>c, <2>1, OpFails
<1>d. ASSUME th.rq.op \in {"deleteTopic", "deleteClient"},
             u = RemoveClientReturns(th) \/ u = RemoveClientReturns([th EXCEPT !.err = "fail"])
      PROVE  OpOK(u)
  <2>1. [th EXCEPT !.err = "fail"] \in Thread /\ [th EXCEPT !.err = "fail"].rq = th.rq
    BY <1>0, SetsErr DEF KeepTopic
  <2>2. PICK v \in Thread : v.rq = th.rq /\ u = RemoveClientReturns(v)
    BY <1>0, <1>d, <2>1
  <2>3. u.pc = "idle" \/ (/\ v.rq.op # "deleteClient" /\ u.pc \in {"dropTopic", "find"}
                          /\ u.rq = v.rq)
    <3> HIDE DEF u
    <3> QED
      BY <2>2, RemoveReturns DEF KeepTopic
  <2> QED
    BY <1>d, <2>2, <2>3 DEF OpOK, InBridge
<1> HIDE DEF th, u
<1>1. CASE FindCluster(w)
  <2>1. \/ u = Reply("bad")
        \/ u.pc = "topic"
    BY <1>1, FindClusterStep DEF th, u
  <2>2. u.pc = "topic" => OpOK(u)
    BY DEF OpOK, InBridge
  <2> QED
    BY <1>a, <2>1, <2>2 DEF u
<1>2. CASE FindTopic(w)
  <2>1. \/ u = Reply("notFound")
        \/ u.pc = "grant" /\ u.rq.op = "postClient"
    BY <1>2, FindTopicStep DEF th, u, KeepTopic
  <2>2. u.pc = "grant" /\ u.rq.op = "postClient" => OpOK(u)
    BY DEF OpOK, InBridge
  <2> QED
    BY <1>a, <2>1, <2>2 DEF u
<1>3. CASE Grant(w) \/ Place(w) \/ ListCentrals(w) \/ PostToCluster(w)
  <2>1. th.pc \in {"grant", "centrals", "post"}
    BY <1>3, GrantStep, PlaceStep, ListCentralsStep, PostToClusterStep DEF th
  <2>2. \/ u.pc \in {"grant", "centrals", "post"} /\ u.rq = th.rq
        \/ u.rq = th.rq /\ u.pc = IF th.rq.op = "postClient" THEN "reread" ELSE "next"
        \/ u = ServerError
        \/ u = AddClientFails(th) \/ u = AddClientFails([th EXCEPT !.err = "fail"])
    BY <1>3, GrantStep, PlaceStep, ListCentralsStep, PostToClusterStep DEF th, u, KeepTopic
  <2>3. th.rq.op \in AddOps \cup {"postClient"}
    BY <1>0, <2>1 DEF OpOK
  <2>4. u.pc \in {"grant", "centrals", "post"} /\ u.rq = th.rq => OpOK(u)
    BY <2>3 DEF OpOK, InBridge
  <2>5. u.rq = th.rq /\ (u.pc = IF th.rq.op = "postClient" THEN "reread" ELSE "next")
          => OpOK(u)
    BY <2>3 DEF OpOK, InBridge
  <2> QED
    BY <1>b, <1>c, <2>2, <2>3, <2>4, <2>5 DEF u
<1>4. CASE StoreClient(w)
  <2>1. th.rq.op \in AddOps \cup {"postClient"}
    BY <1>0, <1>4, StoreClientStep DEF OpOK, th
  <2>2. u.rq = th.rq /\ IF th.rq.op = "postClient" THEN u.pc = "reread" ELSE u.pc = "next"
    BY <1>4, StoreClientStep DEF th, u, KeepTopic
  <2> QED
    BY <2>1, <2>2 DEF OpOK, InBridge, u
<1>5. CASE Reread(w)
  <2>1. u = ServerError \/ (u.pc = "bridge" /\ u.rq.op = "postClient")
    BY <1>5, RereadStep DEF u
  <2>2. u.pc = "bridge" /\ u.rq.op = "postClient" => OpOK(u)
    BY DEF OpOK, InBridge
  <2> QED
    BY <1>b, <2>1, <2>2 DEF u
<1>6. CASE LookupClient(w)
  BY <1>6, LookupClientStep DEF OpOK, InBridge
<1>7. CASE OverwriteClient(w)
  BY <1>a, <1>7, OverwriteClientStep DEF u
<1>8. CASE FindClient(w)
  <2>1. th.rq.op \in {"deleteTopic", "deleteClient"}
    BY <1>0, <1>8, FindClientStep DEF OpOK, th
  <2>2. \/ u = Reply("notFound")
        \/ u.rq = th.rq /\ u.pc = IF th.rq.op = "deleteClient" THEN "view" ELSE "revoke"
    BY <1>8, FindClientStep DEF th, u, KeepTopic
  <2>3. u.rq = th.rq /\ (u.pc = IF th.rq.op = "deleteClient" THEN "view" ELSE "revoke")
          => OpOK(u)
    BY <2>1 DEF OpOK, InBridge
  <2> QED
    BY <1>a, <2>2, <2>3 DEF u
<1>9. CASE ViewTopic(w)
  <2>1. th.rq.op = "deleteClient" /\ u.rq = th.rq /\ u.pc \in {"revoke", "bridge"}
    BY <1>0, <1>9, ViewTopicStep DEF OpOK, th, u
  <2> QED
    BY <2>1 DEF OpOK, InBridge, u
<1>10. CASE RevokeGrant(w) \/ DropClient(w)
  <2>1. th.rq.op \in {"deleteTopic", "deleteClient"} /\ th.pc \in {"revoke", "drop"}
    BY <1>0, <1>10, RevokeGrantStep, DropClientStep DEF OpOK, th
  <2>2. \/ u.rq = th.rq /\ (u.pc = "revoke" \/ (u.pc = "drop" /\ "aaf2xx" \in Faults))
        \/ u = RemoveClientReturns(th) \/ u = RemoveClientReturns([th EXCEPT !.err = "fail"])
    BY <1>10, RevokeGrantStep, DropClientStep DEF th, u, KeepTopic
  <2>3. u.rq = th.rq /\ (u.pc = "revoke" \/ (u.pc = "drop" /\ "aaf2xx" \in Faults)) => OpOK(u)
    BY <2>1 DEF OpOK, InBridge
  <2> QED
    BY <1>d, <2>1, <2>2, <2>3 DEF u
<1> QED
  BY <1>1, <1>2, <1>3, <1>4, <1>5, <1>6, <1>7, <1>8, <1>9, <1>10 DEF ClientNext, u

LEMMA OpBridge ==
  ASSUME TypeInv, NEW w \in Threads, BridgeNext(w), OpOK(t[w])
  PROVE  OpOK(t'[w])
<1> DEFINE th == t[w]
           u  == t'[w]
<1>0. th \in Thread /\ OpOK(th)
  BY DEF TypeInv, TypeOK
<1>1. th.pc \in {"bridge"} \cup InBridge
  BY StartBridgeStep, VisitLocStep, EndBridgeStep, ReadMmStep, SendCreateStep,
     SendWhitelistStep, PutMmStep DEF BridgeNext, InBridge
<1>2. th.rq.op \in AddOps \cup {"postClient", "deleteClient"}
  BY <1>0, <1>1 DEF OpOK
<1>3. ASSUME u = BridgeReturns(th, TRUE) \/ u = BridgeReturns(th, FALSE)
      PROVE  OpOK(u)
  <2> HIDE DEF th, u
  <2>1. \/ u = Success
        \/ /\ u.pc \in {"revoke", "putTopic"} /\ KeepWork(th, u)
           /\ u.pc = "revoke" => th.rq.op = "deleteClient"
           /\ th.rq.op # "postClient"
        \/ th.rq.op \notin {"postClient", "deleteClient"} /\ u = AddTopicReturns(th, FALSE)
    <3>1. CASE u = BridgeReturns(th, TRUE)
      BY <1>0, <3>1, ChecksBridge
    <3>2. CASE u = BridgeReturns(th, FALSE)
      BY <1>0, <3>2, ChecksBridge
    <3> QED
      BY <1>3, <3>1, <3>2
  <2>2. CASE u = Success
    BY <2>2, Replies, OpIdle DEF Success
  <2>3. CASE /\ u.pc \in {"revoke", "putTopic"} /\ KeepWork(th, u)
             /\ u.pc = "revoke" => th.rq.op = "deleteClient"
             /\ th.rq.op # "postClient"
    BY <1>2, <2>3 DEF OpOK, InBridge, KeepWork, KeepTopic
  <2>4. CASE th.rq.op \notin {"postClient", "deleteClient"} /\ u = AddTopicReturns(th, FALSE)
    <3>1. Over(th, u)
      BY <1>0, <2>4, Returns
    <3> QED
      BY <1>2, <2>4, <3>1, OpOver
  <2> QED
    BY <2>1, <2>2, <2>3, <2>4
<1>4. u = ServerError => OpOK(u)
  BY Replies, OpIdle DEF ServerError
<1>5. KeepWork(th, u) /\ u.pc \in InBridge => OpOK(u)
  BY <1>2 DEF OpOK, InBridge, KeepWork, KeepTopic
<1> HIDE DEF th, u
<1>6. CASE StartBridge(w)
  BY <1>3, <1>4, <1>5, <1>6, StartBridgeStep DEF InBridge, th, u
<1>7. CASE VisitLoc(w) \/ SendCreate(w) \/ SendWhitelist(w) \/ PutMm(w)
  BY <1>5, <1>7, VisitLocStep, SendCreateStep, SendWhitelistStep, PutMmStep
  DEF InBridge, th, u
<1>8. CASE EndBridge(w)
  <2>1. u = BridgeReturns(th, TRUE) \/ u = BridgeReturns(th, FALSE)
    BY <1>8, EndBridgeStep DEF th, u
  <2> QED
    BY <1>3, <2>1 DEF u
<1>9. CASE ReadMm(w)
  BY <1>4, <1>5, <1>9, ReadMmStep DEF InBridge, th, u
<1> QED
  BY <1>6, <1>7, <1>8, <1>9 DEF BridgeNext, u

LEMMA OpNext == ASSUME TypeInv, OpInv, [Next]_vars PROVE OpInv'
<1>1. ASSUME NEW w \in Threads, Start(w) PROVE OpInv'
  <2>1. t'[w].rq.op \in Ops /\ t'[w].pc = FirstStep(t'[w].rq)
    BY <1>1, StartStep, ConstantsAssumption DEF Request
  <2>2. OpOK(t'[w])
    BY <2>1 DEF OpOK, FirstStep, AddOps, InBridge, Ops
  <2> QED
    BY <1>1, <2>2, Others DEF OpInv
<1>2. ASSUME NEW w \in Threads, Serve(w) PROVE OpInv'
  <2>1. OpOK(t[w])
    BY DEF OpInv
  <2>2. ASSUME ClusterNext(w) PROVE OpOK(t'[w])
    <3> DEFINE th == t[w]
               u  == t'[w]
    <3>1. \/ u.pc = "idle"
          \/ /\ u.rq = th.rq
             /\ \/ u.pc = "clusterPut" /\ th.rq.op \in {"postCluster", "putCluster"}
                \/ /\ th.pc = "clusterGet" /\ u.pc = "clusterRemove"
                   /\ th.rq.op \notin {"postCluster", "putCluster"}
                \/ th.pc = "clusterPut" /\ u.pc = "clusterLoc"
                \/ th.pc = "locGet" /\ u.pc = "locPut"
                \/ th.pc \in {"clusterLoc", "central"} /\ u.pc = "exists"
      BY <2>2, ClusterStep
    <3> HIDE DEF th, u
    <3>2. OpOK(th)
      BY <2>1 DEF th
    <3>3. OpOK(u)
      BY <3>1, <3>2 DEF OpOK, AddOps, InBridge
    <3> QED
      BY <3>3 DEF u
  <2>3. OpOK(t'[w])
    <3>1. TopicNext(w) \/ ClientNext(w) \/ BridgeNext(w) \/ ClusterNext(w)
      BY <1>2 DEF Serve
    <3> QED
      BY <2>1, <2>2, <3>1, OpTopic, OpClient, OpBridge
  <2> QED
    BY <1>2, <2>3, Others DEF OpInv
<1>3. ASSUME ExitProcess \/ UNCHANGED vars PROVE OpInv'
  <2>1. OpOK(Idle)
    BY OpIdle DEF Idle
  <2> QED
    BY <1>3, <2>1, ExitStep DEF OpInv
<1> QED
  BY <1>1, <1>2, <1>3 DEF Next, Finished

LEMMA InitOps == Init => OpInv
  BY OpIdle DEF Init, OpInv, Idle

-----------------------------------------------------------------------------
(* DELETE mr_clients works on the client it was asked for.                 *)
DelPcs == {"find", "view", "bridge", "putTopic", "revoke", "drop"} \cup InBridge
DelOK(th) ==
  th.pc # "idle" /\ th.rq.op = "deleteClient" =>
    /\ th.pc \in DelPcs /\ th.dels = {th.rq.id}
    /\ th.pc # "find" => th.cur.id = th.rq.id
DelInv == \A w \in Threads : DelOK(t[w])

(* What a step of such a request does.                                     *)
DelStep(th, u) ==
  \/ u.pc = "idle" /\ u.reply # "success"
  \/ u.pc = "idle" /\ \A c \in clients' : c.id # th.rq.id
  \/ u.pc \in DelPcs /\ u.rq = th.rq /\ u.dels = th.dels /\ u.cur.id = th.rq.id

LEMMA DelAnswers == ASSUME NEW code, code # "success", NEW th, NEW u, u = Reply(code)
                    PROVE  DelStep(th, u)
  BY Replies DEF DelStep

LEMMA DelBridge ==
  ASSUME TypeInv, NEW w \in Threads, BridgeNext(w), DelOK(t[w]),
         t[w].pc # "idle", t[w].rq.op = "deleteClient"
  PROVE  DelStep(t[w], t'[w])
<1> DEFINE th == t[w]
           u  == t'[w]
<1>0. th \in Thread
  BY DEF TypeInv, TypeOK
<1>1. th.pc # "find" => th.cur.id = th.rq.id /\ th.dels = {th.rq.id}
  BY DEF DelOK
<1>2. th.pc # "find" /\ KeepWork(th, u) /\ u.pc \in DelPcs => DelStep(th, u)
  BY <1>1 DEF KeepWork, KeepTopic, KeepClient, KeepLists, DelStep
<1>3. u = ServerError => DelStep(th, u)
  BY DelAnswers DEF ServerError
<1>4. u = BridgeReturns(th, TRUE) \/ u = BridgeReturns(th, FALSE)
        => KeepWork(th, u) /\ u.pc \in DelPcs
  <2>1. ASSUME u = BridgeReturns(th, TRUE) PROVE KeepWork(th, u) /\ u.pc \in DelPcs
    BY <1>0, <2>1, ChecksBridge DEF DelPcs
  <2>2. ASSUME u = BridgeReturns(th, FALSE) PROVE KeepWork(th, u) /\ u.pc \in DelPcs
    BY <1>0, <2>2, ChecksBridge DEF DelPcs
  <2> QED
    BY <2>1, <2>2
<1> HIDE DEF th, u
<1>5. CASE StartBridge(w)
  BY <1>2, <1>3, <1>4, <1>5, StartBridgeStep DEF DelPcs, InBridge, th, u
<1>6. CASE VisitLoc(w)
  BY <1>2, <1>6, VisitLocStep DEF DelPcs, InBridge, th, u
<1>7. CASE EndBridge(w)
  <2>1. th.pc = "loc" /\ (u = BridgeReturns(th, TRUE) \/ u = BridgeReturns(th, FALSE))
    BY <1>7, EndBridgeStep DEF th, u
  <2> QED
    BY <1>2, <1>4, <2>1 DEF th, u
<1>8. CASE ReadMm(w)
  BY <1>2, <1>3, <1>8, ReadMmStep DEF DelPcs, InBridge, th, u
<1>9. CASE SendCreate(w)
  BY <1>2, <1>9, SendCreateStep DEF DelPcs, InBridge, th, u
<1>10. CASE SendWhitelist(w)
  BY <1>2, <1>10, SendWhitelistStep DEF DelPcs, InBridge, th, u
<1>11. CASE PutMm(w)
  BY <1>2, <1>11, PutMmStep DEF DelPcs, InBridge, th, u
<1> QED
  BY <1>5, <1>6, <1>7, <1>8, <1>9, <1>10, <1>11 DEF BridgeNext

LEMMA DelServe ==
  ASSUME TypeInv, DeleteLevel >= 1, NEW w \in Threads, Serve(w), DelOK(t[w]),
         t[w].pc # "idle", t[w].rq.op = "deleteClient"
  PROVE  DelStep(t[w], t'[w])
<1> DEFINE th == t[w]
           u  == t'[w]
<1>0. th \in Thread /\ th.pc \in DelPcs /\ th.dels = {th.rq.id}
      /\ (th.pc # "find" => th.cur.id = th.rq.id)
  BY DEF TypeInv, TypeOK, DelOK
<1>1. CASE TopicNext(w)
  <2>1. PutTopic(w)
    <3>1. th.pc \notin {"review", "exists", "perm", "next", "list", "dropTopic"}
      BY <1>0 DEF DelPcs, InBridge
    <3> QED
      BY <1>1, <3>1, ReviewStep, ExistsStep, AddPermStep, NextClientStep, ListClientsStep,
         DropTopicStep DEF TopicNext
  <2>2. u.pc = "revoke" /\ KeepTopic(th, u) /\ KeepLists(th, u) /\ KeepClient(th, u)
        /\ th.pc = "putTopic"
    BY <2>1, PutTopicStep
  <2> QED
    BY <1>0, <2>2 DEF DelStep, DelPcs, KeepTopic, KeepLists, KeepClient
<1>2. CASE FindClient(w)
  <2>1. \/ u = Reply("notFound")
        \/ u.cur.id \in th.dels /\ u.pc = "view" /\ KeepTopic(th, u) /\ KeepLists(th, u)
    BY <1>2, FindClientStep
  <2>2. u = Reply("notFound") => DelStep(th, u)
    BY DelAnswers
  <2> QED
    BY <1>0, <2>1, <2>2 DEF DelStep, DelPcs, KeepTopic, KeepLists
<1>3. CASE ViewTopic(w)
  <2>1. /\ th.pc = "view" /\ u.rq = th.rq /\ u.dels = th.dels /\ KeepClient(th, u)
        /\ u.pc \in {"revoke", "bridge"}
    BY <1>3, ViewTopicStep
  <2> QED
    BY <1>0, <2>1 DEF DelStep, DelPcs, KeepClient
<1>4. CASE RevokeGrant(w)
  <2>1. th.pc = "revoke"
        /\ \/ u = RemoveClientReturns([th EXCEPT !.err = "fail"])
           \/ u.pc \in {"revoke", "drop"} /\ u.cur = th.cur /\ KeepTopic(th, u) /\ KeepLists(th, u)
    BY <1>4, RevokeGrantStep DEF KeepClient
  <2>2. ASSUME u = RemoveClientReturns([th EXCEPT !.err = "fail"])
        PROVE  DelStep(th, u)
    <3> DEFINE v == [th EXCEPT !.err = "fail"]
    <3>1. v \in Thread /\ v.rq = th.rq /\ v.err = "fail"
      BY <1>0, SetsErr DEF KeepTopic
    <3> HIDE DEF v
    <3>2. u.pc = "idle" /\ u.reply # "success"
      BY <2>2, <3>1, RemoveReturns DEF v
    <3> QED
      BY <3>2 DEF DelStep
  <2>3. ASSUME u.pc \in {"revoke", "drop"} /\ u.cur = th.cur /\ KeepTopic(th, u)
               /\ KeepLists(th, u)
        PROVE  DelStep(th, u)
    BY <1>0, <2>1, <2>3 DEF DelStep, DelPcs, KeepTopic, KeepLists
  <2> QED
    BY <2>1, <2>2, <2>3
<1>5. CASE DropClient(w)
  <2>1. /\ th.pc \in {"revoke", "drop"} /\ u = RemoveClientReturns(th)
        /\ clients' = IF DeleteLevel = 1 \/ (DeleteLevel >= 2 /\ th.err = "ok")
                      THEN {c \in clients : c.id # th.cur.id} ELSE clients
    BY <1>5, DropClientStep
  <2>2. u.pc = "idle" /\ (u.reply = "success" => th.err = "ok")
    <3> HIDE DEF u
    <3> QED
      BY <1>0, <2>1, RemoveReturns
  <2>3. DeleteLevel = 1 \/ DeleteLevel >= 2
    BY ConstantsAssumption
  <2>4. u.reply = "success" => \A c \in clients' : c.id # th.rq.id
    BY <1>0, <2>1, <2>2, <2>3
  <2> QED
    BY <2>2, <2>4 DEF DelStep
<1>6. CASE /\ ClientNext(w) /\ ~FindClient(w) /\ ~ViewTopic(w) /\ ~RevokeGrant(w)
           /\ ~DropClient(w)
  <2>1. th.pc \notin {"cluster", "topic", "grant", "centrals", "post", "reread", "lookup",
                      "overwrite"}
    BY <1>0 DEF DelPcs, InBridge
  <2> QED
    BY <1>6, <2>1, FindClusterStep, FindTopicStep, GrantStep, PlaceStep, ListCentralsStep,
       PostToClusterStep, StoreClientStep, RereadStep, LookupClientStep, OverwriteClientStep
    DEF ClientNext
<1>7. CASE BridgeNext(w)
  BY <1>7, DelBridge
<1>8. CASE ClusterNext(w)
  <2>1. th.pc \notin {"clusterGet", "clusterPut", "locGet", "clusterLoc", "central",
                      "clusterRemove", "locPut", "locRemove"}
    BY <1>0 DEF DelPcs, InBridge
  <2> QED
    BY <1>8, <2>1, ClusterStep DEF DelStep
<1> QED
  BY <1>1, <1>2, <1>3, <1>4, <1>5, <1>6, <1>7, <1>8 DEF Serve

(* The record of a thread that starts.                                     *)
LEMMA DelStart == ASSUME TypeInv, NEW w \in Threads, Start(w) PROVE DelOK(t'[w])
  BY StartStep DEF DelOK, DelPcs, FirstStep

DeletedGone ==
  \A w \in Threads : t[w].rq.op = "deleteClient" /\ Answers(w, "success")
    => \A c \in clients' : c.id # t[w].rq.id

LEMMA DelNext ==
  ASSUME TypeInv, DelInv, DeleteLevel >= 1, [Next]_vars
  PROVE  DelInv' /\ (DeletedGone \/ UNCHANGED vars)
<1>1. ASSUME NEW w \in Threads, Start(w) PROVE DelInv' /\ DeletedGone
  <2>1. DelOK(t'[w]) /\ t[w].pc = "idle"
    BY <1>1, DelStart, StartStep
  <2>2. \A v \in Threads : v # w => t'[v] = t[v]
    BY <1>1, Others
  <2> QED
    BY <2>1, <2>2 DEF DelInv, DeletedGone, Answers
<1>2. ASSUME NEW w \in Threads, Serve(w) PROVE DelInv' /\ DeletedGone
  <2>1. \A v \in Threads : v # w => t'[v] = t[v]
    BY <1>2, Others
  <2>2. t'[w].pc = "idle" \/ t'[w].rq = t[w].rq
    BY <1>2, SameRequest
  <2>3. DelOK(t[w])
    BY DEF DelInv
  <2>4. t[w].pc # "idle" /\ t[w].rq.op = "deleteClient" => DelStep(t[w], t'[w])
    BY <1>2, <2>3, DelServe
  <2>5. t[w].pc # "idle"
    BY <1>2, ServesBusy
  <2>6. DelOK(t'[w])
    BY <2>2, <2>3, <2>4, <2>5 DEF DelOK, DelStep
  <2>7. t[w].rq.op = "deleteClient" /\ Answers(w, "success")
          => \A c \in clients' : c.id # t[w].rq.id
    BY <2>4, <2>5 DEF Answers, DelStep, DelPcs, InBridge
  <2> QED
    BY <2>1, <2>6, <2>7 DEF DelInv, DeletedGone, Answers
<1>3. ASSUME ExitProcess \/ UNCHANGED vars PROVE DelInv' /\ (DeletedGone \/ UNCHANGED vars)
  <2>1. \A v \in Threads : t'[v] = t[v] \/ t'[v] = Idle
    BY <1>3, ExitStep
  <2>2. Idle.pc = "idle" /\ Idle.reply = "-"
    BY DEF Idle
  <2> QED
    BY <2>1, <2>2 DEF DelInv, DelOK, DeletedGone, Answers
<1> QED
  BY <1>1, <1>2, <1>3 DEF Next, Finished

(* A client that DELETE mr_clients removed with success is not stored, for *)
(* any number of threads, when the delete level asks for the row's removal *)
(* at all (MR_ClientService.removeMr_Client).                              *)
THEOREM DeletedIsGone == ASSUME DeleteLevel >= 1 PROVE Spec => DeletedClientIsGone
<1>1. DeleteLevel >= 1
  OBVIOUS
<1>2. Init => DelInv
  BY DEF Init, DelInv, DelOK, Idle
<1>3. TypeInv /\ DelInv /\ [Next]_vars => DelInv'
  BY <1>1, DelNext
<1>4. TypeInv /\ DelInv /\ [Next]_vars => [DeletedGone]_vars
  BY <1>1, DelNext
<1> QED
  BY <1>2, <1>3, <1>4, InitType, NextType, PTL DEF Spec, DeletedClientIsGone, DeletedGone

-----------------------------------------------------------------------------
(* Theorems for requests served one after the other.                       *)
OneThread == \A v, w \in Threads : v = w

(* updateTopic works on a topic that is stored.                            *)
Checking == {"putTopic"} \cup InBridge
Updating == {"bridge", "putTopic"} \cup InBridge
UpdateOK(th, T) == th.rq.op = "deleteClient" /\ th.pc \in Updating => T[th.fqtn] # Absent
UpdateInv == \A w \in Threads : UpdateOK(t[w], topics)

(* checkForBridge works on one topic.                                      *)
LEMMA BridgeKeeps ==
  ASSUME TypeInv, NEW w \in Threads, BridgeNext(w)
  PROVE  LET th == t[w] u == t'[w] IN
         /\ th.pc \in {"bridge"} \cup InBridge
         /\ \/ u.pc \in {"idle", "clusterInvalid"}
            \/ /\ u.pc \in InBridge \cup {"putTopic", "revoke"} /\ KeepWork(th, u)
               /\ u.pc = "revoke" => th.rq.op = "deleteClient"
<1> DEFINE th == t[w]
           u  == t'[w]
           Goal == \/ u.pc \in {"idle", "clusterInvalid"}
                   \/ /\ u.pc \in InBridge \cup {"putTopic", "revoke"} /\ KeepWork(th, u)
                      /\ u.pc = "revoke" => th.rq.op = "deleteClient"
<1>0. th \in Thread
  BY DEF TypeInv, TypeOK
<1>1. th.pc \in {"bridge"} \cup InBridge
  BY StartBridgeStep, VisitLocStep, EndBridgeStep, ReadMmStep, SendCreateStep,
     SendWhitelistStep, PutMmStep DEF BridgeNext, InBridge
<1>2. u = ServerError \/ u = Success => Goal
  BY Replies DEF ServerError, Success
<1>3. ASSUME u = BridgeReturns(th, TRUE) \/ u = BridgeReturns(th, FALSE)
      PROVE  Goal
  <2> HIDE DEF th, u
  <2>1. \/ u = Success
        \/ /\ u.pc \in {"revoke", "putTopic"} /\ KeepWork(th, u)
           /\ u.pc = "revoke" => th.rq.op = "deleteClient"
           /\ th.rq.op # "postClient"
        \/ th.rq.op \notin {"postClient", "deleteClient"} /\ u = AddTopicReturns(th, FALSE)
    <3>1. CASE u = BridgeReturns(th, TRUE)
      BY <1>0, <3>1, ChecksBridge
    <3>2. CASE u = BridgeReturns(th, FALSE)
      BY <1>0, <3>2, ChecksBridge
    <3> QED
      BY <1>3, <3>1, <3>2
  <2>2. u = AddTopicReturns(th, FALSE) => Over(th, u)
    BY <1>0, Returns
  <2> QED
    BY <1>2, <2>1, <2>2 DEF Over
<1>4. KeepWork(th, u) /\ u.pc \in InBridge => Goal
  BY DEF InBridge
<1> HIDE DEF th, u, Goal
<1>6. ASSUME StartBridge(w) PROVE Goal
  BY <1>2, <1>3, <1>4, <1>6, StartBridgeStep DEF InBridge, th, u
<1>7. ASSUME VisitLoc(w) \/ SendCreate(w) \/ SendWhitelist(w) \/ PutMm(w) PROVE Goal
  BY <1>4, <1>7, VisitLocStep, SendCreateStep, SendWhitelistStep, PutMmStep
  DEF InBridge, th, u
<1>8. ASSUME EndBridge(w) PROVE Goal
  <2>1. u = BridgeReturns(th, TRUE) \/ u = BridgeReturns(th, FALSE)
    BY <1>8, EndBridgeStep DEF th, u
  <2> QED
    BY <1>3, <2>1
<1>9. ASSUME ReadMm(w) PROVE Goal
  BY <1>2, <1>4, <1>9, ReadMmStep DEF InBridge, th, u
<1>10. Goal
  BY <1>6, <1>7, <1>8, <1>9 DEF BridgeNext
<1> QED
  BY <1>1, <1>10 DEF Goal, th, u

(* DELETE mr_clients updates a topic that it has found stored.             *)
LEMMA WhoUpdates ==
  ASSUME TypeInv, OpInv, NEW w \in Threads, Serve(w), t'[w].rq.op = "deleteClient",
         t'[w].pc \in Updating
  PROVE  /\ t[w].rq.op = "deleteClient" /\ topics' = topics
         /\ \/ topics[t'[w].fqtn] # Absent
            \/ t[w].pc \in Updating /\ t'[w].fqtn = t[w].fqtn
<1> DEFINE th == t[w]
           u  == t'[w]
<1>0. th \in Thread /\ OpOK(th)
  BY DEF TypeInv, TypeOK, OpInv
<1>1. u.pc = "idle" \/ u.rq = th.rq
  BY SameRequest
<1>2. th.rq.op = "deleteClient"
  BY <1>1 DEF Updating, InBridge
<1>3. th.pc \notin {"review", "exists", "perm", "next", "list", "dropTopic", "cluster",
                    "topic", "grant", "centrals", "post", "reread", "lookup", "overwrite"}
  BY <1>0, <1>2 DEF OpOK, AddOps, TypeInv, ThreadOK
<1>4. ~TopicNext(w)
  <2>1. ~PutTopic(w)
    BY <1>2, PutTopicStep DEF Updating, InBridge
  <2> QED
    BY <1>3, <2>1, ReviewStep, ExistsStep, AddPermStep, NextClientStep, ListClientsStep,
       DropTopicStep DEF TopicNext
<1>5. ~ClusterNext(w)
  BY ClusterStep DEF Updating, InBridge
<1>6. topics' = topics
  BY <1>4, <1>5, ClientFrame, BridgeFrame DEF Serve
<1>7. CASE ClientNext(w)
  <2>1. \/ ViewTopic(w) \/ FindClient(w) \/ RevokeGrant(w) \/ DropClient(w)
    BY <1>3, <1>7, FindClusterStep, FindTopicStep, GrantStep, PlaceStep, ListCentralsStep,
       PostToClusterStep, StoreClientStep, RereadStep, LookupClientStep, OverwriteClientStep
    DEF ClientNext
  <2>2. CASE ViewTopic(w)
    BY <1>2, <1>6, <2>2, ViewTopicStep DEF Updating, InBridge
  <2>3. ~FindClient(w)
    BY FindClientStep, Replies DEF Updating, InBridge
  <2>4. ~(RevokeGrant(w) \/ DropClient(w))
    <3>1. [th EXCEPT !.err = "fail"] \in Thread
      BY <1>0, SetsErr
    <3>2. u.pc \notin {"idle", "clusterInvalid", "dropTopic", "find", "revoke", "drop"}
      BY DEF Updating, InBridge
    <3> HIDE DEF u, th
    <3>3. u # RemoveClientReturns(th) /\ u # RemoveClientReturns([th EXCEPT !.err = "fail"])
      BY <1>0, <3>1, <3>2, Ends
    <3> QED
      BY <3>2, <3>3, RevokeGrantStep, DropClientStep DEF u, th
  <2> QED
    BY <2>1, <2>2, <2>3, <2>4
<1>8. CASE BridgeNext(w)
  <2>1. th.pc \in Updating /\ KeepWork(th, u)
    BY <1>8, BridgeKeeps DEF Updating, InBridge
  <2> QED
    BY <1>2, <1>6, <2>1 DEF KeepWork, KeepTopic
<1> QED
  BY <1>4, <1>5, <1>7, <1>8 DEF Serve

LEMMA UpdateServe ==
  ASSUME TypeInv, OpInv, NEW w \in Threads, Serve(w), UpdateOK(t[w], topics)
  PROVE  UpdateOK(t'[w], topics')
  BY WhoUpdates DEF UpdateOK

OnlyAdds ==
  \A f \in Topics : topics[f] = Absent /\ topics'[f] # Absent
    => \E w \in Threads : t[w].pc = "putTopic" /\ Adding(w, f)

LEMMA UpdateNext ==
  ASSUME OneThread, TypeInv, OpInv, UpdateInv, [Next]_vars
  PROVE  UpdateInv' /\ OnlyAdds
<1>1. ASSUME NEW w \in Threads, Start(w) PROVE UpdateInv' /\ OnlyAdds
  <2>1. topics' = topics /\ t'[w].pc = FirstStep(t'[w].rq)
    BY <1>1, StartStep
  <2>2. UpdateOK(t'[w], topics')
    BY <2>1 DEF UpdateOK, FirstStep, Updating, InBridge
  <2> QED
    BY <2>1, <2>2, OneThread DEF UpdateInv, OnlyAdds, OneThread
<1>2. ASSUME NEW w \in Threads, Serve(w) PROVE UpdateInv' /\ OnlyAdds
  <2>1. UpdateOK(t[w], topics) /\ OpOK(t[w])
    BY DEF UpdateInv, OpInv
  <2>2. UpdateOK(t'[w], topics')
    BY <1>2, <2>1, UpdateServe
  <2>3. PutTopic(w) \/ DropTopic(w) \/ topics' = topics
    BY <1>2, TopicFrame, ClientFrame, BridgeFrame, ClusterFrame DEF Serve
  <2>4. CASE PutTopic(w)
    <3> DEFINE th == t[w]
    <3>1. th.pc = "putTopic" /\ topics' = [topics EXCEPT ![th.fqtn] = th.repl]
      BY <2>4, PutTopicStep
    <3>2. th.rq.op = "deleteClient" => topics[th.fqtn] # Absent
      BY <2>1, <3>1 DEF UpdateOK, Updating
    <3>3. th.rq.op \in AddOps \cup {"deleteClient"}
      BY <2>1, <3>1 DEF OpOK
    <3>4. \A f \in Topics : topics[f] = Absent /\ topics'[f] # Absent => f = th.fqtn
      BY <3>1 DEF TypeInv, TypeOK
    <3> QED
      BY <2>2, <3>1, <3>2, <3>3, <3>4
      DEF UpdateInv, OnlyAdds, Adding, AddOps, OneThread
  <2>5. CASE DropTopic(w)
    BY <2>2, <2>5, DropTopicStep DEF UpdateInv, OnlyAdds, OneThread, TypeInv, TypeOK
  <2> QED
    BY <2>2, <2>3, <2>4, <2>5 DEF UpdateInv, OnlyAdds, OneThread
<1>3. ASSUME ExitProcess \/ UNCHANGED vars PROVE UpdateInv' /\ OnlyAdds
  <2>1. (\A v \in Threads : t'[v] = t[v] \/ t'[v] = Idle) /\ topics' = topics
    BY <1>3, ExitStep
  <2>2. UpdateOK(Idle, topics')
    BY DEF UpdateOK, Idle, Updating, InBridge
  <2> QED
    BY <2>1, <2>2 DEF UpdateInv, OnlyAdds
<1> QED
  BY <1>1, <1>2, <1>3 DEF Next, Finished

(* Only addTopic makes a topic appear, when requests come one after the    *)
(* other, whatever fails and wherever the process exits: updateTopic, the  *)
(* other caller of mr_topics.put, has read the topic in the same request.  *)
(* (Two requests at the same time can bring a topic back that DELETE       *)
(* topics has removed; TopicService.updateTopic.)                          *)
THEOREM OnlyAddTopicCreates == ASSUME OneThread PROVE Spec => OnlyAddCreates
<1>1. OneThread
  OBVIOUS
<1>2. Init => UpdateInv
  BY DEF Init, UpdateInv, UpdateOK, Idle, Updating, InBridge
<1>3. TypeInv /\ OpInv /\ UpdateInv /\ [Next]_vars => UpdateInv'
  BY <1>1, UpdateNext
<1>4. TypeInv /\ OpInv /\ UpdateInv /\ [Next]_vars => [OnlyAdds]_vars
  BY <1>1, UpdateNext
<1>5. TypeInv /\ OpInv /\ [Next]_vars => OpInv'
  BY OpNext
<1> QED
  BY <1>2, <1>3, <1>4, <1>5, InitType, NextType, InitOps, PTL
  DEF Spec, OnlyAddCreates, OnlyAdds

-----------------------------------------------------------------------------
(* Ids of clients.  POST mr_clients without an id and addTopic make new    *)
(* ones, and nobody puts a row under an id of his own.                     *)
FreshIds == \A r \in Requests : r.op # "putClient" /\ (r.op = "postClient" => r.id = 0)

Pending == {"grant", "centrals", "post"}
IdsInv ==
  /\ \A c \in clients : c.id < nextId
  /\ \A c, d \in clients : c.id = d.id => c = d
  /\ \A w \in Threads : t[w].pc \in Pending =>
       t[w].cur.id < nextId /\ \A c \in clients : c.id # t[w].cur.id
  /\ \A v, w \in Threads : v # w /\ t[v].pc \in Pending /\ t[w].pc \in Pending
       => t[v].cur.id # t[w].cur.id

(* A client that is pending is the same as before, or new.                 *)
LEMMA PendingStep ==
  ASSUME FreshIds, TypeInv, NEW w \in Threads, Serve(w)
  PROVE  LET th == t[w] u == t'[w] IN
         /\ u.pc \in Pending =>
              \/ /\ th.pc \in Pending /\ SameClient(u.cur, th.cur)
                 /\ UNCHANGED <<nextId, clients>>
              \/ th.pc \notin Pending /\ u.cur.id = nextId /\ nextId' = nextId + 1
                 /\ clients' = clients
         /\ nextId' = nextId \/ nextId' = nextId + 1
         /\ \/ clients' = clients
            \/ StoreClient(w)
            \/ DropClient(w) /\ u.pc \notin Pending
<1> DEFINE th == t[w]
           u  == t'[w]
           New == \/ /\ th.pc \in Pending /\ SameClient(u.cur, th.cur)
                     /\ UNCHANGED <<nextId, clients>>
                  \/ th.pc \notin Pending /\ u.cur.id = nextId /\ nextId' = nextId + 1
                     /\ clients' = clients
           Goal == /\ u.pc \in Pending => New
                   /\ nextId' = nextId \/ nextId' = nextId + 1
                   /\ \/ clients' = clients
                      \/ StoreClient(w)
                      \/ DropClient(w) /\ u.pc \notin Pending
<1>0. th \in Thread /\ th.rq \in Requests
  BY DEF TypeInv, TypeOK, Thread
<1>a. \A c : SameClient(c, c)
  BY DEF SameClient
<1>b. u \in {ServerError, Success} \/ (\E code : u = Reply(code)) => u.pc \notin Pending
  BY Replies DEF Pending, ServerError, Success
<1>c. Over(th, u) => u.pc \notin Pending
  BY DEF Over, Pending
<1>d. \A v \in Thread : u = AddTopicReturns(v, TRUE) \/ u = AddTopicReturns(v, FALSE)
                        \/ u = AddClientFails(v)
        => u.pc \notin Pending
  <2> SUFFICES ASSUME NEW v \in Thread, u = AddTopicReturns(v, TRUE)
                        \/ u = AddTopicReturns(v, FALSE) \/ u = AddClientFails(v)
               PROVE  u.pc \notin Pending
    OBVIOUS
  <2> HIDE DEF u
  <2>1. Over(v, u)
    BY Returns, Fails
  <2> QED
    BY <2>1 DEF Over, Pending
<1>e. \A v \in Thread : u = RemoveClientReturns(v) => u.pc \notin Pending
  <2> HIDE DEF u
  <2> QED
    BY RemoveReturns DEF Pending
<1>f. \A code \in {"ok", "conflict", "fail", "notFound"} : [th EXCEPT !.err = code] \in Thread
  BY <1>0, SetsErr
<1> HIDE DEF th, u, New
<1>1. ASSUME TopicNext(w) PROVE Goal
  <2>1. clients' = clients /\ (nextId' = nextId \/ (NextClient(w) /\ nextId' = nextId + 1))
    BY <1>1, TopicFrame
  <2>2. u.pc \in Pending => NextClient(w)
    <3>1. ASSUME Review(w) \/ Exists(w) \/ AddPerm(w) \/ PutTopic(w) \/ ListClients(w)
                 \/ DropTopic(w)
          PROVE  u.pc \notin Pending
      BY <1>b, <1>d, <1>f, <3>1, ReviewStep, ExistsStep, AddPermStep, PutTopicStep,
         ListClientsStep, DropTopicStep DEF Pending, u, th
    <3> QED
      BY <1>1, <3>1 DEF TopicNext
  <2>3. ASSUME u.pc \in Pending PROVE New
    <3>1. NextClient(w)
      BY <2>2, <2>3
    <3>3. ASSUME th.todo # <<>>, u = AddTopicReturns([th EXCEPT !.todo = Tail(th.todo)], FALSE)
          PROVE  u.pc \notin Pending
      <4>1. Tail(th.todo) \in Seq(ClientSpec)
        BY <1>0, <3>3 DEF Thread
      <4>2. [th EXCEPT !.todo = Tail(th.todo)] \in Thread
        BY <1>0, <4>1 DEF Thread
      <4> QED
        BY <1>d, <3>3, <4>2
    <3>4. /\ th.pc = "next" /\ th.todo # <<>> /\ nextId' = nextId + 1
          /\ u.cur = [id |-> nextId, fqtn |-> th.fqtn, loc |-> Head(th.todo).loc,
                      role |-> Head(th.todo).role, acts |-> Head(th.todo).acts,
                      status |-> "VALID"]
      <4> DEFINE c == [id |-> nextId, fqtn |-> th.fqtn, loc |-> Head(th.todo).loc,
                       role |-> Head(th.todo).role, acts |-> Head(th.todo).acts,
                       status |-> "VALID"]
                 v == [th EXCEPT !.todo = Tail(th.todo)]
      <4>1. /\ th.pc = "next" /\ (th.todo # <<>> => nextId' = nextId + 1)
            /\ \/ u.pc = "bridge" \/ u.pc = "next"
               \/ th.todo # <<>> /\ u.cur = c
               \/ th.todo # <<>> /\ u = AddTopicReturns(v, FALSE)
        BY <3>1, NextClientStep DEF u, th
      <4>2. u.pc # "bridge" /\ u.pc # "next"
        BY <2>3 DEF Pending
      <4> HIDE DEF c, v
      <4>3. ~(th.todo # <<>> /\ u = AddTopicReturns(v, FALSE))
        BY <2>3, <3>3 DEF v
      <4>4. th.pc = "next" /\ th.todo # <<>> /\ nextId' = nextId + 1 /\ u.cur = c
        BY <4>1, <4>2, <4>3
      <4> QED
        BY <4>4 DEF c
    <3>5. u.cur.id = nextId
      BY <3>4
    <3> QED
      BY <2>1, <3>4, <3>5 DEF New, Pending
  <2> QED
    BY <2>1, <2>3
<1>2. ASSUME ClientNext(w) PROVE Goal
  <2>1. UNCHANGED nextId \/ FindTopic(w)
    BY <1>2, ClientFrame
  <2>2. StoreClient(w) \/ OverwriteClient(w) \/ DropClient(w) \/ UNCHANGED clients
    BY <1>2, ClientFrame
  <2>3. ~OverwriteClient(w)
    BY <1>0, OverwriteClientStep DEF FreshIds, th
  <2>4. DropClient(w) => u.pc \notin Pending
    BY <1>0, <1>e, DropClientStep DEF u, th
  <2>5. CASE FindTopic(w)
    <3>1. nextId' = nextId + 1 /\ th.pc = "topic"
      BY <2>5, FindTopicStep DEF th
    <3>2. clients' = clients
      BY <2>5 DEF FindTopic
    <3>3. u.pc \in Pending => u.cur.id = nextId
      <4>1. th.rq.op = "postClient" /\ th.rq.id = 0
        BY <1>0, <2>5, FindTopicStep DEF FreshIds, th
      <4>2. \/ u = Reply("notFound")
            \/ u.cur = [id |-> IF th.rq.id = 0 THEN nextId ELSE th.rq.id,
                        fqtn |-> th.fqtn, loc |-> Head(th.rq.clients).loc,
                        role |-> Head(th.rq.clients).role,
                        acts |-> Head(th.rq.clients).acts, status |-> "VALID"]
        BY <2>5, FindTopicStep DEF th, u
      <4>3. u.pc \in Pending => u # Reply("notFound")
        BY <1>b
      <4> QED
        BY <4>1, <4>2, <4>3
    <3> QED
      BY <3>1, <3>2, <3>3 DEF New, Pending
  <2>6. CASE Grant(w) \/ Place(w) \/ ListCentrals(w) \/ PostToCluster(w)
    <3>1. th.pc \in Pending
      BY <2>6, GrantStep, PlaceStep, ListCentralsStep, PostToClusterStep DEF th, Pending
    <3>2. UNCHANGED <<nextId, clients>>
      BY <2>6 DEF Grant, Place, ListCentrals, PostToCluster, ctlVars
    <3>3. ASSUME u.pc \in Pending PROVE SameClient(u.cur, th.cur)
      <4>1. CASE Grant(w)
        BY <1>0, <1>a, <1>d, <1>f, <3>3, <4>1, GrantStep DEF th, u
      <4>2. CASE Place(w)
        BY <4>2, PlaceStep DEF th, u
      <4>3. CASE ListCentrals(w)
        BY <1>a, <1>b, <3>3, <4>3, ListCentralsStep DEF th, u
      <4>4. CASE PostToCluster(w)
        BY <1>0, <1>d, <1>f, <3>3, <4>4, PostToClusterStep DEF th, u
      <4> QED
        BY <2>6, <4>1, <4>2, <4>3, <4>4
    <3> QED
      BY <3>1, <3>2, <3>3 DEF New
  <2>7. ASSUME \/ FindCluster(w) \/ StoreClient(w) \/ Reread(w) \/ LookupClient(w)
               \/ FindClient(w) \/ ViewTopic(w) \/ RevokeGrant(w) \/ DropClient(w)
        PROVE  u.pc \notin Pending
    <3>1. CASE FindCluster(w) \/ StoreClient(w) \/ Reread(w) \/ LookupClient(w)
      BY <1>b, <3>1, FindClusterStep, StoreClientStep, RereadStep, LookupClientStep
      DEF u, Pending
    <3>2. CASE FindClient(w) \/ ViewTopic(w)
      BY <1>b, <3>2, FindClientStep, ViewTopicStep DEF u, Pending
    <3>3. CASE RevokeGrant(w)
      BY <1>e, <1>f, <3>3, RevokeGrantStep DEF u, th, Pending
    <3> QED
      BY <2>4, <2>7, <3>1, <3>2, <3>3
  <2>8. CASE ~FindTopic(w) /\ u.pc \notin Pending
    BY <2>1, <2>2, <2>3, <2>8
  <2> QED
    BY <1>2, <2>3, <2>5, <2>6, <2>7, <2>8 DEF ClientNext
<1>3. ASSUME BridgeNext(w) PROVE Goal
  <2>1. u.pc \notin Pending
    BY <1>3, BridgeKeeps DEF u, Pending, InBridge
  <2> QED
    BY <1>3, <2>1, BridgeFrame
<1>4. ASSUME ClusterNext(w) PROVE Goal
  <2>1. u.pc \notin Pending
    BY <1>4, ClusterStep DEF u, Pending
  <2> QED
    BY <1>4, <2>1, ClusterFrame
<1>5. Goal
  BY <1>1, <1>2, <1>3, <1>4 DEF Serve
<1> QED
  BY <1>5 DEF New, th, u

LEMMA IdsServe == ASSUME FreshIds, TypeInv, IdsInv, NEW w \in Threads, Serve(w) PROVE IdsInv'
<1> DEFINE th == t[w]
           u  == t'[w]
<1>1. \A v \in Threads : v # w => t'[v] = t[v]
  BY Others
<1>2. nextId \in Nat /\ \A c \in clients : c.id \in Nat
  BY DEF TypeInv, TypeOK, Client
<1>3. \A v \in Threads : t[v].cur.id \in Nat
  BY DEF TypeInv, TypeOK, Thread, Client
<1>4. nextId' = nextId \/ nextId' = nextId + 1
  BY PendingStep
<1>5. CASE u.pc \in Pending
  <2>1. clients' = clients
    BY <1>5, PendingStep
  <2>2. u.cur.id < nextId' /\ \A c \in clients : c.id # u.cur.id
    <3>1. CASE th.pc \in Pending /\ SameClient(u.cur, th.cur) /\ nextId' = nextId
      BY <3>1 DEF IdsInv, SameClient
    <3>2. CASE u.cur.id = nextId /\ nextId' = nextId + 1
      BY <1>2, <3>2 DEF IdsInv
    <3> QED
      BY <1>5, <3>1, <3>2, PendingStep
  <2>3. \A v \in Threads : v # w /\ t[v].pc \in Pending => t[v].cur.id # u.cur.id
    <3>1. CASE th.pc \in Pending /\ SameClient(u.cur, th.cur)
      BY <3>1 DEF IdsInv, SameClient
    <3>2. CASE u.cur.id = nextId
      BY <1>2, <1>3, <3>2 DEF IdsInv
    <3> QED
      BY <1>5, <3>1, <3>2, PendingStep
  <2>4. \A c \in clients : c.id < nextId'
    BY <1>2, <1>4 DEF IdsInv
  <2>5. \A v \in Threads : t[v].pc \in Pending => t[v].cur.id < nextId'
    BY <1>2, <1>3, <1>4 DEF IdsInv
  <2> HIDE DEF u, th
  <2>6. \A v \in Threads : t'[v] = IF v = w THEN u ELSE t[v]
    BY <1>1 DEF u
  <2> QED
    BY <2>1, <2>2, <2>3, <2>4, <2>5, <2>6 DEF IdsInv
<1>6. CASE u.pc \notin Pending
  <2>1. \A v \in Threads : t'[v].pc \in Pending => v # w /\ t'[v] = t[v]
    BY <1>1, <1>6
  <2>2. \A v \in Threads : t'[v].pc \in Pending => t'[v].cur.id < nextId'
    BY <1>2, <1>3, <1>4, <2>1 DEF IdsInv
  <2>3. \A v, x \in Threads : v # x /\ t'[v].pc \in Pending /\ t'[x].pc \in Pending
          => t'[v].cur.id # t'[x].cur.id
    BY <2>1 DEF IdsInv
  <2>4. CASE clients' \subseteq clients
    BY <1>2, <1>4, <2>1, <2>2, <2>3, <2>4 DEF IdsInv
  <2>5. CASE StoreClient(w)
    <3>1. th.pc \in Pending /\ clients' = Put(th.cur)
      BY <2>5, StoreClientStep DEF Pending
    <3>2. th.cur.id < nextId /\ \A v \in Threads : v # w /\ t[v].pc \in Pending
                                  => t[v].cur.id # th.cur.id
      BY <3>1 DEF IdsInv
    <3> DEFINE c == th.cur
    <3> HIDE DEF c
    <3>3. clients' = {d \in clients : d.id # c.id} \cup {c} /\ c.id \in Nat /\ c.id < nextId
      BY <1>3, <3>1, <3>2 DEF Put, c
    <3>4. \A d \in clients' : d.id < nextId'
      BY <1>2, <1>4, <3>3 DEF IdsInv
    <3>5. \A d, e \in clients' : d.id = e.id => d = e
      BY <3>3 DEF IdsInv
    <3>6. \A v \in Threads : t'[v].pc \in Pending => \A d \in clients' : d.id # t'[v].cur.id
      BY <2>1, <3>2, <3>3 DEF IdsInv, c
    <3> QED
      BY <2>2, <2>3, <3>4, <3>5, <3>6 DEF IdsInv
  <2>6. DropClient(w) => clients' \subseteq clients
    BY DropClientStep
  <2> QED
    BY <2>4, <2>5, <2>6, PendingStep
<1> QED
  BY <1>5, <1>6

LEMMA IdsNext == ASSUME FreshIds, TypeInv, IdsInv, [Next]_vars PROVE IdsInv'
<1>1. ASSUME NEW w \in Threads, Start(w) PROVE IdsInv'
  <2>1. t'[w].pc \notin Pending /\ UNCHANGED <<clients, nextId>>
    BY <1>1, StartStep DEF FirstStep, Pending
  <2>2. \A v \in Threads : t'[v].pc \in Pending => v # w /\ t'[v] = t[v]
    BY <1>1, <2>1, Others
  <2> QED
    BY <2>1, <2>2 DEF IdsInv
<1>2. ASSUME ExitProcess \/ UNCHANGED vars PROVE IdsInv'
  <2>1. UNCHANGED <<clients, nextId>> /\ \A v \in Threads : t'[v] = t[v] \/ t'[v] = Idle
    BY <1>2, ExitStep
  <2>2. Idle.pc \notin Pending
    BY DEF Idle, Pending
  <2>3. \A v \in Threads : t'[v].pc \in Pending => t'[v] = t[v]
    BY <2>1, <2>2
  <2> QED
    BY <2>1, <2>3 DEF IdsInv
<1> QED
  BY <1>1, <1>2, IdsServe DEF Next, Finished

LEMMA InitIds == Init => IdsInv
  BY DEF Init, IdsInv, Idle, Pending

(* The client that is being removed is stored, and AAF has none of the     *)
(* grants that have been revoked.                                          *)
Removing == {"view", "revoke", "drop"} \cup Updating
RemoveOps == {"deleteClient", "deleteTopic"}
Unheld(c, left, G) == \A a \in c.acts \ left : <<c.fqtn, c.role, a>> \notin G
RemoveOK(th, C, G) ==
  th.rq.op \in RemoveOps /\ th.pc \in Removing =>
    th.cur \in C /\ Unheld(th.cur, th.left, G)
RemoveInv == \A w \in Threads : RemoveOK(t[w], clients, grants)

(* What a step does to the rows at delete level 2.                         *)
Unexpected(c) == "aaf2xx" \in Faults /\ \E w \in Threads : t[w].pc = "drop" /\ t[w].cur = c
KeepsRows ==
  \A c \in clients : c \in clients' \/ GrantsOf(c) \cap grants' = {} \/ Unexpected(c)

(* A step of another request removes no client.                            *)
LEMMA AddServe ==
  ASSUME FreshIds, TypeInv, OpInv, IdsInv, NEW w \in Threads, Serve(w),
         t[w].rq.op \notin RemoveOps
  PROVE  RemoveOK(t'[w], clients', grants') /\ clients \subseteq clients'
<1> DEFINE th == t[w]
           u  == t'[w]
<1>1. RemoveOK(u, clients', grants')
  BY SameRequest DEF RemoveOK, Removing, Updating, InBridge
<1>2. ~DropClient(w)
  BY DropClientStep DEF OpInv, OpOK, RemoveOps
<1>3. CASE StoreClient(w)
  <2>1. th.pc \in Pending /\ clients' = Put(th.cur)
    BY <1>3, StoreClientStep DEF Pending
  <2>2. \A c \in clients : c.id # th.cur.id
    BY <2>1 DEF IdsInv
  <2> QED
    BY <1>1, <2>1, <2>2 DEF Put
<1> QED
  BY <1>1, <1>2, <1>3, PendingStep

LEMMA RemoveServe ==
  ASSUME FreshIds, TypeInv, OpInv, IdsInv, NEW w \in Threads, Serve(w),
         t[w].rq.op \in RemoveOps, RemoveOK(t[w], clients, grants)
  PROVE  RemoveOK(t'[w], clients', grants') /\ (DeleteLevel >= 2 => KeepsRows)
<1> DEFINE th == t[w]
           u  == t'[w]
           Goal == RemoveOK(u, clients', grants') /\ (DeleteLevel >= 2 => KeepsRows)
<1>0. th \in Thread /\ OpOK(th) /\ RemoveOK(th, clients, grants)
  BY DEF TypeInv, TypeOK, OpInv
<1>a. u.pc \notin Removing /\ clients' = clients => Goal
  BY DEF RemoveOK, KeepsRows
<1>b. /\ th.pc \in Removing
      /\ u.cur = th.cur /\ u.left = th.left
      /\ UNCHANGED <<clients, grants>>
      => Goal
  BY <1>0 DEF RemoveOK, KeepsRows
<1>c. \A v \in Thread : u = RemoveClientReturns(v) => u.pc \in {"idle", "dropTopic", "find"}
  <2> HIDE DEF u
  <2> QED
    BY RemoveReturns
<1>d. [th EXCEPT !.err = "fail"] \in Thread
  BY <1>0, SetsErr
<1>e. th.pc \notin {"review", "exists", "perm", "next", "cluster",
                    "topic", "grant", "centrals", "post", "reread", "lookup", "overwrite"}
  BY <1>0 DEF OpOK, AddOps, RemoveOps, TypeInv, ThreadOK
<1> HIDE DEF th, u, Goal
<1>1. ASSUME TopicNext(w) PROVE Goal
  <2>1. UNCHANGED <<clients, grants>>
    BY <1>1, TopicFrame
  <2>2. CASE PutTopic(w)
    <3>1. th.rq.op = "deleteClient" /\ th.pc = "putTopic"
      BY <1>0, <2>2, PutTopicStep DEF OpOK, AddOps, RemoveOps, th
    <3>2. KeepClient(th, u)
      BY <2>2, <3>1, PutTopicStep DEF th, u
    <3> QED
      BY <1>b, <2>1, <3>1, <3>2 DEF KeepClient, Removing, Updating
  <2>3. CASE ListClients(w) \/ DropTopic(w)
    <3>1. u.pc \in {"idle", "dropTopic", "find"}
      BY <2>3, ListClientsStep, DropTopicStep, Replies DEF Success, u
    <3> QED
      BY <1>a, <2>1, <3>1 DEF Removing, Updating, InBridge
  <2>4. PutTopic(w) \/ ListClients(w) \/ DropTopic(w)
    BY <1>1, <1>e, ReviewStep, ExistsStep, AddPermStep, NextClientStep DEF TopicNext, th
  <2> QED
    BY <2>2, <2>3, <2>4
<1>2. ASSUME ClientNext(w) PROVE Goal
  <2>1. CASE FindClient(w)
    <3>1. UNCHANGED <<clients, grants>>
      BY <1>2, <2>1 DEF FindClient, aafVars
    <3>2. u.pc = "idle" \/ (u.cur \in clients /\ u.left = u.cur.acts)
      BY <2>1, FindClientStep, Replies DEF u
    <3>3. u.pc = "idle" => Goal
      BY <1>a, <3>1 DEF Removing, Updating, InBridge
    <3>4. u.cur \in clients /\ u.left = u.cur.acts => Goal
      BY <3>1 DEF Goal, RemoveOK, Unheld, KeepsRows
    <3> QED
      BY <3>2, <3>3, <3>4
  <2>2. CASE ViewTopic(w)
    <3>1. UNCHANGED <<clients, grants>>
      BY <2>2 DEF ViewTopic, aafVars
    <3>2. th.pc = "view" /\ KeepClient(th, u)
      BY <2>2, ViewTopicStep DEF th, u
    <3> QED
      BY <1>b, <3>1, <3>2 DEF KeepClient, Removing
  <2>3. CASE RevokeGrant(w)
    <3>1. clients' = clients
      BY <2>3 DEF RevokeGrant
    <3>2. th.pc = "revoke"
      BY <2>3, RevokeGrantStep DEF th
    <3>3. PICK a \in th.left :
            \/ /\ grants' = grants \ {<<th.cur.fqtn, th.cur.role, a>>}
               /\ u.left = th.left \ {a} /\ u.cur = th.cur
            \/ u = RemoveClientReturns([th EXCEPT !.err = "fail"])
            \/ grants' \subseteq grants /\ u.left = th.left /\ u.cur = th.cur
      BY <2>3, RevokeGrantStep DEF KeepClient, th, u
    <3>4. CASE u = RemoveClientReturns([th EXCEPT !.err = "fail"])
      <4>1. u.pc \in {"idle", "dropTopic", "find"}
        BY <1>c, <1>d, <3>4
      <4> QED
        BY <1>a, <3>1, <4>1 DEF Removing, Updating, InBridge
    <3>5. CASE /\ grants' = grants \ {<<th.cur.fqtn, th.cur.role, a>>}
               /\ u.left = th.left \ {a} /\ u.cur = th.cur
      <4>1. th.cur \in clients /\ Unheld(th.cur, th.left, grants)
        BY <1>0, <3>2 DEF RemoveOK, Removing, th
      <4>2. Unheld(u.cur, u.left, grants')
        BY <3>5, <4>1 DEF Unheld
      <4> QED
        BY <3>1, <3>5, <4>1, <4>2 DEF Goal, RemoveOK, KeepsRows
    <3>6. CASE grants' \subseteq grants /\ u.left = th.left /\ u.cur = th.cur
      <4>1. th.cur \in clients /\ Unheld(th.cur, th.left, grants)
        BY <1>0, <3>2 DEF RemoveOK, Removing, th
      <4>2. Unheld(u.cur, u.left, grants')
        BY <3>6, <4>1 DEF Unheld
      <4> QED
        BY <3>1, <3>6, <4>1, <4>2 DEF Goal, RemoveOK, KeepsRows
    <3> QED
      BY <3>3, <3>4, <3>5, <3>6
  <2>4. CASE DropClient(w)
    <3>1. /\ \/ th.pc = "revoke" /\ (DeleteLevel >= 2 => th.left = {})
             \/ th.pc = "drop"
          /\ clients' \subseteq clients
          /\ \A c \in clients : c.id = th.cur.id \/ c \in clients'
          /\ u = RemoveClientReturns(th)
      BY <2>4, DropClientStep DEF th, u
    <3>2. th.cur \in clients /\ Unheld(th.cur, th.left, grants) /\ grants' = grants
      BY <1>0, <2>4, <3>1 DEF RemoveOK, Removing, th, DropClient, aafVars
    <3>3. \A c \in clients : c.id = th.cur.id => c = th.cur
      BY <3>2 DEF IdsInv
    <3>4. DeleteLevel >= 2 => GrantsOf(th.cur) \cap grants' = {} \/ Unexpected(th.cur)
      <4>1. CASE th.pc = "revoke" /\ (DeleteLevel >= 2 => th.left = {})
        BY <3>2, <4>1 DEF Unheld, GrantsOf
      <4>2. CASE th.pc = "drop"
        BY <1>0, <4>2 DEF OpOK, Unexpected, th
      <4> QED
        BY <3>1, <4>1, <4>2
    <3>5. u.pc \in {"idle", "dropTopic", "find"}
      BY <1>0, <1>c, <3>1
    <3>6. DeleteLevel >= 2 => KeepsRows
      BY <3>1, <3>3, <3>4 DEF KeepsRows
    <3> QED
      BY <3>5, <3>6 DEF Goal, RemoveOK, Removing, Updating, InBridge
  <2>5. FindClient(w) \/ ViewTopic(w) \/ RevokeGrant(w) \/ DropClient(w)
    BY <1>2, <1>e, FindClusterStep, FindTopicStep, GrantStep, PlaceStep, ListCentralsStep,
       PostToClusterStep, StoreClientStep, RereadStep, LookupClientStep, OverwriteClientStep
    DEF ClientNext, th
  <2> QED
    BY <2>1, <2>2, <2>3, <2>4, <2>5
<1>3. ASSUME BridgeNext(w) PROVE Goal
  <2>1. UNCHANGED <<clients, grants>>
    BY <1>3, BridgeFrame
  <2>2. th.pc \in Removing
    BY <1>3, BridgeKeeps DEF th, Removing, Updating
  <2>3. u.pc \in {"idle", "clusterInvalid"} \/ KeepWork(th, u)
    BY <1>3, BridgeKeeps DEF th, u
  <2>4. u.pc \in {"idle", "clusterInvalid"} => u.pc \notin Removing
    BY DEF Removing, Updating, InBridge
  <2> QED
    BY <1>a, <1>b, <2>1, <2>2, <2>3, <2>4 DEF KeepWork, KeepClient
<1>4. ASSUME ClusterNext(w) PROVE Goal
  <2>1. u.pc \notin Removing
    BY <1>4, ClusterStep DEF u, Removing, Updating, InBridge
  <2> QED
    BY <1>4, <1>a, <2>1, ClusterFrame
<1>5. Goal
  BY <1>1, <1>2, <1>3, <1>4 DEF Serve
<1> QED
  BY <1>5 DEF Goal, u

LEMMA RemoveNext ==
  ASSUME OneThread, FreshIds, TypeInv, OpInv, IdsInv, RemoveInv, [Next]_vars
  PROVE  RemoveInv' /\ (DeleteLevel >= 2 => KeepsRows)
<1>1. ASSUME NEW w \in Threads, Start(w) PROVE RemoveInv' /\ KeepsRows
  <2>1. t'[w].pc \notin Removing /\ clients' = clients
    BY <1>1, StartStep DEF FirstStep, Removing, Updating, InBridge
  <2> QED
    BY <2>1 DEF RemoveInv, RemoveOK, KeepsRows, OneThread
<1>2. ASSUME NEW w \in Threads, Serve(w) PROVE RemoveInv' /\ (DeleteLevel >= 2 => KeepsRows)
  <2>1. RemoveOK(t[w], clients, grants)
    BY DEF RemoveInv
  <2>2. clients \subseteq clients' => KeepsRows
    BY DEF KeepsRows
  <2>3. RemoveOK(t'[w], clients', grants') /\ (DeleteLevel >= 2 => KeepsRows)
    BY <1>2, <2>1, <2>2, AddServe, RemoveServe
  <2> QED
    BY <2>3 DEF RemoveInv, OneThread
<1>3. ASSUME ExitProcess \/ UNCHANGED vars PROVE RemoveInv' /\ KeepsRows
  <2>1. /\ UNCHANGED <<clients, grants>>
        /\ \A v \in Threads : t'[v] = t[v] \/ t'[v] = Idle
    BY <1>3, ExitStep
  <2>2. RemoveOK(Idle, clients', grants')
    BY DEF RemoveOK, Idle, Removing, Updating, InBridge
  <2> QED
    BY <2>1, <2>2 DEF RemoveInv, KeepsRows
<1> QED
  BY <1>1, <1>2, <1>3 DEF Next, Finished

(* At delete level 2 a client's row outlives its grants, when requests     *)
(* come one after the other and rows are put under fresh ids only, unless  *)
(* AAF gives one of its revocations an unexpected 2xx, after which the     *)
(* removal goes on to the row (MR_ClientService.java:213-218, 270).  (Two  *)
(* removals of one client at the same time, or a grant of the same role by *)
(* another request, can leave grants without a row.)  The row in memory is *)
(* the stored one, and what of its actions is no longer to revoke has been *)
(* revoked (MR_ClientService.removeMr_Client).                             *)
THEOREM RowsOutliveGrants ==
  ASSUME OneThread, FreshIds PROVE Spec => RowOutlivesGrants
<1>1. OneThread /\ FreshIds
  OBVIOUS
<1>2. Init => RemoveInv
  BY DEF Init, RemoveInv, RemoveOK, Idle, Removing, Updating, InBridge
<1>3. TypeInv /\ OpInv /\ IdsInv /\ RemoveInv /\ [Next]_vars => RemoveInv'
  BY <1>1, RemoveNext
<1>4. TypeInv /\ OpInv /\ IdsInv /\ RemoveInv /\ [Next]_vars
        => [DeleteLevel >= 2 => KeepsRows]_vars
  BY <1>1, RemoveNext
<1>5. TypeInv /\ OpInv /\ [Next]_vars => OpInv'
  BY OpNext
<1>6. TypeInv /\ IdsInv /\ [Next]_vars => IdsInv'
  BY <1>1, IdsNext
<1>7. [DeleteLevel >= 2 => KeepsRows]_vars
        => [DeleteLevel >= 2 => \A c \in clients :
              \/ c \in clients'
              \/ GrantsOf(c) \cap grants' = {}
              \/ "aaf2xx" \in Faults /\ \E w \in Threads : t[w].pc = "drop" /\ t[w].cur = c]_vars
  BY DEF KeepsRows, Unexpected
<1> QED
  BY <1>2, <1>3, <1>4, <1>5, <1>6, <1>7, InitType, NextType, InitOps, InitIds, PTL
  DEF Spec, RowOutlivesGrants

-----------------------------------------------------------------------------
(* Clients and the clusters their topic is on.  Locations and clusters     *)
(* stay what they were when a topic was placed on them, ...                *)
PlacesStay ==
  \A r \in Requests :
    r.op \notin {"deleteCluster", "postLocation", "putLocation", "deleteLocation"}
(* ... no PUT mr_clients stores a status of its own, and the MR clusters   *)
(* answer, be it with an error: PostToCluster shows what a cluster that    *)
(* does not answer is taken for.                                           *)
ClustersAnswer ==
  "mrConn" \notin Faults /\ \A r \in Requests : r.op # "putClient"

LEMMA PlacesKept ==
  ASSUME PlacesStay, TypeInv, OpInv, [Next]_vars
  PROVE  layer' = layer /\ created \subseteq created' /\ ClusterLocs \subseteq ClusterLocs'
<1>1. ASSUME NEW w \in Threads, Serve(w)
      PROVE  layer' = layer /\ created \subseteq created' /\ ClusterLocs \subseteq ClusterLocs'
  <2> DEFINE th == t[w]
  <2>1. th \in Thread /\ th.rq \in Requests /\ OpOK(th)
    BY DEF TypeInv, TypeOK, OpInv, Thread
  <2>2. th.rq.op \notin {"deleteCluster", "postLocation", "putLocation", "deleteLocation"}
    BY <2>1 DEF PlacesStay
  <2>3. CASE TopicNext(w)
    BY <2>3, TopicFrame DEF ClusterLocs
  <2>4. CASE ClientNext(w)
    BY <2>4, ClientFrame, PostToClusterStep DEF ClusterLocs
  <2>5. CASE BridgeNext(w)
    BY <2>5, BridgeFrame DEF ClusterLocs, BridgeNext, StartBridge, VisitLoc, EndBridge, ReadMm,
       SendCreate, SendWhitelist, PutMm
  <2>6. CASE ClusterNext(w)
    <3>1. ~PutLocation(w) /\ ~RemoveLocation(w) /\ ~RemoveCluster(w)
      BY <2>1, <2>2 DEF OpOK, PutLocation, RemoveLocation, RemoveCluster
    <3>2. layer' = layer /\ created' = created
          /\ (PutCluster(w) \/ InvalidateCluster(w) \/ UNCHANGED clusters)
      BY <2>6, <3>1, ClusterFrame
    <3>3. ClusterStatus(th) # Absent /\ "INVALID" # Absent
      <4>1. th.rq.status \in Statuses
        BY <2>1, ConstantsAssumption DEF Request
      <4> QED
        BY <4>1 DEF ClusterStatus, Statuses, Absent
    <3>4. \A l \in Locs : clusters[l] # Absent => clusters'[l] # Absent
      BY <3>2, <3>3 DEF PutCluster, InvalidateCluster, TypeInv, TypeOK
    <3> QED
      BY <3>2, <3>4 DEF ClusterLocs
  <2> QED
    BY <1>1, <2>3, <2>4, <2>5, <2>6 DEF Serve
<1>2. CASE \E w \in Threads : Start(w)
  BY <1>2 DEF Start, mrVars, ClusterLocs
<1>3. CASE ExitProcess \/ UNCHANGED vars
  BY <1>3 DEF ExitProcess, mrVars, vars, ClusterLocs
<1> QED
  BY <1>1, <1>2, <1>3 DEF Next, Finished

(* A client that is being placed: its topic is on a cluster or still to be *)
(* posted to one, and so it is for the cluster of its own edge location.   *)
OnCluster(c, lay, P, C) ==
  /\ P # {} \/ \E l \in Locs : <<l, c.fqtn>> \in C
  /\ c.loc \in Locs /\ lay[c.loc] = "edge" => P = {c.loc} \/ <<c.loc, c.fqtn>> \in C
Posting(th, lay, K, C) ==
  /\ th.pc = "centrals" => th.cur.loc \in K /\ lay[th.cur.loc] = "central"
  /\ th.pc = "post" /\ (th.posts # {} \/ th.cur.status = "VALID") =>
       OnCluster(th.cur, lay, th.posts, C)
PostInv == ClientProvisioned /\ \A w \in Threads : Posting(t[w], layer, ClusterLocs, created)

LEMMA PostingMore ==
  ASSUME NEW th, NEW lay, NEW K, NEW K2, NEW C, NEW C2, K \subseteq K2, C \subseteq C2,
         Posting(th, lay, K, C)
  PROVE  Posting(th, lay, K2, C2)
  BY DEF Posting, OnCluster

LEMMA WhoPosts ==
  ASSUME TypeInv, NEW w \in Threads, Serve(w), t'[w].pc \in {"centrals", "post"}
  PROVE  \/ Place(w)
         \/ ListCentrals(w) /\ t'[w].pc = "post" /\ t'[w].posts = Centrals
                            /\ t'[w].cur = t[w].cur
         \/ PostToCluster(w) /\ t'[w].pc = "post" /\ t'[w].posts # t[w].posts
<1> DEFINE th == t[w]
           u  == t'[w]
<1>0. th \in Thread
  BY DEF TypeInv, TypeOK
<1>f. \A code \in {"ok", "conflict", "fail", "notFound"} : [th EXCEPT !.err = code] \in Thread
  BY <1>0, SetsErr
<1>e. \A v \in Thread : ~(\/ u \in {ServerError, Success} \/ (\E code : u = Reply(code))
                          \/ u = AddTopicReturns(v, TRUE) \/ u = AddTopicReturns(v, FALSE)
                          \/ u = AddClientFails(v) \/ u = RemoveClientReturns(v))
  <2> HIDE DEF u
  <2>1. u.pc \notin {"idle", "clusterInvalid", "dropTopic", "find"}
    BY DEF u
  <2> QED
    BY <2>1, Ends
<1>d. u # ServerError /\ u # Success /\ \A code : u # Reply(code)
  BY <1>0, <1>e
<1>1. ~TopicNext(w)
  <2>1. ~(Review(w) \/ Exists(w) \/ AddPerm(w))
    BY <1>0, <1>e, <1>f, ReviewStep, ExistsStep, AddPermStep
  <2>2. ~(PutTopic(w) \/ ListClients(w) \/ DropTopic(w))
    BY <1>0, <1>d, <1>e, <1>f, PutTopicStep, ListClientsStep, DropTopicStep
  <2>3. ~NextClient(w)
    <3> SUFFICES ASSUME NextClient(w) PROVE FALSE
      OBVIOUS
    <3>1. th.todo # <<>> /\ u = AddTopicReturns([th EXCEPT !.todo = Tail(th.todo)], FALSE)
      BY NextClientStep
    <3>2. Tail(th.todo) \in Seq(ClientSpec)
      BY <1>0, <3>1 DEF Thread
    <3>3. [th EXCEPT !.todo = Tail(th.todo)] \in Thread
      BY <1>0, <3>2 DEF Thread
    <3> QED
      BY <1>e, <3>1, <3>3
  <2> QED
    BY <2>1, <2>2, <2>3 DEF TopicNext
<1>2. ~BridgeNext(w)
  BY BridgeKeeps DEF InBridge
<1>3. ~ClusterNext(w)
  BY ClusterStep
<1>4. ~(FindCluster(w) \/ FindTopic(w) \/ StoreClient(w) \/ Reread(w) \/ LookupClient(w)
        \/ OverwriteClient(w))
  <2>1. ~(FindCluster(w) \/ FindTopic(w) \/ Reread(w) \/ OverwriteClient(w))
    BY <1>d, FindClusterStep, FindTopicStep, RereadStep, OverwriteClientStep
  <2>2. ~(StoreClient(w) \/ LookupClient(w))
    BY StoreClientStep, LookupClientStep
  <2> QED
    BY <2>1, <2>2
<1>5. ~(FindClient(w) \/ ViewTopic(w) \/ RevokeGrant(w) \/ DropClient(w) \/ Grant(w))
  <2>1. ~(FindClient(w) \/ ViewTopic(w))
    BY <1>d, FindClientStep, ViewTopicStep
  <2>2. ~(RevokeGrant(w) \/ DropClient(w) \/ Grant(w))
    BY <1>0, <1>e, <1>f, RevokeGrantStep, DropClientStep, GrantStep
  <2> QED
    BY <2>1, <2>2
<1>6. ListCentrals(w) => u.pc = "post" /\ u.posts = Centrals /\ u.cur = th.cur
  BY <1>d, ListCentralsStep
<1>7. PostToCluster(w) => u.pc = "post" /\ u.posts # th.posts
  BY <1>0, <1>e, <1>f, PostToClusterStep
<1> QED
  BY <1>1, <1>2, <1>3, <1>4, <1>5, <1>6, <1>7 DEF Serve, ClientNext

LEMMA PostServe ==
  ASSUME ClustersAnswer, PlacesStay, TypeInv, OpInv, PostInv, NEW w \in Threads, Serve(w)
  PROVE  PostInv'
<1> DEFINE th == t[w]
           u  == t'[w]
           K  == ClusterLocs
           K2 == ClusterLocs'
           C2 == created'
<1>0. th \in Thread /\ th.rq \in Requests /\ Posting(th, layer, K, created)
  BY DEF TypeInv, TypeOK, Thread, PostInv
<1>1. layer' = layer /\ created \subseteq C2 /\ K \subseteq K2
  BY PlacesKept DEF Next
<1>2. \A v \in Threads : v # w => t'[v] = t[v]
  BY Others
<1>3. Posting(u, layer, K2, C2)
  <2>1. CASE u.pc \notin {"centrals", "post"}
    BY <2>1 DEF Posting
  <2>2. CASE Place(w)
    <3>1. /\ u.cur.loc = th.cur.loc /\ u.cur.fqtn = th.cur.fqtn
          /\ \/ u.pc = "post" /\ u.posts = {} /\ u.cur.status = "STAGED"
             \/ u.pc = "centrals" /\ th.cur.loc \in K /\ layer[th.cur.loc] = "central"
             \/ u.pc = "post" /\ u.posts = {th.cur.loc}
      BY <2>2, PlaceStep DEF SameClient
    <3> HIDE DEF u, th, K, K2, C2
    <3> QED
      BY <1>1, <3>1 DEF Posting, OnCluster
  <2>3. CASE ListCentrals(w) /\ u.pc = "post" /\ u.posts = Centrals /\ u.cur = th.cur
    <3>1. th.pc = "centrals"
      BY <2>3, ListCentralsStep
    <3>2. th.cur.loc \in Centrals /\ layer[th.cur.loc] = "central"
      BY <1>0, <3>1 DEF Posting, Centrals
    <3> HIDE DEF u, th, K, K2, C2
    <3> QED
      BY <2>3, <3>2 DEF Posting, OnCluster
  <2>4. CASE PostToCluster(w) /\ u.pc = "post" /\ u.posts # th.posts
    <3>1. [th EXCEPT !.err = "fail"] \in Thread
      BY <1>0, SetsErr
    <3>2. u # AddClientFails(th) /\ u # AddClientFails([th EXCEPT !.err = "fail"])
      <4> HIDE DEF u
      <4>1. u.pc \notin {"idle", "clusterInvalid", "dropTopic", "find"}
        BY <2>4
      <4> QED
        BY <1>0, <3>1, <4>1, Ends
    <3>3. PICK l \in th.posts : /\ <<l, th.cur.fqtn>> \in C2 \/ u.cur.status = "INVALID"
                                /\ u.posts = th.posts \ {l} /\ SameClient(u.cur, th.cur)
      BY <2>4, <3>2, PostToClusterStep DEF ClustersAnswer
    <3>4. OnCluster(th.cur, layer, th.posts, created) /\ l \in Locs
      BY <1>0, <2>4, <3>3, PostToClusterStep DEF Posting, Thread
    <3> HIDE DEF u, th, K, K2, C2
    <3> QED
      BY <1>1, <2>4, <3>3, <3>4 DEF Posting, OnCluster, SameClient
  <2> QED
    BY <2>1, <2>2, <2>3, <2>4, WhoPosts
<1>4. \A v \in Threads : Posting(t'[v], layer, K2, C2)
  <2> HIDE DEF K, K2, C2
  <2>1. \A v \in Threads : Posting(t[v], layer, K, created)
    BY DEF PostInv, K
  <2> QED
    BY <1>1, <1>2, <1>3, <2>1, PostingMore
<1>5. \A c \in clients' : c \in clients \/ (StoreClient(w) /\ c = th.cur)
  <2>1. StoreClient(w) => clients' = Put(th.cur)
    BY StoreClientStep
  <2>2. DropClient(w) => clients' \subseteq clients
    BY DropClientStep
  <2>3. ~OverwriteClient(w)
    BY <1>0, OverwriteClientStep DEF ClustersAnswer
  <2>4. CASE ClientNext(w)
    <3>1. StoreClient(w) \/ DropClient(w) \/ clients' = clients
      BY <2>3, <2>4, ClientFrame
    <3>2. ASSUME StoreClient(w), NEW c \in clients' PROVE c \in clients \/ c = th.cur
      BY <2>1, <3>2 DEF Put
    <3> QED
      BY <2>2, <3>1, <3>2
  <2>5. CASE ~ClientNext(w)
    <3>1. clients' = clients
      <4>1. TopicNext(w) \/ BridgeNext(w) \/ ClusterNext(w)
        BY <2>5 DEF Serve
      <4> QED
        BY <4>1, TopicFrame, BridgeFrame, ClusterFrame
    <3> QED
      BY <3>1
  <2> QED
    BY <2>4, <2>5
<1>6. \A c \in clients' : c.status = "VALID" => OnCluster(c, layer, {}, C2)
  <2> SUFFICES ASSUME NEW c \in clients', c.status = "VALID"
               PROVE  OnCluster(c, layer, {}, C2)
    OBVIOUS
  <2>1. OnCluster(c, layer, {}, created)
    <3>1. CASE c \in clients
      BY <3>1 DEF PostInv, ClientProvisioned, OnCluster
    <3>2. CASE StoreClient(w) /\ c = th.cur
      BY <1>0, <3>2, StoreClientStep DEF Posting
    <3> QED
      BY <1>5, <3>1, <3>2
  <2> QED
    BY <1>1, <2>1 DEF OnCluster
<1>7. ClientProvisioned'
  BY <1>1, <1>6 DEF ClientProvisioned, OnCluster
<1> QED
  BY <1>1, <1>4, <1>7 DEF PostInv

(* A client stored as VALID has its topic on an MR cluster, and on that of *)
(* its own location when that is an edge: every thread posts what the      *)
(* placement of a client asks for before it stores the row, and nothing    *)
(* takes a topic off a cluster (MR_ClientService.addTopicToCluster).  Any  *)
(* number of threads, failed calls and exits; locations and clusters stay, *)
(* the clusters answer, and no PUT mr_clients stores a status of its own.  *)
THEOREM ValidMeansProvisioned ==
  ASSUME ClustersAnswer, PlacesStay PROVE Spec => []ClientProvisioned
<1>1. Init => PostInv
  BY DEF Init, PostInv, ClientProvisioned, Posting, Idle
<1>2. TypeInv /\ OpInv /\ PostInv /\ [Next]_vars => PostInv'
  <2> SUFFICES ASSUME TypeInv, OpInv, PostInv, [Next]_vars PROVE PostInv'
    OBVIOUS
  <2>1. CASE \E w \in Threads : Serve(w)
    BY <2>1, PostServe
  <2>2. CASE (\E w \in Threads : Start(w)) \/ ExitProcess \/ UNCHANGED vars
    <3>1. UNCHANGED <<layer, clusters, created, clients>>
      BY <2>2 DEF Start, ExitProcess, vars, mrVars
    <3>2. \A v \in Threads : t'[v] = t[v] \/ t'[v].pc \notin {"centrals", "post"}
      <4>1. CASE \E w \in Threads : Start(w)
        BY <4>1, StartStep, Others DEF FirstStep
      <4>2. CASE ExitProcess \/ UNCHANGED vars
        <5>1. Idle.pc = "idle"
          BY DEF Idle
        <5> QED
          BY <4>2, <5>1, ExitStep
      <4> QED
        BY <2>2, <4>1, <4>2
    <3> QED
      BY <3>1, <3>2 DEF PostInv, ClientProvisioned, Posting, ClusterLocs
  <2> QED
    BY <2>1, <2>2 DEF Next, Finished
<1> QED
  BY <1>1, <1>2, InitType, NextType, InitOps, OpNext, PTL DEF Spec, PostInv

-----------------------------------------------------------------------------
(* The agent's whitelists.  Only an exit between the whitelist message and *)
(* the put of the row, or two threads at one bridge, leave the agent ahead *)
(* of the row.                                                             *)
NotKilled == "kill" \notin Faults

BeginsWith(s, p) == Len(p) <= Len(s) /\ \A i \in 1..Len(p) : p[i] = s[i]
MmSteps == {"mmCreate", "mmWhitelist", "mmPut"}

(* The row that is to be put begins with what the agent has, and so does   *)
(* every row but that one.                                                 *)
Ahead(th, A) ==
  th.pc \in MmSteps /\ Head(th.plan) \in DOMAIN A => BeginsWith(th.mm, A[Head(th.plan)])
SyncInv ==
  /\ \A w \in Threads : Ahead(t[w], agent)
  /\ \A b \in DOMAIN agent :
       \/ \E w \in Threads : t[w].pc = "mmPut" /\ Head(t[w].plan) = b
       \/ b \in DOMAIN mirrors /\ BeginsWith(mirrors[b], agent[b])

LEMMA BeginsMore ==
  ASSUME NEW s \in Seq(Topics), NEW p \in Seq(Topics), NEW x \in Topics, BeginsWith(s, p)
  PROVE  BeginsWith(Append(s, x), p)
<1>1. /\ Append(s, x) \in Seq(Topics) /\ Len(Append(s, x)) = Len(s) + 1
      /\ \A i \in 1..Len(s) : Append(s, x)[i] = s[i]
  BY AppendProperties
<1>2. Len(s) \in Nat /\ Len(p) \in Nat
  BY LenProperties
<1> QED
  BY <1>1, <1>2 DEF BeginsWith

LEMMA BeginsWithItself == ASSUME NEW s \in Seq(Topics) PROVE BeginsWith(s, s)
  BY LenProperties DEF BeginsWith

LEMMA BeginsAsSubSeq ==
  ASSUME NEW s \in Seq(Topics), NEW p \in Seq(Topics), BeginsWith(s, p)
  PROVE  p = SubSeq(s, 1, Len(p))
<1> DEFINE n == Len(p)
           q == SubSeq(s, 1, n)
<1>1. n \in Nat /\ Len(s) \in Nat /\ n <= Len(s)
  BY LenProperties DEF BeginsWith
<1>2. q \in Seq(Topics) /\ Len(q) = n /\ \A i \in 1..n : q[i] = s[i]
  <2>1. \A i \in 1 .. n : s[i] \in Topics
    BY <1>1, LenProperties, ElementOfSeq
  <2>2. /\ q \in Seq(Topics)
        /\ Len(q) = IF 1 <= n THEN n - 1 + 1 ELSE 0
        /\ \A i \in 1 .. n - 1 + 1 : q[i] = s[1 + i - 1]
    BY <1>1, <2>1, SubSeqProperties
  <2> QED
    BY <1>1, <2>2
<1>3. \A i \in 1..n : p[i] = s[i]
  BY DEF BeginsWith
<1> HIDE DEF q
<1>4. p = q
  BY <1>2, <1>3, SeqEqual
<1> QED
  BY <1>4 DEF q

(* Bridges are made by the steps of checkForBridge only.                   *)
LEMMA WhoBridges ==
  ASSUME TypeInv, NEW w \in Threads, Serve(w), ~BridgeNext(w)
  PROVE  t[w].pc \notin MmSteps /\ t'[w].pc \notin Checking /\ UNCHANGED <<agent, mirrors>>
<1> DEFINE th == t[w]
           u  == t'[w]
           Quiet == th.pc \notin MmSteps /\ u.pc \notin Checking
<1>0. th \in Thread
  BY DEF TypeInv, TypeOK
<1>f. \A code \in {"ok", "conflict", "fail", "notFound"} : [th EXCEPT !.err = code] \in Thread
  BY <1>0, SetsErr
<1>e. \A v \in Thread : \/ u \in {ServerError, Success} \/ (\E code : u = Reply(code))
                        \/ u = AddTopicReturns(v, TRUE) \/ u = AddTopicReturns(v, FALSE)
                        \/ u = AddClientFails(v) \/ u = RemoveClientReturns(v)
        => u.pc \notin Checking
  <2> HIDE DEF u
  <2> QED
    BY Ends DEF Checking, InBridge
<1>d. u = ServerError \/ u = Success \/ (\E code : u = Reply(code)) => u.pc \notin Checking
  BY <1>0, <1>e
<1> HIDE DEF Quiet, th, u
<1>1. CASE TopicNext(w)
  <2>1. ASSUME Review(w) \/ Exists(w) \/ AddPerm(w) PROVE Quiet
    BY <1>0, <1>e, <1>f, <2>1, ReviewStep, ExistsStep, AddPermStep DEF Quiet, th, u, MmSteps, Checking, InBridge
  <2>2. ASSUME PutTopic(w) \/ ListClients(w) \/ DropTopic(w) PROVE Quiet
    BY <1>0, <1>d, <1>e, <1>f, <2>2, PutTopicStep, ListClientsStep, DropTopicStep
    DEF Quiet, th, u, MmSteps, Checking, InBridge
  <2>3. ASSUME NextClient(w) PROVE Quiet
    <3>1. /\ th.pc = "next"
          /\ \/ u.pc \in {"bridge", "grant", "next"}
             \/ th.todo # <<>> /\ u = AddTopicReturns([th EXCEPT !.todo = Tail(th.todo)], FALSE)
      BY <2>3, NextClientStep DEF th, u
    <3>2. ASSUME th.todo # <<>>, u = AddTopicReturns([th EXCEPT !.todo = Tail(th.todo)], FALSE)
          PROVE  u.pc \notin Checking
      <4>1. Tail(th.todo) \in Seq(ClientSpec)
        BY <1>0, <3>2 DEF Thread
      <4>2. [th EXCEPT !.todo = Tail(th.todo)] \in Thread
        BY <1>0, <4>1 DEF Thread
      <4> QED
        BY <1>e, <3>2, <4>2
    <3>3. th.pc \notin MmSteps /\ u.pc \notin Checking
      BY <3>1, <3>2 DEF MmSteps, Checking, InBridge
    <3> QED
      BY <3>3 DEF Quiet
  <2>4. \/ Review(w) \/ Exists(w) \/ AddPerm(w) \/ NextClient(w) \/ PutTopic(w)
        \/ ListClients(w) \/ DropTopic(w)
    BY <1>1 DEF TopicNext
  <2>5. Quiet
    BY <2>1, <2>2, <2>3, <2>4
  <2> QED
    BY <1>1, <2>5, TopicFrame DEF Quiet, th, u
<1>2. CASE ClientNext(w)
  <2>1. ASSUME FindCluster(w) \/ FindTopic(w) \/ Reread(w) \/ OverwriteClient(w) PROVE Quiet
    BY <1>d, <2>1, FindClusterStep, FindTopicStep, RereadStep, OverwriteClientStep
    DEF Quiet, th, u, MmSteps, Checking, InBridge
  <2>2. ASSUME StoreClient(w) \/ LookupClient(w) \/ Place(w) PROVE Quiet
    BY <2>2, StoreClientStep, LookupClientStep, PlaceStep DEF Quiet, th, u, MmSteps, Checking, InBridge
  <2>3. ASSUME FindClient(w) \/ ViewTopic(w) \/ ListCentrals(w) PROVE Quiet
    BY <1>d, <2>3, FindClientStep, ViewTopicStep, ListCentralsStep DEF Quiet, th, u, MmSteps, Checking, InBridge
  <2>4. ASSUME RevokeGrant(w) \/ DropClient(w) \/ Grant(w) \/ PostToCluster(w) PROVE Quiet
    <3>1. ASSUME RevokeGrant(w) PROVE Quiet
      BY <1>0, <1>e, <1>f, <3>1, RevokeGrantStep DEF Quiet, th, u, MmSteps, Checking, InBridge
    <3>2. ASSUME DropClient(w) PROVE Quiet
      BY <1>0, <1>e, <1>f, <3>2, DropClientStep DEF Quiet, th, u, MmSteps, Checking, InBridge
    <3>3. ASSUME Grant(w) PROVE Quiet
      BY <1>0, <1>e, <1>f, <3>3, GrantStep DEF Quiet, th, u, MmSteps, Checking, InBridge
    <3>4. ASSUME PostToCluster(w) PROVE Quiet
      BY <1>0, <1>e, <1>f, <3>4, PostToClusterStep DEF Quiet, th, u, MmSteps, Checking, InBridge
    <3> QED
      BY <2>4, <3>1, <3>2, <3>3, <3>4
  <2>5. Quiet
    BY <1>2, <2>1, <2>2, <2>3, <2>4 DEF ClientNext
  <2> QED
    BY <1>2, <2>5, ClientFrame DEF Quiet, th, u
<1>3. CASE ClusterNext(w)
  <2>1. th.pc \notin MmSteps
    BY <1>3 DEF th, MmSteps, ClusterNext, GetCluster, PutCluster, ClusterLocation,
       InvalidateCluster, RemoveCluster, CentralLocation, GetLocation, PutLocation,
       RemoveLocation
  <2>2. u.pc \notin Checking
    BY <1>3, ClusterStep DEF u, MmSteps, Checking, InBridge
  <2> QED
    BY <1>3, <2>1, <2>2, ClusterFrame DEF th, u
<1> QED
  BY <1>1, <1>2, <1>3 DEF Serve

LEMMA SyncBridge ==
  ASSUME OneThread, TypeInv, SyncInv, NEW w \in Threads, BridgeNext(w)
  PROVE  SyncInv'
<1> DEFINE th == t[w]
           u  == t'[w]
           hb == Head(th.plan)
           A  == agent
           A2 == agent'
           M  == mirrors
           M2 == mirrors'
           Pre  == Ahead(th, A)
           Post == Ahead(u, A2)
           Synced(b, q, p, a, m) ==
             \/ q = "mmPut" /\ Head(p) = b
             \/ b \in DOMAIN m /\ BeginsWith(m[b], a[b])
           Goal == Post /\ \A b \in DOMAIN A2 : Synced(b, u.pc, u.plan, A2, M2)
<1>0. /\ th \in Thread /\ th.mm \in Seq(Topics) /\ th.fqtn \in Topics
      /\ \A b \in DOMAIN M : M[b] \in Seq(Topics)
      /\ \A b \in DOMAIN A : A[b] \in Seq(Topics)
  BY DEF TypeInv, TypeOK, Thread
<1>1. \A v \in Threads : v = w
  BY DEF OneThread
<1>2. Pre /\ \A b \in DOMAIN A : Synced(b, th.pc, th.plan, A, M)
  BY <1>1 DEF SyncInv
<1>3. ASSUME UNCHANGED <<agent, mirrors>>, th.pc # "mmPut", u.pc \notin MmSteps PROVE Goal
  BY <1>2, <1>3 DEF Ahead, MmSteps
<1>4. ASSUME StartBridge(w) PROVE Goal
  <2>1. th.pc = "bridge" /\ UNCHANGED <<agent, mirrors>>
    BY <1>4, StartBridgeStep DEF StartBridge, mrVars
  <2>2. u.pc \notin MmSteps
    <3>1. u.pc = "loc" \/ u = ServerError \/ u = BridgeReturns(th, TRUE)
      BY <1>4, StartBridgeStep
    <3>2. u = ServerError => u.pc = "idle"
      BY Replies DEF ServerError
    <3>3. u = BridgeReturns(th, TRUE)
            => u.pc \in {"idle", "putTopic", "revoke", "clusterInvalid"}
      <4> HIDE DEF u, th
      <4>1. th \in Thread
        BY <1>0
      <4>2. u = Success \/ u = AddTopicReturns(th, FALSE) => u.pc \in {"idle", "clusterInvalid"}
        BY <4>1, Replies, Returns DEF Success, Over
      <4> QED
        BY <4>1, <4>2, ChecksBridge
    <3> QED
      BY <3>1, <3>2, <3>3 DEF MmSteps
  <2> QED
    BY <1>3, <2>1, <2>2
<1>5. ASSUME VisitLoc(w) PROVE Goal
  <2>1. th.pc = "loc" /\ UNCHANGED <<agent, mirrors>> /\ u.pc \in {"loc", "plan"}
    BY <1>5, VisitLocStep DEF VisitLoc, mrVars
  <2> QED
    BY <1>3, <2>1 DEF MmSteps
<1>6. ASSUME EndBridge(w) PROVE Goal
  <2>1. th.pc = "loc" /\ UNCHANGED <<agent, mirrors>>
    BY <1>6 DEF EndBridge, mrVars
  <2>2. u.pc \notin MmSteps
    <3>1. u = BridgeReturns(th, TRUE) \/ u = BridgeReturns(th, FALSE)
      BY <1>6, EndBridgeStep
    <3> HIDE DEF u, th
    <3>2. th \in Thread
      BY <1>0
    <3>3. u = Success \/ u = AddTopicReturns(th, FALSE) => u.pc \in {"idle", "clusterInvalid"}
      BY <3>2, Replies, Returns DEF Success, Over
    <3>4. u.pc \in {"idle", "putTopic", "revoke", "clusterInvalid"}
      BY <3>1, <3>2, <3>3, ChecksBridge
    <3> QED
      BY <3>4 DEF MmSteps
  <2> QED
    BY <1>3, <2>1, <2>2
<1>7. ASSUME ReadMm(w) PROVE Goal
  <2>1. th.pc = "plan" /\ A2 = A /\ M2 = M
    BY <1>7 DEF ReadMm, mrVars
  <2>2. CASE u.pc # "mmCreate"
    <3>1. u.pc \in {"idle", "loc"}
      BY <1>7, <2>2, ReadMmStep, Replies DEF ServerError
    <3> QED
      BY <1>3, <2>1, <3>1 DEF MmSteps
  <2>3. CASE u.pc = "mmCreate"
    <3>1. u.plan = th.plan /\ u.mm = Append(IF hb \in DOMAIN M THEN M[hb] ELSE <<>>, th.fqtn)
      BY <1>7, <2>3, ReadMmStep, Replies DEF ServerError
    <3>2. \A b \in DOMAIN A : b \in DOMAIN M /\ BeginsWith(M[b], A[b])
      BY <1>2, <2>1
    <3>3. hb \in DOMAIN A => BeginsWith(u.mm, A[hb])
      <4>1. SUFFICES ASSUME hb \in DOMAIN A PROVE BeginsWith(Append(M[hb], th.fqtn), A[hb])
        BY <3>1, <3>2
      <4> QED
        BY <1>0, <3>2, <4>1, BeginsMore
    <3> QED
      BY <2>1, <2>3, <3>1, <3>2, <3>3 DEF Ahead
  <2> QED
    BY <2>2, <2>3
<1>8. ASSUME SendCreate(w) PROVE Goal
  <2>1. th.pc = "mmCreate" /\ A2 = A /\ M2 = M /\ u.mm = th.mm
        /\ (u.pc = "loc" \/ (u.pc \in MmSteps /\ u.plan = th.plan))
    BY <1>8, SendCreateStep DEF SendCreate, mrVars, MmSteps, KeepBridge
  <2>2. \A b \in DOMAIN A : b \in DOMAIN M /\ BeginsWith(M[b], A[b])
    BY <1>2, <2>1
  <2>3. Post
    BY <1>2, <2>1 DEF Ahead, MmSteps
  <2> QED
    BY <2>1, <2>2, <2>3
<1>9. ASSUME SendWhitelist(w) PROVE Goal
  <2>1. /\ th.pc = "mmWhitelist" /\ M2 = M /\ u.mm = th.mm /\ u.pc = "mmPut"
        /\ u.plan = th.plan /\ (A2 = A \/ A2 = Set(A, hb, th.mm))
    BY <1>9, SendWhitelistStep DEF SendWhitelist, KeepBridge
  <2>2. \A b \in DOMAIN A : b \in DOMAIN M /\ BeginsWith(M[b], A[b])
    BY <1>2, <2>1
  <2>3. BeginsWith(th.mm, th.mm)
    BY <1>0, BeginsWithItself
  <2>4. hb \in DOMAIN A => BeginsWith(th.mm, A[hb])
    BY <1>2, <2>1 DEF Ahead, MmSteps
  <2> HIDE DEF A, A2, M, M2, hb
  <2>5. hb \in DOMAIN A2 => BeginsWith(th.mm, A2[hb])
    BY <2>1, <2>3, <2>4 DEF Set
  <2>6. \A b \in DOMAIN A2 : b # hb => b \in DOMAIN A /\ A2[b] = A[b]
    BY <2>1 DEF Set
  <2>7. Post
    BY <2>1, <2>5 DEF Ahead, hb
  <2>8. \A b \in DOMAIN A2 : Synced(b, u.pc, u.plan, A2, M2)
    BY <2>1, <2>2, <2>6 DEF hb
  <2> QED
    BY <2>7, <2>8
<1>10. ASSUME PutMm(w) PROVE Goal
  <2>1. /\ th.pc = "mmPut" /\ A2 = A /\ u.pc = "plan" /\ M2 = Set(M, hb, th.mm)
    BY <1>10, PutMmStep DEF PutMm, mrVars
  <2>2. hb \in DOMAIN A => BeginsWith(th.mm, A[hb])
    BY <1>2, <2>1 DEF Ahead, MmSteps
  <2>3. \A b \in DOMAIN A : b # hb => b \in DOMAIN M /\ BeginsWith(M[b], A[b])
    BY <1>2
  <2>4. Post
    BY <2>1 DEF Ahead, MmSteps
  <2> HIDE DEF A, A2, M, M2, hb, Post
  <2>5. \A b \in DOMAIN A2 : b \in DOMAIN M2 /\ BeginsWith(M2[b], A2[b])
    BY <2>1, <2>2, <2>3 DEF Set
  <2> QED
    BY <2>4, <2>5
<1>11. Goal
  BY <1>4, <1>5, <1>6, <1>7, <1>8, <1>9, <1>10 DEF BridgeNext
<1> QED
  BY <1>1, <1>11 DEF SyncInv

(* While no update is under way, the agent's whitelist of a bridge is a    *)
(* beginning of the row stored for it: updateMirrorMaker appends to the    *)
(* row it read and sends what it then stores, whatever messages are lost   *)
(* (MirrorMakerService.updateMirrorMaker).  Requests are served one after  *)
(* the other; two at one bridge lose topics (run lost_whitelist).          *)
THEOREM AgentFollowsRow ==
  ASSUME OneThread, NotKilled PROVE Spec => []AgentInSync
<1>1. Init => SyncInv
  BY DEF Init, SyncInv, Ahead, Idle, MmSteps
<1>2. TypeInv /\ SyncInv /\ [Next]_vars => SyncInv'
  <2> SUFFICES ASSUME TypeInv, SyncInv, [Next]_vars PROVE SyncInv'
    OBVIOUS
  <2>1. CASE \E w \in Threads : BridgeNext(w)
    BY <2>1, SyncBridge
  <2>2. ASSUME UNCHANGED <<agent, mirrors>>, NEW w \in Threads,
               t[w].pc \notin MmSteps, t'[w].pc \notin MmSteps
        PROVE  SyncInv'
    BY <2>2 DEF SyncInv, Ahead, OneThread, MmSteps
  <2>3. ASSUME NEW w \in Threads, Serve(w), ~BridgeNext(w) PROVE SyncInv'
    BY <2>2, <2>3, WhoBridges DEF MmSteps, Checking, InBridge
  <2>4. ASSUME NEW w \in Threads, Start(w) PROVE SyncInv'
    BY <2>2, <2>4, StartStep DEF FirstStep, MmSteps
  <2>5. CASE ExitProcess
    <3>1. PICK w \in Threads : CallsAaf(t[w])
      BY <2>5 DEF ExitProcess, NotKilled
    <3>2. t'[w].pc = "idle" /\ t[w].pc \notin MmSteps
      BY <2>5, <3>1 DEF ExitProcess, Idle, CallsAaf, MmSteps
    <3>3. UNCHANGED <<agent, mirrors>>
      BY <2>5 DEF ExitProcess, mrVars
    <3> QED
      BY <2>2, <3>2, <3>3 DEF MmSteps
  <2>6. CASE UNCHANGED vars
    BY <2>6 DEF vars, SyncInv, Ahead
  <2> QED
    BY <2>1, <2>3, <2>4, <2>5, <2>6 DEF Next, Finished
<1>3. TypeInv /\ SyncInv => AgentInSync
  <2> SUFFICES ASSUME TypeInv, SyncInv, \A w \in Threads : t[w].pc # "mmPut",
                      NEW b \in DOMAIN agent
               PROVE  b \in DOMAIN mirrors /\ agent[b] = SubSeq(mirrors[b], 1, Len(agent[b]))
    BY DEF AgentInSync
  <2>1. b \in DOMAIN mirrors /\ BeginsWith(mirrors[b], agent[b])
    BY DEF SyncInv
  <2>2. mirrors[b] \in Seq(Topics) /\ agent[b] \in Seq(Topics)
    BY <2>1 DEF TypeInv, TypeOK
  <2> QED
    BY <2>1, <2>2, BeginsAsSubSeq
<1> QED
  BY <1>1, <1>2, <1>3, InitType, NextType, PTL DEF Spec

-----------------------------------------------------------------------------
(* POST topics and the clients it is given.  Nothing takes rows or grants  *)
(* away again.                                                             *)
NothingRemoved == \A r \in Requests : r.op \notin {"deleteTopic", "deleteClient"}

Fits(c, f, s) == c.fqtn = f /\ c.loc = s.loc /\ c.role = s.role /\ c.acts = s.acts

(* AAF answered a grant of the client with an unexpected 2xx, and a null   *)
(* took its place.                                                         *)
Missed(th, s) ==
  /\ "aaf2xx" \in Faults
  /\ \E c \in th.view : IsNull(c) /\ c.loc = s.loc /\ c.role = s.role /\ c.acts = s.acts

(* A client that was asked for is still to be added, is being added, is    *)
(* stored or was missed; and once the bridges are checked, none is left to *)
(* add.                                                                    *)
Asked(th, s, C) ==
  \/ s \in Elements(th.todo)
  \/ th.pc \in Pending /\ Fits(th.cur, th.fqtn, s)
  \/ \E c \in C : Fits(c, th.fqtn, s)
  \/ Missed(th, s)
CompleteOK(th, C) ==
  th.rq.op = "postTopic" /\ th.pc # "idle" =>
    /\ th.fqtn = th.rq.fqtn
    /\ th.pc \in {"bridge", "putTopic"} \cup InBridge => th.todo = <<>>
    /\ \A s \in Elements(th.rq.clients) : s.loc # NoLoc => Asked(th, s, C)
CompleteInv == \A w \in Threads : CompleteOK(t[w], clients)

LEMMA HeadOrTail ==
  ASSUME NEW S, NEW s \in Seq(S), s # <<>>
  PROVE  \A x \in Elements(s) : x = Head(s) \/ x \in Elements(Tail(s))
<1>1. /\ Len(s) \in Nat /\ DOMAIN s = 1..Len(s) /\ Tail(s) \in Seq(S)
      /\ Len(Tail(s)) = Len(s) - 1 /\ \A i \in 1..Len(Tail(s)) : Tail(s)[i] = s[i + 1]
      /\ Head(s) = s[1]
  BY LenProperties, HeadTailProperties
<1>2. DOMAIN Tail(s) = 1..Len(Tail(s))
  BY <1>1, LenProperties
<1> SUFFICES ASSUME NEW i \in 1..Len(s), i # 1 PROVE s[i] \in Elements(Tail(s))
  BY <1>1 DEF Elements
<1> DEFINE n == Len(s)
           m == Len(Tail(s))
           r == Tail(s)
<1>3. i - 1 \in 1..m
  <2>1. n \in Nat /\ m = n - 1 /\ i \in 1..n /\ i # 1
    BY <1>1
  <2> HIDE DEF n, m
  <2> QED
    BY <2>1
<1>4. r[i - 1] = s[i]
  <2>1. r[i - 1] = s[(i - 1) + 1]
    BY <1>1, <1>3
  <2>2. (i - 1) + 1 = i
    OBVIOUS
  <2> QED
    BY <2>1, <2>2
<1> QED
  BY <1>2, <1>3, <1>4 DEF Elements

(* A request that adds goes on with the topic and the clients it had.      *)
LEMMA StaysAsked ==
  ASSUME NEW th, NEW u, NEW C, NEW C2, C \subseteq C2, CompleteOK(th, C), th.pc # "idle",
         u.rq = th.rq, u.fqtn = th.fqtn, u.todo = th.todo, u.view = th.view,
         th.pc \notin Pending \/ (u.pc \in Pending /\ SameClient(u.cur, th.cur)),
         u.pc \in {"bridge", "putTopic"} \cup InBridge => th.todo = <<>>
  PROVE  CompleteOK(u, C2)
<1> SUFFICES ASSUME u.rq.op = "postTopic" PROVE CompleteOK(u, C2)
  BY DEF CompleteOK
<1>1. /\ th.fqtn = th.rq.fqtn
      /\ \A s \in Elements(th.rq.clients) : s.loc # NoLoc => Asked(th, s, C)
  BY DEF CompleteOK
<1>2. \A s : Asked(th, s, C) => Asked(u, s, C2)
  BY DEF Asked, Missed, Fits, SameClient
<1> QED
  BY <1>1, <1>2 DEF CompleteOK

LEMMA CompleteServe ==
  ASSUME FreshIds, NothingRemoved, TypeInv, OpInv, IdsInv, NEW w \in Threads, Serve(w),
         CompleteOK(t[w], clients)
  PROVE  clients \subseteq clients' /\ CompleteOK(t'[w], clients')
<1> DEFINE th == t[w]
           u  == t'[w]
           C  == clients
           C2 == clients'
           Goal == CompleteOK(u, C2)
<1>0. th \in Thread /\ th.rq \in Requests /\ OpOK(th) /\ CompleteOK(th, C)
      /\ th.todo \in Seq(ClientSpec)
  BY DEF TypeInv, TypeOK, OpInv, Thread
<1>1. C \subseteq C2
  <2>1. ~DropClient(w)
    BY <1>0, DropClientStep DEF OpOK, NothingRemoved
  <2>2. CASE StoreClient(w)
    <3>1. th.pc \in Pending /\ C2 = Put(th.cur)
      BY <2>2, StoreClientStep DEF Pending
    <3>2. \A c \in clients : c.id # th.cur.id
      BY <3>1 DEF IdsInv
    <3> QED
      BY <3>1, <3>2 DEF Put
  <2> QED
    BY <2>1, <2>2, PendingStep
<1>2. th.pc # "idle"
  BY ServesBusy
<1>3. u.pc = "idle" => Goal
  BY DEF CompleteOK
<1>4. u.pc = "idle" \/ u.rq = th.rq
  BY SameRequest
<1>5. CASE th.rq.op # "postTopic"
  BY <1>1, <1>4, <1>5 DEF CompleteOK
<1> SUFFICES ASSUME th.rq.op = "postTopic" PROVE Goal
  BY <1>1, <1>5
<1>a. ASSUME /\ KeepTopic(th, u) \/ (u.rq = th.rq /\ u.fqtn = th.fqtn)
             /\ u.todo = th.todo /\ u.view = th.view
             /\ th.pc \notin Pending \/ (u.pc \in Pending /\ SameClient(u.cur, th.cur))
             /\ \/ u.pc \notin {"bridge", "putTopic"} \cup InBridge
                \/ th.todo = <<>>
      PROVE  Goal
  <2>1. u.rq = th.rq /\ u.fqtn = th.fqtn
    BY <1>a DEF KeepTopic
  <2> HIDE DEF u, th, C, C2
  <2> QED
    BY <1>0, <1>1, <1>2, <1>a, <2>1, StaysAsked
<1>b. \A v \in Thread : /\ v.rq.op = "postTopic"
                        /\ \/ u = AddTopicReturns(v, TRUE) \/ u = AddTopicReturns(v, FALSE)
                           \/ u = AddClientFails(v)
        => Goal
  <2> SUFFICES ASSUME NEW v \in Thread, v.rq.op = "postTopic",
                      \/ u = AddTopicReturns(v, TRUE) \/ u = AddTopicReturns(v, FALSE)
                      \/ u = AddClientFails(v)
               PROVE  u.pc = "idle"
    BY <1>3
  <2> HIDE DEF u
  <2> QED
    BY Returns, Fails
<1>c. \A code \in {"ok", "conflict", "fail", "notFound"} :
        [th EXCEPT !.err = code] \in Thread /\ [th EXCEPT !.err = code].rq.op = "postTopic"
  BY <1>0, SetsErr DEF KeepTopic
<1>d. u = ServerError \/ u = Success => Goal
  BY <1>3, Replies DEF ServerError, Success
<1>e. th.pc \notin {"list", "dropTopic", "find", "view", "revoke", "drop", "cluster", "topic", "reread",
                    "lookup", "overwrite", "clusterGet", "clusterPut", "clusterLoc",
                    "clusterInvalid", "clusterRemove", "central", "locGet", "locPut",
                    "locRemove"}
  BY <1>0 DEF OpOK, TypeInv, ThreadOK
<1>f. SameClient(th.cur, th.cur)
  BY DEF SameClient
<1> HIDE DEF th, u, Goal, C, C2
<1>6. ASSUME TopicNext(w) PROVE Goal
  <2>1. ASSUME Review(w) PROVE Goal
    BY <1>a, <2>1, ReviewStep DEF Pending, InBridge, KeepLists, th, u
  <2>2. ASSUME Exists(w) PROVE Goal
    <3>1. \/ u = AddTopicReturns([th EXCEPT !.err = "conflict"], FALSE)
          \/ th.pc = "exists" /\ u.pc = "perm" /\ KeepTopic(th, u) /\ KeepLists(th, u)
      BY <2>2, ExistsStep DEF th, u
    <3> QED
      BY <1>a, <1>b, <1>c, <3>1 DEF Pending, InBridge, KeepLists
  <2>3. ASSUME AddPerm(w) PROVE Goal
    <3>1. \/ u = AddTopicReturns([th EXCEPT !.err = "fail"], FALSE)
          \/ th.pc = "perm" /\ u.pc \in {"perm", "next"} /\ KeepTopic(th, u) /\ KeepLists(th, u)
      BY <2>3, AddPermStep DEF th, u
    <3> QED
      BY <1>a, <1>b, <1>c, <3>1 DEF Pending, InBridge, KeepLists
  <2>4. ASSUME NextClient(w) PROVE Goal
    <3> DEFINE s == Head(th.todo)
               r == Tail(th.todo)
    <3>1. th.pc = "next" /\
          \/ /\ th.todo = <<>> /\ u.pc = "bridge" /\ KeepTopic(th, u) /\ KeepLists(th, u)
          \/ /\ th.todo # <<>> /\ u.pc = "grant" /\ u.todo = r /\ Fits(u.cur, th.fqtn, s)
             /\ th.view \subseteq u.view /\ KeepTopic(th, u)
          \/ /\ th.todo # <<>> /\ s.loc = NoLoc /\ u.pc = "next" /\ u.todo = r
             /\ th.view \subseteq u.view /\ KeepTopic(th, u)
          \/ th.todo # <<>> /\ u = AddTopicReturns([th EXCEPT !.todo = r], FALSE)
      <4> DEFINE c == [id |-> nextId, fqtn |-> th.fqtn, loc |-> s.loc, role |-> s.role,
                       acts |-> s.acts, status |-> "VALID"]
                 v == [th EXCEPT !.todo = r]
      <4>1. /\ th.pc = "next"
            /\ \/ /\ th.todo = <<>> /\ u.pc = "bridge"
                  /\ KeepTopic(th, u) /\ KeepLists(th, u)
               \/ /\ th.todo # <<>> /\ u.pc = "grant" /\ u.todo = r /\ u.cur = c
                  /\ th.view \subseteq u.view /\ KeepTopic(th, u)
               \/ /\ th.todo # <<>> /\ s.loc = NoLoc /\ u.pc = "next" /\ u.todo = r
                  /\ th.view \subseteq u.view /\ KeepTopic(th, u)
               \/ th.todo # <<>> /\ u = AddTopicReturns(v, FALSE)
        BY <2>4, NextClientStep DEF th, u
      <4>2. Fits(c, th.fqtn, s)
        BY DEF Fits
      <4> HIDE DEF c, v, s, r
      <4>3. u.cur = c => Fits(u.cur, th.fqtn, s)
        BY <4>2
      <4> QED
        BY <4>1, <4>3 DEF v
    <3>2. CASE th.todo = <<>> /\ u.pc = "bridge" /\ KeepTopic(th, u) /\ KeepLists(th, u)
      BY <1>a, <3>1, <3>2 DEF Pending, KeepLists
    <3>3. CASE /\ th.todo # <<>> /\ u.pc \in {"grant", "next"} /\ u.todo = r
               /\ (u.pc = "grant" /\ Fits(u.cur, th.fqtn, s)) \/ s.loc = NoLoc
               /\ th.view \subseteq u.view /\ KeepTopic(th, u)
      <4>1. \A x \in Elements(th.todo) : x = s \/ x \in Elements(u.todo)
        BY <1>0, <3>3, HeadOrTail
      <4>2. \A x : x.loc # NoLoc /\ Asked(th, x, C) => Asked(u, x, C2)
        BY <1>1, <3>1, <3>3, <4>1 DEF Asked, Missed, Pending, KeepTopic
      <4> QED
        BY <1>0, <1>2, <3>3, <4>2 DEF Goal, CompleteOK, KeepTopic, InBridge
    <3>4. CASE th.todo # <<>> /\ u = AddTopicReturns([th EXCEPT !.todo = r], FALSE)
      <4>1. r \in Seq(ClientSpec)
        BY <1>0, <3>4
      <4>2. [th EXCEPT !.todo = r] \in Thread /\ [th EXCEPT !.todo = r].rq = th.rq
        BY <1>0, <4>1 DEF Thread
      <4> QED
        BY <1>b, <3>4, <4>2
    <3> QED
      BY <3>1, <3>2, <3>3, <3>4
  <2>5. ASSUME PutTopic(w) PROVE Goal
    <3>1. u = AddTopicReturns([th EXCEPT !.err = "ok"], TRUE)
      BY <2>5, PutTopicStep DEF th, u
    <3> QED
      BY <1>b, <1>c, <3>1
  <2>6. ~ListClients(w) /\ ~DropTopic(w)
    BY <1>e, ListClientsStep, DropTopicStep DEF th
  <2> QED
    BY <1>6, <2>1, <2>2, <2>3, <2>4, <2>5, <2>6 DEF TopicNext
<1>7. ASSUME ClientNext(w) PROVE Goal
  <2>1. Grant(w) \/ Place(w) \/ ListCentrals(w) \/ PostToCluster(w) \/ StoreClient(w)
    BY <1>7, <1>e, FindClusterStep, FindTopicStep, RereadStep, LookupClientStep,
       OverwriteClientStep, FindClientStep, ViewTopicStep, RevokeGrantStep, DropClientStep
    DEF ClientNext, th
  <2>2. ASSUME Grant(w) PROVE Goal
    <3>1. \/ u = AddClientFails([th EXCEPT !.err = "fail"])
          \/ u.pc = "grant" /\ u.cur = th.cur /\ KeepTopic(th, u) /\ KeepLists(th, u)
          \/ /\ "aaf2xx" \in Faults /\ u.pc = "next" /\ u.todo = th.todo
             /\ u.view = th.view \cup {NullOf(th.cur)} /\ KeepTopic(th, u)
      BY <2>2, GrantStep DEF th, u
    <3>2. CASE /\ "aaf2xx" \in Faults /\ u.pc = "next" /\ u.todo = th.todo
               /\ u.view = th.view \cup {NullOf(th.cur)} /\ KeepTopic(th, u)
      <4>1. /\ IsNull(NullOf(th.cur)) /\ NullOf(th.cur).loc = th.cur.loc
            /\ NullOf(th.cur).role = th.cur.role /\ NullOf(th.cur).acts = th.cur.acts
        BY <1>0, NullOfType DEF Thread
      <4>2. \A x : Asked(th, x, C) => Asked(u, x, C2)
        BY <1>1, <3>2, <4>1 DEF Asked, Missed, Fits, KeepTopic
      <4> QED
        BY <1>0, <1>2, <3>2, <4>2 DEF Goal, CompleteOK, KeepTopic, InBridge
    <3> QED
      BY <1>a, <1>b, <1>c, <1>f, <3>1, <3>2 DEF Pending, InBridge, KeepLists
  <2>3. ASSUME Place(w) PROVE Goal
    BY <1>a, <1>f, <2>3, PlaceStep DEF Pending, InBridge, KeepLists, th, u
  <2>4. ASSUME ListCentrals(w) PROVE Goal
    BY <1>a, <1>d, <1>f, <2>4, ListCentralsStep DEF Pending, InBridge, KeepLists, th, u
  <2>5. ASSUME PostToCluster(w) PROVE Goal
    <3>1. \/ u = AddClientFails([th EXCEPT !.err = "fail"]) \/ u = AddClientFails(th)
          \/ u.pc = "post" /\ SameClient(u.cur, th.cur) /\ KeepTopic(th, u) /\ KeepLists(th, u)
      BY <2>5, PostToClusterStep DEF th, u
    <3> QED
      BY <1>0, <1>a, <1>b, <1>c, <3>1 DEF Pending, InBridge, KeepLists
  <2>6. ASSUME StoreClient(w) PROVE Goal
    <3>1. /\ C2 = Put(th.cur) /\ u.pc = "next" /\ u.todo = th.todo /\ KeepTopic(th, u)
          /\ th.view \subseteq u.view
      BY <2>6, StoreClientStep DEF th, u, C2
    <3>2. th.cur \in C2
      BY <3>1 DEF Put
    <3>3. \A x : Asked(th, x, C) => Asked(u, x, C2)
      BY <1>1, <3>1, <3>2 DEF Asked, Missed, KeepTopic
    <3> QED
      BY <1>0, <1>2, <3>1, <3>3 DEF Goal, CompleteOK, KeepTopic, InBridge
  <2> QED
    BY <2>1, <2>2, <2>3, <2>4, <2>5, <2>6
<1>8. ASSUME BridgeNext(w) PROVE Goal
  <2>1. /\ th.pc \in {"bridge"} \cup InBridge
        /\ \/ u.pc = "idle" \/ u.pc = "clusterInvalid"
           \/ KeepWork(th, u)
    BY <1>8, BridgeKeeps DEF th, u
  <2>2. u.pc # "clusterInvalid"
    <3>1. OpOK(u)
      BY <1>8, OpBridge DEF u, OpInv
    <3> QED
      BY <1>4, <3>1 DEF OpOK
  <2>3. th.todo = <<>> /\ th.pc \notin Pending
    BY <1>0, <1>2, <2>1 DEF CompleteOK, Pending, InBridge
  <2> QED
    BY <1>3, <1>a, <2>1, <2>2, <2>3 DEF KeepWork, KeepLists, u
<1>9. ~ClusterNext(w)
  BY <1>e DEF th, ClusterNext, GetCluster, PutCluster, ClusterLocation, InvalidateCluster,
     RemoveCluster, CentralLocation, GetLocation, PutLocation, RemoveLocation
<1> QED
  BY <1>6, <1>7, <1>8, <1>9 DEF Serve

(* Only the put of the topic answers POST topics with success.             *)
LEMMA StoredSucceeds ==
  ASSUME TypeInv, OpInv, NEW w \in Threads, Serve(w), t[w].rq.op = "postTopic",
         t'[w].pc = "idle", t'[w].reply = "success"
  PROVE  PutTopic(w)
<1> DEFINE th == t[w]
           u  == t'[w]
<1>0. th \in Thread /\ th.rq \in Requests /\ OpOK(th)
  BY DEF TypeInv, TypeOK, OpInv, Thread
<1>1. \A v \in Thread : v.rq.op = "postTopic" =>
        u # AddTopicReturns(v, FALSE) /\ u # AddClientFails(v)
  <2>1. \A v \in Thread : v.err # "success"
    BY DEF Thread, Codes
  <2> DEFINE x == u
  <2>2. u.reply = "success"
    OBVIOUS
  <2> HIDE DEF u
  <2> QED
    BY <2>1, <2>2, Returns, Fails
<1>2. \A code \in {"ok", "conflict", "fail", "notFound"} :
        [th EXCEPT !.err = code] \in Thread /\ [th EXCEPT !.err = code].rq.op = "postTopic"
  BY <1>0, SetsErr DEF KeepTopic
<1>3. u # ServerError
  BY Replies DEF ServerError
<1>4. th.pc \notin {"list", "dropTopic", "find", "view", "revoke", "drop", "cluster", "topic", "reread",
                    "lookup", "overwrite", "clusterGet", "clusterPut", "clusterLoc",
                    "clusterInvalid", "clusterRemove", "central", "locGet", "locPut",
                    "locRemove"}
  BY <1>0 DEF OpOK, TypeInv, ThreadOK
<1>5. TopicNext(w) => PutTopic(w)
  <2>1. ~Review(w) /\ ~Exists(w) /\ ~AddPerm(w)
    BY <1>1, <1>2, ReviewStep, ExistsStep, AddPermStep
  <2>2. ~NextClient(w)
    <3> SUFFICES ASSUME NextClient(w) PROVE FALSE
      OBVIOUS
    <3>1. th.todo # <<>> /\ u = AddTopicReturns([th EXCEPT !.todo = Tail(th.todo)], FALSE)
      BY NextClientStep
    <3>2. Tail(th.todo) \in Seq(ClientSpec)
      BY <1>0, <3>1 DEF Thread
    <3>3. /\ [th EXCEPT !.todo = Tail(th.todo)] \in Thread
          /\ [th EXCEPT !.todo = Tail(th.todo)].rq = th.rq
      BY <1>0, <3>2 DEF Thread
    <3> QED
      BY <1>1, <3>1, <3>3
  <2>3. ~ListClients(w) /\ ~DropTopic(w)
    BY <1>4, ListClientsStep, DropTopicStep
  <2> QED
    BY <2>1, <2>2, <2>3 DEF TopicNext
<1>6. ~ClientNext(w)
  <2>1. ~(Grant(w) \/ PostToCluster(w))
    BY <1>0, <1>1, <1>2, GrantStep, PostToClusterStep
  <2>2. ~(Place(w) \/ ListCentrals(w) \/ StoreClient(w))
    BY <1>3, PlaceStep, ListCentralsStep, StoreClientStep
  <2> QED
    BY <1>4, <2>1, <2>2, FindClusterStep, FindTopicStep, RereadStep, LookupClientStep,
       OverwriteClientStep, FindClientStep, ViewTopicStep, RevokeGrantStep, DropClientStep
    DEF ClientNext
<1>7. ~BridgeNext(w)
  <2>1. u # BridgeReturns(th, TRUE) /\ u # BridgeReturns(th, FALSE)
    <3>1. th \in Thread /\ u.pc = "idle" /\ u # AddTopicReturns(th, FALSE)
      BY <1>0, <1>1
    <3>2. th.rq.op = "postTopic"
      OBVIOUS
    <3> HIDE DEF u, th
    <3>3. u = BridgeReturns(th, TRUE) \/ u = BridgeReturns(th, FALSE)
            => u.pc = "putTopic" \/ u = AddTopicReturns(th, FALSE)
      BY <3>1, <3>2, ChecksBridge
    <3> QED
      BY <3>1, <3>3
  <2>2. ~(StartBridge(w) \/ EndBridge(w) \/ ReadMm(w))
    <3>1. EndBridge(w) => u = BridgeReturns(th, TRUE) \/ u = BridgeReturns(th, FALSE)
      BY EndBridgeStep
    <3> QED
      BY <1>3, <2>1, <3>1, StartBridgeStep, ReadMmStep
  <2>3. ~(VisitLoc(w) \/ SendCreate(w) \/ SendWhitelist(w) \/ PutMm(w))
    BY VisitLocStep, SendCreateStep, SendWhitelistStep, PutMmStep
  <2> QED
    BY <2>2, <2>3 DEF BridgeNext
<1>8. ~ClusterNext(w)
  BY <1>4 DEF ClusterNext, GetCluster, PutCluster, ClusterLocation, InvalidateCluster,
     RemoveCluster, CentralLocation, GetLocation, PutLocation, RemoveLocation
<1> QED
  BY <1>5, <1>6, <1>7, <1>8 DEF Serve

(* What CreatedIsComplete says of a step.                                  *)
CompleteStep ==
  \A w \in Threads : t[w].rq.op = "postTopic" /\ Answers(w, "success") =>
    /\ topics'[t[w].rq.fqtn] # Absent
    /\ \A s \in Elements(t[w].rq.clients) : s.loc # NoLoc =>
         \/ \E c \in clients' : /\ c.fqtn = t[w].rq.fqtn
                                /\ <<c.loc, c.role, c.acts>> = <<s.loc, s.role, s.acts>>
                                /\ GrantsOf(c) \subseteq grants'
         \/ /\ "aaf2xx" \in Faults
            /\ \E c \in t[w].view :
                 IsNull(c) /\ <<c.loc, c.role, c.acts>> = <<s.loc, s.role, s.acts>>

(* POST topics answers success only when the topic's row and, for every    *)
(* client with a location, the row and its grants are there, or a null in  *)
(* its place, which only an unexpected 2xx of AAF puts there: the clients  *)
(* still to add, the one being added, those stored and those missed are    *)
(* always all that were asked for (TopicService.addTopic).  Any number of  *)
(* threads, failed calls and exits, as long as nothing is removed again.   *)
THEOREM SuccessIsComplete ==
  ASSUME FreshIds, NothingRemoved PROVE Spec => CreatedIsComplete
<1>1. Init => CompleteInv
  BY DEF Init, CompleteInv, CompleteOK, Idle
<1>2. TypeInv /\ OpInv /\ IdsInv /\ CompleteInv /\ [Next]_vars => CompleteInv'
  <2> SUFFICES ASSUME TypeInv, OpInv, IdsInv, CompleteInv, [Next]_vars PROVE CompleteInv'
    OBVIOUS
  <2>1. ASSUME NEW w \in Threads, Serve(w) PROVE CompleteInv'
    <3>1. clients \subseteq clients' /\ CompleteOK(t'[w], clients')
      BY <2>1, CompleteServe DEF CompleteInv
    <3>2. \A v \in Threads : CompleteOK(t[v], clients')
      BY <3>1 DEF CompleteInv, CompleteOK, Asked
    <3> QED
      BY <2>1, <3>1, <3>2, Others DEF CompleteInv
  <2>2. ASSUME NEW w \in Threads, Start(w) PROVE CompleteInv'
    <3>1. CompleteOK(t'[w], clients)
      <4>1. /\ t'[w].pc = FirstStep(t'[w].rq) /\ t'[w].fqtn = t'[w].rq.fqtn
            /\ t'[w].todo = t'[w].rq.clients
        BY <2>2, StartStep
      <4> QED
        BY <4>1 DEF CompleteOK, Asked, FirstStep, InBridge
    <3>2. clients' = clients
      BY <2>2, StartStep
    <3> QED
      BY <2>2, <3>1, <3>2, Others DEF CompleteInv
  <2>3. CASE ExitProcess \/ UNCHANGED vars
    <3>1. clients' = clients /\ \A v \in Threads : t'[v] = t[v] \/ t'[v] = Idle
      BY <2>3, ExitStep
    <3>2. CompleteOK(Idle, clients)
      BY DEF CompleteOK, Idle
    <3> QED
      BY <3>1, <3>2 DEF CompleteInv
  <2> QED
    BY <2>1, <2>2, <2>3 DEF Next, Finished
<1>3. TypeInv /\ OpInv /\ [Next]_vars => \A w \in Threads : ~RevokeGrant(w)
  BY RevokeGrantStep DEF OpInv, OpOK, NothingRemoved, TypeInv, TypeOK, Thread
<1>4. TypeInv /\ OpInv /\ GrantsInv /\ [Next]_vars => GrantsInv'
  BY <1>3, GrantsNext DEF FreshIds, Runs
<1>5. TypeInv /\ OpInv /\ IdsInv /\ GrantsInv /\ CompleteInv /\ [Next]_vars
        => [CompleteStep]_vars
  <2> SUFFICES ASSUME TypeInv, OpInv, GrantsInv, CompleteInv, [Next]_vars,
                      NEW w \in Threads, t[w].rq.op = "postTopic", Answers(w, "success")
               PROVE  /\ topics'[t[w].rq.fqtn] # Absent
                      /\ \A s \in Elements(t[w].rq.clients) : s.loc # NoLoc =>
                           \/ \E c \in clients' :
                                /\ c.fqtn = t[w].rq.fqtn
                                /\ <<c.loc, c.role, c.acts>> = <<s.loc, s.role, s.acts>>
                                /\ GrantsOf(c) \subseteq grants'
                           \/ /\ "aaf2xx" \in Faults
                              /\ \E c \in t[w].view :
                                   /\ IsNull(c)
                                   /\ <<c.loc, c.role, c.acts>> = <<s.loc, s.role, s.acts>>
    BY DEF CompleteStep
  <2> DEFINE th == t[w]
  <2>1. th.pc # "idle" /\ t'[w].pc = "idle" /\ t'[w].reply = "success"
    BY DEF Answers
  <2>2. Serve(w)
    <3>1. Idle.reply # "success"
      BY DEF Idle
    <3>2. ~ExitProcess /\ vars' # vars
      BY <2>1, <3>1 DEF ExitProcess, vars
    <3>3. PICK v \in Threads : Start(v) \/ Serve(v)
      BY <3>2 DEF Next, Finished
    <3>4. v = w
      BY <2>1, <3>3, Others
    <3>5. ~Start(w)
      BY <2>1 DEF Start
    <3> QED
      BY <3>3, <3>4, <3>5
  <2>3. PutTopic(w)
    BY <2>1, <2>2, StoredSucceeds
  <2>4. th.pc = "putTopic" /\ topics' = [topics EXCEPT ![th.fqtn] = th.repl]
    BY <2>3, PutTopicStep
  <2>5. th.fqtn = th.rq.fqtn /\ th.todo = <<>>
        /\ \A s \in Elements(th.rq.clients) : s.loc # NoLoc => Asked(th, s, clients)
    BY <2>4 DEF CompleteInv, CompleteOK
  <2>6. topics'[th.fqtn] # Absent
    <3>1. th.fqtn \in Topics /\ th.repl \in ReplCases /\ topics \in [Topics -> ReplCases \cup {Absent}]
      BY DEF TypeInv, TypeOK, Thread
    <3>2. Absent \notin ReplCases
      BY DEF Absent, ReplCases, NotSpecified, None
    <3> QED
      BY <2>4, <3>1, <3>2
  <2>7. UNCHANGED <<clients, grants>>
    BY <2>3 DEF PutTopic, aafVars
  <2>8. \A s \in Elements(th.rq.clients) : s.loc # NoLoc =>
          (\E c \in clients : Fits(c, th.rq.fqtn, s)) \/ Missed(th, s)
    <3>1. \A s : s \notin Elements(th.todo)
      BY <2>5 DEF Elements
    <3>2. th.pc \notin Pending
      BY <2>4 DEF Pending
    <3> QED
      BY <2>5, <3>1, <3>2 DEF Asked
  <2>9. \A c \in clients : GrantsOf(c) \subseteq grants'
    BY <2>7 DEF GrantsInv
  <2> QED
    BY <2>5, <2>6, <2>7, <2>8, <2>9 DEF Fits, Missed
<1> QED
  BY <1>1, <1>2, <1>4, <1>5, InitType, NextType, InitOps, OpNext, InitIds, IdsNext, InitGrants,
     PTL DEF Spec, CreatedIsComplete, CompleteStep

-----------------------------------------------------------------------------
(* The two roles of the bridge admin topic.                                *)
AdminReserved == \A r \in Requests : r.op = "postTopic" => r.fqtn # AdminTopic

AdminOps == {"createMmaTopic", "postCluster", "putCluster"}
Adds     == {"exists", "perm", "next"} \cup Pending
ClustersOps == {"postCluster", "putCluster"}
RoleHeld(role, G) == {AdminTopic} \X {role} \X Actions \subseteq G
AdminHeld(G) == \A role \in {ProvRole, AgentRole} : RoleHeld(role, G)

(* Each role is still to be given its actions, is being given them, or has *)
(* them, unless a null was put in the place of a client; the check of the   *)
(* bridges, which throws on a null, leaves nothing to give.                 *)
NoNull(th) == \A c \in th.view : ~IsNull(c)
ToGive(role, s) == s.loc # NoLoc /\ s.role = role /\ s.acts = Actions
Giving(th, role, G) == /\ th.pc = "grant" /\ th.cur.fqtn = AdminTopic /\ th.cur.role = role
                       /\ \A a \in Actions \ th.left : <<AdminTopic, role, a>> \in G
Given(th, role, G) == \/ ~NoNull(th)
                      \/ \E s \in Elements(th.todo) : ToGive(role, s)
                      \/ Giving(th, role, G)
                      \/ RoleHeld(role, G)
AdminAdds(th, G) ==
  /\ th.fqtn = AdminTopic /\ th.repl # None
  /\ th.pc \in {"perm", "next"} \cup Pending => th.err \in {"notFound", "ok"}
  /\ th.pc \in Updating => th.todo = <<>>
  /\ th.pc \in Updating \ {"bridge"} => NoNull(th)
  /\ \A role \in {ProvRole, AgentRole} : Given(th, role, G)
AdminOK(th, G) ==
  /\ th.rq.op \in AdminOps /\ th.pc \in Adds \cup Updating => AdminAdds(th, G)
  /\ th.rq.op = "postTopic" /\ th.pc # "idle" => th.fqtn # AdminTopic
  /\ th.rq.op = "deleteClient" /\ th.pc \in Updating /\ th.fqtn = AdminTopic => AdminHeld(G)
AdminInv ==
  /\ topics[AdminTopic] # Absent => AdminHeld(grants)
  /\ \A w \in Threads : AdminOK(t[w], grants)

LEMMA GivenMore ==
  ASSUME NEW th, NEW u, NEW role, NEW G, NEW G2, G \subseteq G2, Given(th, role, G),
         u.todo = th.todo, th.view \subseteq u.view,
         Giving(th, role, G) => Giving(u, role, G2) \/ RoleHeld(role, G2)
  PROVE  Given(u, role, G2)
  BY DEF Given, RoleHeld, NoNull

(* Such a request goes on with the topic and the clients it had.           *)
LEMMA AdminGoesOn ==
  ASSUME NEW th, NEW u, NEW G, NEW G2, G \subseteq G2, AdminAdds(th, G),
         u.fqtn = th.fqtn, u.repl = th.repl, u.todo = th.todo, th.view \subseteq u.view,
         u.pc \in {"perm", "next"} \cup Pending => u.err \in {"notFound", "ok"},
         u.pc \in Updating => th.todo = <<>>, u.pc \in Updating \ {"bridge"} => NoNull(u),
         \A role : Giving(th, role, G) => Giving(u, role, G2) \/ RoleHeld(role, G2)
  PROVE  AdminAdds(u, G2)
<1>1. \A role \in {ProvRole, AgentRole} : Given(u, role, G2)
  BY GivenMore DEF AdminAdds
<1> QED
  BY <1>1 DEF AdminAdds

(* Where nothing is left to give, both roles have their actions.           *)
LEMMA AllGiven ==
  ASSUME NEW th, NEW G, AdminAdds(th, G), th.pc \in Updating, NoNull(th)
  PROVE  AdminHeld(G)
<1>1. th.todo = <<>> /\ th.pc # "grant"
  BY DEF AdminAdds, Updating, InBridge
<1>2. \A s : s \notin Elements(th.todo)
  BY <1>1 DEF Elements
<1> QED
  BY <1>1, <1>2 DEF AdminAdds, Given, Giving, AdminHeld

(* Grants are only added below delete level 2.                             *)
LEMMA GrantsGrow ==
  ASSUME DeleteLevel < 2, TypeInv, NEW w \in Threads, Serve(w) PROVE grants \subseteq grants'
<1>1. ~RevokeGrant(w)
  <2>1. DeleteLevel \in Nat
    BY ConstantsAssumption
  <2> QED
    BY <2>1 DEF RevokeGrant
<1>2. ClientNext(w) => grants \subseteq grants'
  <2>1. Grant(w) => grants \subseteq grants'
    BY GrantStep
  <2> QED
    BY <1>1, <2>1, ClientFrame
<1> QED
  BY <1>2, TopicFrame, BridgeFrame, ClusterFrame DEF Serve

(* addTopic of the bridge admin topic returns: a cluster resource answers  *)
(* success only after ok or conflict.                                      *)
LEMMA AdminReturns ==
  ASSUME NEW th \in Thread, th.rq.op \in AdminOps, NEW u, NEW G,
         u = AddTopicReturns(th, TRUE) \/ u = AddTopicReturns(th, FALSE) \/ u = AddClientFails(th)
  PROVE  /\ AdminOK(u, G)
         /\ th.err \notin {"ok", "conflict"} /\ th.rq.op \in ClustersOps => u.pc # "idle"
<1>1. Over(th, u) /\ (th.err \notin {"ok", "conflict"} /\ th.rq.op \in ClustersOps => u.pc # "idle")
  BY Returns, Fails DEF ClustersOps
<1>2. u.pc \notin Adds \cup Updating
  BY <1>1 DEF Over, Adds, Pending, Updating, InBridge
<1>3. u.pc = "idle" \/ u.rq.op \in AdminOps
  BY <1>1 DEF Over
<1> QED
  BY <1>1, <1>2, <1>3 DEF AdminOK, AdminOps

AdminStep(w) ==
  /\ AdminOK(t'[w], grants')
  /\ t[w].rq.op \in ClustersOps /\ t[w].pc # "clusterLoc" /\ t'[w].pc = "idle"
       /\ t'[w].reply = "success" => AdminHeld(grants')

LEMMA AdminServe ==
  ASSUME DeleteLevel < 2, TypeInv, OpInv, AdminInv, NEW w \in Threads, Serve(w),
         t[w].rq.op \in AdminOps
  PROVE  AdminStep(w)
<1> DEFINE th == t[w]
           u  == t'[w]
           G  == grants
           G2 == grants'
           Answer == th.rq.op \in ClustersOps /\ th.pc # "clusterLoc" /\ u.pc = "idle"
                       /\ u.reply = "success" => AdminHeld(G2)
           Goal == AdminOK(u, G2) /\ Answer
<1>0. th \in Thread /\ th.rq \in Requests /\ OpOK(th) /\ AdminOK(th, G)
      /\ th.todo \in Seq(ClientSpec) /\ (topics[AdminTopic] # Absent => AdminHeld(G))
  BY DEF TypeInv, TypeOK, OpInv, Thread, AdminInv
<1>1. G \subseteq G2
  BY GrantsGrow
<1>2. u.pc = "idle" \/ u.rq = th.rq
  BY SameRequest
<1>3. th.rq.op \in AdminOps
  OBVIOUS
<1>4. AdminHeld(G) => AdminHeld(G2)
  BY <1>1 DEF AdminHeld, RoleHeld
<1>5. AdminOK(u, G2) /\ u.pc # "idle" => Goal
  OBVIOUS
<1>6. AdminOK(u, G2) /\ AdminHeld(G2) => Goal
  OBVIOUS
<1>7. u.pc = "idle" /\ u.reply # "success" => Goal
  BY DEF AdminOK, Adds, Pending, Updating, InBridge
<1>8. AdminAdds(u, G2) /\ u.pc \in Adds \cup Updating => Goal
  <2>1. u.pc \in Adds \cup Updating => u.pc # "idle"
    BY DEF Adds, Pending, Updating, InBridge
  <2>2. AdminAdds(u, G2) /\ u.rq = th.rq => AdminOK(u, G2)
    BY <1>3 DEF AdminOK, AdminOps
  <2> QED
    BY <1>2, <1>5, <2>1, <2>2
<1>9. th.pc \in Adds \cup Updating => AdminAdds(th, G)
  BY <1>0, <1>3 DEF AdminOK
<1>10. ServerError.pc = "idle" /\ ServerError.reply # "success"
  BY Replies DEF ServerError
<1>a. ASSUME th.pc \in Adds \cup Updating, u.pc \in Adds \cup Updating,
             u.fqtn = th.fqtn, u.repl = th.repl, u.todo = th.todo, th.view \subseteq u.view,
             u.pc \in {"perm", "next"} \cup Pending => u.err \in {"notFound", "ok"},
             u.pc \in Updating => th.todo = <<>>, u.pc \in Updating \ {"bridge"} => NoNull(u),
             \A role : Giving(th, role, G) => Giving(u, role, G2) \/ RoleHeld(role, G2)
      PROVE  Goal
  <2> HIDE DEF u, th, G, G2, Goal
  <2>1. AdminAdds(u, G2)
    BY <1>1, <1>9, <1>a, AdminGoesOn
  <2> QED
    BY <1>8, <1>a, <2>1
<1>b. ASSUME NEW v \in Thread, v.rq.op = th.rq.op,
             v.err \in {"ok", "conflict"} => AdminHeld(G2),
             u = AddTopicReturns(v, TRUE) \/ u = AddTopicReturns(v, FALSE) \/ u = AddClientFails(v)
      PROVE  Goal
  <2>1. AdminOK(u, G2) /\ (v.err \notin {"ok", "conflict"} /\ v.rq.op \in ClustersOps => u.pc # "idle")
    <3> DEFINE x == u
               g == G2
    <3>1. x = AddTopicReturns(v, TRUE) \/ x = AddTopicReturns(v, FALSE) \/ x = AddClientFails(v)
      BY <1>b
    <3>2. v.rq.op \in AdminOps
      BY <1>3, <1>b
    <3> HIDE DEF x, g
    <3>3. /\ AdminOK(x, g)
          /\ v.err \notin {"ok", "conflict"} /\ v.rq.op \in ClustersOps => x.pc # "idle"
      BY <3>1, <3>2, AdminReturns
    <3> QED
      BY <3>3 DEF x, g
  <2> QED
    BY <1>b, <2>1
<1>c. \A code \in {"ok", "conflict", "fail", "notFound"} :
        LET v == [th EXCEPT !.err = code]
        IN  v \in Thread /\ v.rq.op = th.rq.op /\ v.err = code
  BY <1>0, SetsErr DEF KeepTopic
<1>d. th.pc \notin {"review", "list", "dropTopic", "find", "view", "revoke", "drop", "cluster",
                    "topic", "reread", "lookup", "overwrite"}
  BY <1>0, <1>3 DEF OpOK, TypeInv, ThreadOK, AdminOps
<1>e. \A role : ~Giving(th, role, G) \/ th.pc = "grant"
  BY DEF Giving
<1>f. th.pc \in {"next"} \cup Pending => th.err \in {"notFound", "ok"}
  BY <1>9 DEF AdminAdds, Adds
<1>g. /\ th.pc \in Updating => th.todo = <<>> /\ th.repl # None
      /\ th.pc \in Updating /\ NoNull(th) => AdminHeld(G2)
      /\ th.pc \in Updating \ {"bridge"} => NoNull(th)
  BY <1>4, <1>9, AllGiven DEF AdminAdds
<1> HIDE DEF th, u, Goal, G, G2
<1>11. ASSUME TopicNext(w) PROVE Goal
  <2>1. ~Review(w) /\ ~ListClients(w) /\ ~DropTopic(w)
    BY <1>d, ReviewStep, ListClientsStep, DropTopicStep DEF th
  <2>2. ASSUME Exists(w) PROVE Goal
    <3>1. \/ /\ th.pc = "exists" /\ topics[th.fqtn] # Absent
             /\ u = AddTopicReturns([th EXCEPT !.err = "conflict"], FALSE)
          \/ /\ th.pc = "exists" /\ u.pc = "perm" /\ u.err = "notFound"
             /\ KeepTopic(th, u) /\ KeepLists(th, u)
      BY <2>2, ExistsStep DEF th, u
    <3>2. th.pc = "exists" => th.fqtn = AdminTopic
      BY <1>9 DEF AdminAdds, Adds
    <3> QED
      BY <1>0, <1>4, <1>a, <1>b, <1>c, <1>e, <3>1, <3>2
      DEF Adds, Updating, InBridge, KeepTopic, KeepLists
  <2>3. ASSUME AddPerm(w) PROVE Goal
    <3>1. \/ u = AddTopicReturns([th EXCEPT !.err = "fail"], FALSE)
          \/ /\ th.pc = "perm" /\ u.pc \in {"perm", "next"} /\ u.err = th.err
             /\ KeepTopic(th, u) /\ KeepLists(th, u)
      BY <2>3, AddPermStep DEF th, u
    <3>2. th.pc = "perm" => th.err \in {"notFound", "ok"}
      BY <1>9 DEF AdminAdds, Adds
    <3> QED
      BY <1>a, <1>b, <1>c, <1>e, <3>1, <3>2 DEF Adds, Updating, InBridge, KeepTopic, KeepLists
  <2>4. ASSUME NextClient(w) PROVE Goal
    <3> DEFINE s == Head(th.todo)
               r == Tail(th.todo)
    <3>1. /\ th.pc = "next"
          /\ \/ th.todo = <<>> /\ u.pc = "bridge" /\ KeepTopic(th, u) /\ KeepLists(th, u)
             \/ /\ th.todo # <<>> /\ u.pc = "grant" /\ u.todo = r /\ u.err = th.err
                /\ KeepTopic(th, u) /\ th.view \subseteq u.view
                /\ u.cur.fqtn = th.fqtn /\ u.cur.role = s.role /\ u.left = s.acts
             \/ /\ th.todo # <<>> /\ s.loc = NoLoc /\ u.pc = "next" /\ u.todo = r
                /\ u.err = th.err /\ KeepTopic(th, u) /\ th.view \subseteq u.view
             \/ /\ th.todo # <<>> /\ th.err # "ok"
                /\ u = AddTopicReturns([th EXCEPT !.todo = r], FALSE)
      <4> DEFINE c == [id |-> nextId, fqtn |-> th.fqtn, loc |-> s.loc, role |-> s.role,
                       acts |-> s.acts, status |-> "VALID"]
                 v == [th EXCEPT !.todo = r]
      <4>1. /\ th.pc = "next"
            /\ \/ th.todo = <<>> /\ u.pc = "bridge" /\ KeepTopic(th, u) /\ KeepLists(th, u)
               \/ /\ th.todo # <<>> /\ u.pc = "grant" /\ u.todo = r /\ u.cur = c
                  /\ u.err = th.err /\ u.left = s.acts /\ KeepTopic(th, u)
                  /\ th.view \subseteq u.view
               \/ /\ th.todo # <<>> /\ s.loc = NoLoc /\ u.pc = "next" /\ u.todo = r
                  /\ u.err = th.err /\ KeepTopic(th, u) /\ th.view \subseteq u.view
               \/ th.todo # <<>> /\ th.err # "ok" /\ u = AddTopicReturns(v, FALSE)
        BY <2>4, NextClientStep DEF th, u
      <4>2. c.fqtn = th.fqtn /\ c.role = s.role
        OBVIOUS
      <4> HIDE DEF c, v, s, r
      <4>3. u.cur = c => u.cur.fqtn = th.fqtn /\ u.cur.role = s.role
        BY <4>2
      <4> QED
        BY <4>1, <4>3 DEF v
    <3>a. AdminAdds(th, G) /\ th.err \in {"notFound", "ok"}
      BY <1>9, <1>f, <3>1 DEF Adds
    <3>2. CASE th.todo = <<>> /\ u.pc = "bridge" /\ KeepTopic(th, u) /\ KeepLists(th, u)
      BY <1>a, <1>e, <3>1, <3>2 DEF Adds, Pending, Updating, KeepTopic, KeepLists
    <3>3. CASE /\ th.todo # <<>> /\ u.pc \in {"grant", "next"} /\ u.todo = r /\ KeepTopic(th, u)
               /\ u.err = th.err /\ th.view \subseteq u.view
               /\ \/ /\ u.pc = "grant" /\ u.cur.fqtn = th.fqtn /\ u.cur.role = s.role
                     /\ u.left = s.acts
                  \/ s.loc = NoLoc
      <4>1. \A x \in Elements(th.todo) : x = s \/ x \in Elements(u.todo)
        BY <1>0, <3>3, HeadOrTail
      <4>2. \A role : ToGive(role, s) => Giving(u, role, G2)
        BY <3>a, <3>3 DEF ToGive, Giving, AdminAdds
      <4>3. \A role : Given(th, role, G) => Given(u, role, G2)
        BY <1>1, <1>e, <3>1, <3>3, <4>1, <4>2 DEF Given, RoleHeld, NoNull
      <4>4. AdminAdds(u, G2)
        BY <3>a, <3>3, <4>3 DEF AdminAdds, KeepTopic, Updating, InBridge
      <4> QED
        BY <1>8, <3>3, <4>4 DEF Adds, Pending
    <3>4. CASE /\ th.todo # <<>> /\ th.err # "ok"
               /\ u = AddTopicReturns([th EXCEPT !.todo = r], FALSE)
      <4>1. r \in Seq(ClientSpec)
        BY <1>0, <3>4
      <4>2. LET v == [th EXCEPT !.todo = r]
            IN  v \in Thread /\ v.rq = th.rq /\ v.err = th.err
        BY <1>0, <4>1 DEF Thread
      <4> QED
        BY <1>b, <3>a, <3>4, <4>2
    <3> QED
      BY <3>1, <3>2, <3>3, <3>4
  <2>5. ASSUME PutTopic(w) PROVE Goal
    <3>1. th.pc = "putTopic" /\ (th.rq.op = "deleteClient"
            \/ u = AddTopicReturns([th EXCEPT !.err = "ok"], TRUE))
      BY <2>5, PutTopicStep DEF th, u
    <3>2. AdminHeld(G2)
      BY <1>g, <3>1 DEF Updating, InBridge
    <3> QED
      BY <1>3, <1>b, <1>c, <3>1, <3>2 DEF AdminOps, th
  <2> QED
    BY <1>11, <2>1, <2>2, <2>3, <2>4, <2>5 DEF TopicNext
<1>12. ASSUME ClientNext(w) PROVE Goal
  <2>1. Grant(w) \/ Place(w) \/ ListCentrals(w) \/ PostToCluster(w) \/ StoreClient(w)
    BY <1>12, <1>d, FindClusterStep, FindTopicStep, RereadStep, LookupClientStep,
       OverwriteClientStep, FindClientStep, ViewTopicStep, RevokeGrantStep, DropClientStep
    DEF ClientNext, th
  <2>2. ASSUME Grant(w) PROVE Goal
    <3>1. th.pc = "grant" /\
          \/ u = AddClientFails([th EXCEPT !.err = "fail"])
          \/ \E a \in th.left :
               /\ G2 = G \cup {<<th.cur.fqtn, th.cur.role, a>>} /\ u.left = th.left \ {a}
               /\ u.pc = "grant" /\ u.cur = th.cur /\ u.err = th.err
               /\ KeepTopic(th, u) /\ KeepLists(th, u)
          \/ /\ u.pc = "next" /\ u.view = th.view \cup {NullOf(th.cur)} /\ u.err = "ok"
             /\ KeepTopic(th, u) /\ u.todo = th.todo
      BY <1>3, <2>2, GrantStep DEF th, u, G, G2, AdminOps
    <3>2. ASSUME NEW a \in th.left, G2 = G \cup {<<th.cur.fqtn, th.cur.role, a>>},
                 u.left = th.left \ {a}, u.cur = th.cur, u.pc = "grant", NEW role,
                 Giving(th, role, G)
          PROVE  Giving(u, role, G2)
      BY <3>2 DEF Giving
    <3>3. ASSUME u.pc = "next", u.view = th.view \cup {NullOf(th.cur)}, u.err = "ok",
                 KeepTopic(th, u), u.todo = th.todo
          PROVE  Goal
      <4>1. IsNull(NullOf(th.cur))
        BY <1>0 DEF Thread, Client, NullOf, IsNull
      <4>2. ~NoNull(u)
        BY <3>3, <4>1 DEF NoNull
      <4>3. AdminAdds(th, G)
        BY <1>9, <3>1 DEF Adds, Pending
      <4>4. AdminAdds(u, G2)
        BY <3>3, <4>2, <4>3 DEF AdminAdds, Given, KeepTopic, Updating, InBridge
      <4> QED
        BY <1>8, <3>3, <4>4 DEF Adds
    <3> QED
      BY <1>a, <1>b, <1>c, <1>f, <3>1, <3>2, <3>3
      DEF Adds, Pending, Updating, InBridge, KeepTopic, KeepLists
  <2>3. ASSUME Place(w) PROVE Goal
    <3>1. /\ th.pc = "grant" /\ th.left = {} /\ u.err = th.err /\ u.pc \in {"post", "centrals"}
          /\ KeepTopic(th, u) /\ KeepLists(th, u)
      BY <2>3, PlaceStep DEF th, u
    <3>2. \A role : Giving(th, role, G) => RoleHeld(role, G2)
      BY <1>1, <3>1 DEF Giving, RoleHeld
    <3> QED
      BY <1>a, <1>f, <3>1, <3>2 DEF Adds, Pending, Updating, InBridge, KeepTopic, KeepLists
  <2>4. ASSUME ListCentrals(w) PROVE Goal
    <3>1. th.pc = "centrals" /\
          \/ u = ServerError
          \/ u.pc = "post" /\ u.err = th.err /\ KeepTopic(th, u) /\ KeepLists(th, u)
      BY <2>4, ListCentralsStep DEF th, u
    <3> QED
      BY <1>7, <1>10, <1>a, <1>e, <1>f, <3>1
      DEF Adds, Pending, Updating, InBridge, KeepTopic, KeepLists
  <2>5. ASSUME PostToCluster(w) PROVE Goal
    <3>1. th.pc = "post" /\
          \/ u = AddClientFails([th EXCEPT !.err = "fail"])
          \/ th.err # "ok" /\ u = AddClientFails(th)
          \/ u.pc = "post" /\ u.err \in {"ok", th.err} /\ KeepTopic(th, u) /\ KeepLists(th, u)
      BY <2>5, PostToClusterStep DEF th, u
    <3> QED
      BY <1>0, <1>a, <1>b, <1>c, <1>e, <1>f, <3>1
      DEF Adds, Pending, Updating, InBridge, KeepTopic, KeepLists
  <2>6. ASSUME StoreClient(w) PROVE Goal
    <3>1. /\ th.pc = "post" /\ u.pc = "next" /\ u.err = "ok" /\ u.todo = th.todo
          /\ KeepTopic(th, u) /\ th.view \subseteq u.view
      BY <1>3, <2>6, StoreClientStep DEF th, u, AdminOps
    <3> QED
      BY <1>a, <1>e, <3>1 DEF Adds, Pending, Updating, InBridge, KeepTopic
  <2> QED
    BY <2>1, <2>2, <2>3, <2>4, <2>5, <2>6
<1>13. ASSUME BridgeNext(w) PROVE Goal
  <2>1. /\ th.pc \in Updating
        /\ \/ u.pc = "idle" \/ u.pc = "clusterInvalid"
           \/ u.pc \in Updating /\ KeepWork(th, u)
    BY <1>3, <1>13, BridgeKeeps DEF th, u, AdminOps, Updating
  <2>a. u = ServerError \/ NoNull(th)
    <3>1. StartBridge(w) => u = ServerError \/ NoNull(th)
      BY <1>g, StartBridgeStep DEF th, u, NoNull, Updating
    <3>2. ~StartBridge(w) => th.pc # "bridge"
      BY <1>13, VisitLocStep, EndBridgeStep, ReadMmStep, SendCreateStep, SendWhitelistStep,
         PutMmStep DEF BridgeNext, th
    <3> QED
      BY <1>g, <2>1, <3>1, <3>2
  <2>b. SUFFICES ASSUME NoNull(th) PROVE Goal
    BY <1>7, <1>10, <2>a
  <2>2. AdminHeld(G2) /\ th.todo = <<>>
    BY <1>g, <2>1, <2>b
  <2>3. u.pc \in {"idle", "clusterInvalid"} => AdminOK(u, G2)
    BY <1>2, <1>3 DEF AdminOK, AdminOps, Adds, Pending, Updating, InBridge, u, th
  <2>4. u.pc \in Updating /\ KeepWork(th, u) => Goal
    BY <1>a, <1>e, <2>b, <2>1, <2>2
    DEF KeepWork, KeepTopic, KeepLists, Adds, Pending, Updating, InBridge, NoNull
  <2> QED
    BY <1>6, <2>1, <2>2, <2>3, <2>4
<1>14. ASSUME ClusterNext(w) PROVE Goal
  <2>1. CASE u.pc = "idle"
    <3>1. u.reply # "success" \/ th.pc \in {"clusterLoc", "clusterRemove", "locPut", "locRemove"}
      BY <1>14, <2>1, ClusterStep DEF u, th
    <3>2. th.pc \notin {"clusterRemove", "locPut", "locRemove"}
      BY <1>0, <1>3 DEF OpOK, AdminOps
    <3>3. AdminOK(u, G2)
      BY <2>1 DEF AdminOK, Adds, Pending, Updating, InBridge
    <3> QED
      BY <1>7, <2>1, <3>1, <3>2, <3>3 DEF Goal
  <2>2. CASE u.pc \in {"clusterPut", "clusterRemove", "clusterLoc", "locPut"}
    <3>1. AdminOK(u, G2)
      BY <1>2, <1>3, <2>2 DEF AdminOK, AdminOps, Adds, Pending, Updating, InBridge, u, th
    <3> QED
      BY <1>5, <2>2, <3>1
  <2>3. CASE u.pc \notin {"idle", "clusterPut", "clusterRemove", "clusterLoc", "locPut"}
    <3>1. /\ u.pc = "exists" /\ u.fqtn = AdminTopic /\ u.repl # None
          /\ \E l \in Locs : u.todo = <<AdminSpec(l, ProvRole), AdminSpec(l, AgentRole)>>
      BY <1>14, <2>3, ClusterStep DEF u, th, NotSpecified, None
    <3>2. PICK l \in Locs : u.todo = <<AdminSpec(l, ProvRole), AdminSpec(l, AgentRole)>>
      BY <3>1
    <3>3. AdminSpec(l, ProvRole) \in Elements(u.todo) /\ AdminSpec(l, AgentRole) \in Elements(u.todo)
      <4> DEFINE p == AdminSpec(l, ProvRole)
                 q == AdminSpec(l, AgentRole)
      <4> HIDE DEF p, q
      <4>1. u.todo = <<p, q>> => p \in Elements(u.todo) /\ q \in Elements(u.todo)
        <5>1. p \in Elements(<<p, q>>) /\ q \in Elements(<<p, q>>)
          <6>1. DOMAIN <<p, q>> = {1, 2} /\ <<p, q>>[1] = p /\ <<p, q>>[2] = q
            OBVIOUS
          <6> QED
            BY <6>1 DEF Elements
        <5> QED
          BY <5>1
      <4> QED
        BY <3>2, <4>1 DEF p, q
    <3>4. l # NoLoc
      BY ConstantsAssumption DEF NoLoc, Hubs, Empty
    <3>5. \A role : ToGive(role, AdminSpec(l, role))
      BY <3>4 DEF ToGive, AdminSpec
    <3>6. AdminAdds(u, G2)
      BY <3>1, <3>3, <3>5 DEF AdminAdds, Given, Pending, Updating, InBridge
    <3> QED
      BY <1>8, <3>1, <3>6 DEF Adds
  <2> QED
    BY <2>1, <2>2, <2>3
<1> QED
  BY <1>11, <1>12, <1>13, <1>14 DEF Serve, Goal, AdminStep, th, u, G2

(* A step of any request.                                                  *)
LEMMA AdminServes ==
  ASSUME AdminReserved, DeleteLevel < 2, TypeInv, OpInv, AdminInv, NEW w \in Threads, Serve(w)
  PROVE  AdminInv' /\ AdminStep(w)
<1> DEFINE th == t[w]
           u  == t'[w]
<1>0. /\ th \in Thread /\ OpOK(th) /\ AdminOK(th, grants) /\ OpOK(u)
      /\ topics[AdminTopic] # Absent => AdminHeld(grants)
  <2>1. OpInv'
    BY OpNext DEF Next
  <2> QED
    BY <2>1 DEF TypeInv, TypeOK, OpInv, AdminInv
<1>1. grants \subseteq grants'
  BY GrantsGrow
<1>2. AdminHeld(grants) => AdminHeld(grants')
  BY <1>1 DEF AdminHeld, RoleHeld
<1>3. u.pc = "idle" \/ u.rq = th.rq
  BY SameRequest
<1>4. th.rq.op \notin AdminOps => AdminOK(u, grants')
  <2> SUFFICES ASSUME th.rq.op \notin AdminOps PROVE AdminOK(u, grants')
    OBVIOUS
  <2>1. ASSUME u.pc # "idle", u.rq.op = "postTopic" PROVE u.fqtn # AdminTopic
    <3>1. th.rq.op = "postTopic" /\ th.pc # "idle" /\ th.fqtn # AdminTopic
      BY <1>0, <1>3, <2>1, ServesBusy DEF AdminOK
    <3>2. u.pc # "clusterInvalid" /\ ~ViewTopic(w)
      BY <1>0, <2>1, <3>1, ViewTopicStep DEF OpOK
    <3>3. ~ClusterNext(w)
      <4>1. th.pc \notin {"clusterGet", "clusterPut", "clusterLoc", "clusterInvalid",
                          "clusterRemove", "central", "locGet", "locPut", "locRemove"}
        BY <1>0, <3>1 DEF OpOK
      <4> QED
        BY <4>1 DEF ClusterNext, GetCluster, PutCluster, ClusterLocation, InvalidateCluster,
           RemoveCluster, CentralLocation, GetLocation, PutLocation, RemoveLocation
    <3> QED
      BY <2>1, <3>1, <3>2, <3>3, SameRequest
  <2>2. ASSUME u.rq.op = "deleteClient", u.pc \in Updating, u.fqtn = AdminTopic
        PROVE  AdminHeld(grants')
    BY <1>0, <1>2, <2>2, WhoUpdates DEF AdminOK
  <2>3. u.pc \in Adds \cup Updating => u.rq.op \notin AdminOps
    BY <1>3 DEF Adds, Pending, Updating, InBridge
  <2> QED
    BY <2>1, <2>2, <2>3 DEF AdminOK
<1>5. AdminOK(u, grants') /\ AdminStep(w)
  <2>1. CASE th.rq.op \in AdminOps
    BY <2>1, AdminServe DEF AdminStep
  <2>2. CASE th.rq.op \notin AdminOps
    BY <1>4, <2>2 DEF AdminStep, AdminOps, ClustersOps
  <2> QED
    BY <2>1, <2>2
<1>6. topics'[AdminTopic] # Absent => AdminHeld(grants')
  <2>1. PutTopic(w) \/ DropTopic(w) \/ topics' = topics
    BY TopicFrame, ClientFrame, BridgeFrame, ClusterFrame DEF Serve
  <2>2. AdminTopic \in Topics /\ topics \in [Topics -> ReplCases \cup {Absent}]
    BY ConstantsAssumption DEF TypeInv, TypeOK
  <2>3. CASE PutTopic(w)
    <3>1. th.pc = "putTopic" /\ topics' = [topics EXCEPT ![th.fqtn] = th.repl]
      BY <2>3, PutTopicStep
    <3>2. th.fqtn = AdminTopic => AdminHeld(grants)
      <4>1. th.rq.op \in AddOps \cup {"deleteClient"} /\ th.pc \in Updating
        BY <1>0, <3>1 DEF OpOK, Updating
      <4>2. th.rq.op \in AdminOps => AdminHeld(grants)
        <5>1. ASSUME th.rq.op \in AdminOps PROVE AdminAdds(th, grants) /\ NoNull(th)
          BY <1>0, <3>1, <4>1, <5>1 DEF AdminOK, AdminAdds
        <5> QED
          BY <4>1, <5>1, AllGiven
      <4> QED
        BY <1>0, <4>1, <4>2 DEF AdminOK, AddOps, AdminOps, Updating, InBridge
    <3> QED
      BY <1>0, <1>2, <2>2, <3>1, <3>2
  <2>4. CASE DropTopic(w)
    BY <1>0, <1>2, <2>2, <2>4, DropTopicStep
  <2> QED
    BY <1>0, <1>2, <2>1, <2>3, <2>4
<1>7. \A v \in Threads : AdminOK(t[v], grants')
  <2>1. \A v \in Threads : \A role : Given(t[v], role, grants) => Given(t[v], role, grants')
    BY <1>1 DEF Given, Giving, RoleHeld
  <2> QED
    BY <1>2, <2>1 DEF AdminInv, AdminOK, AdminAdds
<1> QED
  BY <1>5, <1>6, <1>7, Others DEF AdminInv

(* What AdminRolesGranted says of a step.                                  *)
RolesGranted ==
  \A w \in Threads :
    t[w].rq.op \in {"postCluster", "putCluster"} /\ t[w].pc # "clusterLoc"
      /\ Answers(w, "success")
    => {AdminTopic} \X {ProvRole, AgentRole} \X Actions \subseteq grants'

(* POST and PUT mr_clusters at a central location answer success only when *)
(* both MirrorMaker roles hold every action on the bridge admin topic,     *)
(* although the code after addTopic looks at the error code alone and      *)
(* takes a conflict for success: whoever stored the topic had granted all. *)
(* That holds too when AAF answers a grant with an unexpected 2xx: the     *)
(* client is then a null in the topic's list, on which Graph throws in     *)
(* checkForBridge before the topic is stored, because new Topic() has no   *)
(* replication case (TopicService.setBridgeClientPerms, checkForBridge).   *)
(* Any number of threads, failed calls and exits, as long as no grant is   *)
(* revoked and no client creates a topic under the admin topic's name.     *)
THEOREM ClusterRolesGranted ==
  ASSUME AdminReserved, DeleteLevel < 2 PROVE Spec => AdminRolesGranted
<1>1. Init => AdminInv
  BY ConstantsAssumption DEF Init, AdminInv, AdminOK, Idle, Adds, Pending, Updating, InBridge
<1>2. ASSUME TypeInv, OpInv, AdminInv, ExitProcess \/ Finished \/ UNCHANGED vars
      PROVE  AdminInv' /\ RolesGranted
  <2>1. (\A v \in Threads : t'[v] = t[v] \/ t'[v] = Idle) /\ UNCHANGED <<topics, grants>>
    BY <1>2, ExitStep DEF Finished
  <2>2. AdminOK(Idle, grants) /\ Idle.reply # "success"
    BY DEF AdminOK, Idle, Adds, Pending, Updating, InBridge
  <2>3. \A v \in Threads : ~Answers(v, "success")
    BY <2>1, <2>2 DEF Answers
  <2> QED
    BY <1>2, <2>1, <2>2, <2>3 DEF AdminInv, RolesGranted
<1>3. ASSUME TypeInv, OpInv, AdminInv, NEW w \in Threads, Start(w) PROVE AdminInv' /\ RolesGranted
  <2>1. /\ t[w].pc = "idle" /\ t'[w].pc = FirstStep(t'[w].rq) /\ t'[w].fqtn = t'[w].rq.fqtn
        /\ t'[w].rq \in Requests /\ UNCHANGED <<topics, grants>>
    BY <1>3, StartStep
  <2>2. AdminOK(t'[w], grants)
    <3>1. t'[w].rq.op \in AdminOps => t'[w].pc \notin Adds \cup Updating
      BY <2>1 DEF FirstStep, AdminOps, Adds, Pending, Updating, InBridge
    <3>2. t'[w].rq.op = "deleteClient" => t'[w].pc \notin Updating
      BY <2>1 DEF FirstStep, Updating, InBridge
    <3>3. t'[w].rq.op = "postTopic" => t'[w].fqtn # AdminTopic
      BY <2>1 DEF AdminReserved
    <3> QED
      BY <3>1, <3>2, <3>3 DEF AdminOK
  <2>3. \A v \in Threads : ~Answers(v, "success")
    BY <1>3, <2>1, Others DEF Answers
  <2> QED
    BY <1>3, <2>1, <2>2, <2>3, Others DEF AdminInv, RolesGranted
<1>4. ASSUME TypeInv, OpInv, AdminInv, NEW w \in Threads, Serve(w) PROVE AdminInv' /\ RolesGranted
  <2>1. AdminInv' /\ AdminStep(w)
    BY <1>4, AdminServes
  <2>2. \A v \in Threads : Answers(v, "success") => v = w
    BY <1>4, Others DEF Answers
  <2> QED
    BY <2>1, <2>2 DEF RolesGranted, AdminStep, Answers, ClustersOps, AdminHeld, RoleHeld
<1>5. TypeInv /\ OpInv /\ AdminInv /\ [Next]_vars => AdminInv' /\ RolesGranted
  BY <1>2, <1>3, <1>4 DEF Next
<1>6. TypeInv /\ OpInv /\ AdminInv /\ [Next]_vars => AdminInv'
  BY <1>5
<1>7. TypeInv /\ OpInv /\ AdminInv /\ [Next]_vars => [RolesGranted]_vars
  BY <1>5
<1>8. TypeInv /\ OpInv /\ [Next]_vars => OpInv'
  BY OpNext
<1> QED
  BY <1>1, <1>6, <1>7, <1>8, InitType, NextType, InitOps, PTL
  DEF Spec, AdminRolesGranted, RolesGranted

-----------------------------------------------------------------------------
(* The bridges of a topic.  The case "g2ce" is only asked for with clients *)
(* of one location: its second bridge, to each edge, is never made         *)
(* (TopicService.checkForBridge, the continue of the first switch).        *)
NoEdgesFromGlobal ==
  \A r \in Requests : r.op = "postTopic" /\ r.repl = "g2ce" =>
    \A s1, s2 \in Elements(r.clients) : s1.loc = s2.loc

(* The clients that POST topics works on are at the locations it was given.*)
LocsOf(r) == {s.loc : s \in Elements(r.clients)} \cup {NoLoc}
ViewOK(th) ==
  th.rq.op = "postTopic" /\ th.pc # "idle" =>
    /\ th.repl = "g2ce" => th.rq.repl = "g2ce"
    /\ Elements(th.todo) \subseteq Elements(th.rq.clients)
    /\ th.pc \in Pending => th.cur.loc \in LocsOf(th.rq)
    /\ \A c \in th.view : c.loc \in LocsOf(th.rq)

(* A bridge has the topic on its list; a plan of the location visited.     *)
Lists(b, f, M) == b \in DOMAIN M /\ f \in Elements(M[b])
Due(th) == IF th.pc \in {"plan"} \cup MmSteps THEN Elements(th.plan) ELSE {}

(* What the locations visited so far need is listed or still in the plan,  *)
(* or the check has failed or is about to.                                 *)
MadeOK(th, lay, M) ==
  LET g == GraphOf(th.view, TRUE, lay) IN
  /\ th.hub \in g
  /\ \A l \in g \ th.locs : \A b \in Elements(BridgesAt(th.repl, th.hub, l)) :
       th.wrong \/ Npe \in Due(th) \/ b \in Due(th) \/ Lists(b, th.fqtn, M)
  /\ th.pc = "putTopic" => th.locs = {} /\ ~th.wrong
  /\ th.pc \in MmSteps => th.plan # <<>> /\ Head(th.plan) # Npe /\ th.fqtn \in Elements(th.mm)
BridgingOK(th, lay, M) ==
  /\ th.rq.op = "postTopic" /\ th.repl # None /\ th.hub # NoLoc
  /\ th.pc \in Checking
  => MadeOK(th, lay, M)
MadeInv == \A w \in Threads : ViewOK(t[w]) /\ BridgingOK(t[w], layer, mirrors)

LEMMA PartsOf ==
  ASSUME NEW S, NEW s \in Seq(S), s # <<>>
  PROVE  Head(s) \in Elements(s) /\ Elements(Tail(s)) \subseteq Elements(s)
<1>1. /\ Len(s) \in Nat /\ DOMAIN s = 1..Len(s) /\ Tail(s) \in Seq(S) /\ Len(s) # 0
      /\ Len(Tail(s)) = Len(s) - 1 /\ \A i \in 1..Len(Tail(s)) : Tail(s)[i] = s[i + 1]
      /\ Head(s) = s[1]
  BY LenProperties, HeadTailProperties, EmptySeq
<1>2. DOMAIN Tail(s) = 1..Len(Tail(s))
  BY <1>1, LenProperties
<1> DEFINE n == Len(s)
           m == Len(Tail(s))
<1>3. 1 \in 1..n /\ \A i \in 1..m : i + 1 \in 1..n
  <2>1. n \in Nat /\ n # 0 /\ m = n - 1
    BY <1>1
  <2> HIDE DEF n, m
  <2> QED
    BY <2>1
<1>4. \A i \in DOMAIN Tail(s) : i + 1 \in DOMAIN s /\ Tail(s)[i] = s[i + 1]
  BY <1>1, <1>2, <1>3
<1> QED
  BY <1>1, <1>3, <1>4 DEF Elements

LEMMA ViewServe ==
  ASSUME TypeInv, OpInv, NEW w \in Threads, Serve(w), ViewOK(t[w])
  PROVE  ViewOK(t'[w])
<1> DEFINE th == t[w]
           u  == t'[w]
           Goal == ViewOK(u)
<1>0. th \in Thread /\ th.rq \in Requests /\ OpOK(th) /\ ViewOK(th)
      /\ th.todo \in Seq(ClientSpec) /\ th.pc # "idle"
  BY ServesBusy DEF TypeInv, TypeOK, OpInv, Thread
<1>1. u.pc = "idle" \/ u.rq = th.rq
  BY SameRequest
<1>2. u.pc = "idle" => Goal
  BY DEF ViewOK
<1>3. CASE th.rq.op # "postTopic"
  BY <1>1, <1>3 DEF ViewOK
<1> SUFFICES ASSUME th.rq.op = "postTopic" PROVE Goal
  BY <1>3
<1>4. /\ th.repl = "g2ce" => th.rq.repl = "g2ce"
      /\ Elements(th.todo) \subseteq Elements(th.rq.clients)
      /\ th.pc \in Pending => th.cur.loc \in LocsOf(th.rq)
      /\ \A c \in th.view : c.loc \in LocsOf(th.rq)
  BY <1>0 DEF ViewOK
<1>a. ASSUME KeepTopic(th, u), u.todo = th.todo, u.view = th.view,
             u.pc \in Pending => th.pc \in Pending /\ SameClient(u.cur, th.cur)
      PROVE  Goal
  BY <1>4, <1>a DEF ViewOK, KeepTopic, SameClient
<1>b. \A v \in Thread : /\ v.rq.op = "postTopic"
                        /\ \/ u = AddTopicReturns(v, TRUE) \/ u = AddTopicReturns(v, FALSE)
                           \/ u = AddClientFails(v)
        => Goal
  <2> SUFFICES ASSUME NEW v \in Thread, v.rq.op = "postTopic",
                      \/ u = AddTopicReturns(v, TRUE) \/ u = AddTopicReturns(v, FALSE)
                      \/ u = AddClientFails(v)
               PROVE  u.pc = "idle"
    BY <1>2
  <2> HIDE DEF u
  <2> QED
    BY Returns, Fails
<1>c. \A code \in {"ok", "conflict", "fail", "notFound"} :
        [th EXCEPT !.err = code] \in Thread /\ [th EXCEPT !.err = code].rq.op = "postTopic"
  BY <1>0, SetsErr DEF KeepTopic
<1>d. u = ServerError \/ u = Success => Goal
  BY <1>2, Replies DEF ServerError, Success
<1>e. th.pc \notin {"list", "dropTopic", "find", "view", "revoke", "drop", "cluster", "topic", "reread",
                    "lookup", "overwrite", "clusterGet", "clusterPut", "clusterLoc",
                    "clusterInvalid", "clusterRemove", "central", "locGet", "locPut",
                    "locRemove"}
  BY <1>0 DEF OpOK, TypeInv, ThreadOK
<1>f. SameClient(th.cur, th.cur)
  BY DEF SameClient
<1> HIDE DEF th, u, Goal
<1>6. ASSUME TopicNext(w) PROVE Goal
  <2>1. ASSUME Review(w) PROVE Goal
    <3>1. /\ u.pc = "exists" /\ u.rq = th.rq /\ u.repl \in {"e2c", None} /\ KeepLists(th, u)
      BY <2>1, ReviewStep DEF th, u
    <3> QED
      BY <1>4, <3>1 DEF Goal, ViewOK, Pending, KeepLists, None
  <2>2. ASSUME Exists(w) PROVE Goal
    <3>1. \/ u = AddTopicReturns([th EXCEPT !.err = "conflict"], FALSE)
          \/ u.pc = "perm" /\ KeepTopic(th, u) /\ KeepLists(th, u)
      BY <2>2, ExistsStep DEF th, u
    <3> QED
      BY <1>a, <1>b, <1>c, <3>1 DEF Pending, KeepLists
  <2>3. ASSUME AddPerm(w) PROVE Goal
    <3>1. \/ u = AddTopicReturns([th EXCEPT !.err = "fail"], FALSE)
          \/ u.pc \in {"perm", "next"} /\ KeepTopic(th, u) /\ KeepLists(th, u)
      BY <2>3, AddPermStep DEF th, u
    <3> QED
      BY <1>a, <1>b, <1>c, <3>1 DEF Pending, KeepLists
  <2>4. ASSUME NextClient(w) PROVE Goal
    <3> DEFINE s == Head(th.todo)
               r == Tail(th.todo)
    <3>1. \/ /\ th.todo = <<>> /\ u.pc = "bridge" /\ KeepTopic(th, u) /\ KeepLists(th, u)
          \/ /\ th.todo # <<>> /\ u.pc = "grant" /\ u.todo = r /\ u.cur.loc = s.loc
             /\ u.view = th.view /\ KeepTopic(th, u)
          \/ /\ th.todo # <<>> /\ u.pc = "next" /\ u.todo = r /\ u.view = th.view \cup {Null}
             /\ KeepTopic(th, u)
          \/ th.todo # <<>> /\ u = AddTopicReturns([th EXCEPT !.todo = r], FALSE)
      <4> DEFINE c == [id |-> nextId, fqtn |-> th.fqtn, loc |-> s.loc, role |-> s.role,
                       acts |-> s.acts, status |-> "VALID"]
                 v == [th EXCEPT !.todo = r]
      <4>1. \/ /\ th.todo = <<>> /\ u.pc = "bridge"
               /\ KeepTopic(th, u) /\ KeepLists(th, u)
            \/ /\ th.todo # <<>> /\ u.pc = "grant" /\ u.todo = r /\ u.cur = c
               /\ u.view = th.view /\ KeepTopic(th, u)
            \/ /\ th.todo # <<>> /\ u.pc = "next" /\ u.todo = r /\ u.view = th.view \cup {Null}
               /\ KeepTopic(th, u)
            \/ th.todo # <<>> /\ u = AddTopicReturns(v, FALSE)
        BY <2>4, NextClientStep DEF th, u
      <4>2. c.loc = s.loc
        OBVIOUS
      <4> HIDE DEF c, v, s, r
      <4>3. u.cur = c => u.cur.loc = s.loc
        BY <4>2
      <4> QED
        BY <4>1, <4>3 DEF v
    <3>2. CASE th.todo = <<>> /\ u.pc = "bridge" /\ KeepTopic(th, u) /\ KeepLists(th, u)
      BY <1>a, <3>2 DEF Pending, KeepLists
    <3>3. CASE /\ th.todo # <<>> /\ u.todo = r /\ KeepTopic(th, u)
               /\ u.view \subseteq th.view \cup {Null}
               /\ u.pc = "next" \/ (u.pc = "grant" /\ u.cur.loc = s.loc)
      <4>1. s \in Elements(th.todo) /\ Elements(r) \subseteq Elements(th.todo)
        BY <1>0, <3>3, PartsOf
      <4>2. s.loc \in LocsOf(th.rq) /\ Null.loc \in LocsOf(th.rq)
        BY <1>4, <4>1 DEF LocsOf, Null
      <4> HIDE DEF s, r
      <4> QED
        BY <1>4, <3>3, <4>1, <4>2 DEF Goal, ViewOK, Pending, KeepTopic
    <3>4. CASE th.todo # <<>> /\ u = AddTopicReturns([th EXCEPT !.todo = r], FALSE)
      <4>1. r \in Seq(ClientSpec)
        BY <1>0, <3>4
      <4>2. [th EXCEPT !.todo = r] \in Thread /\ [th EXCEPT !.todo = r].rq = th.rq
        BY <1>0, <4>1 DEF Thread
      <4> QED
        BY <1>b, <3>4, <4>2 DEF th
    <3> QED
      BY <3>1, <3>2, <3>3, <3>4
  <2>5. ASSUME PutTopic(w) PROVE Goal
    <3>1. u = AddTopicReturns([th EXCEPT !.err = "ok"], TRUE)
      BY <2>5, PutTopicStep DEF th, u
    <3> QED
      BY <1>b, <1>c, <3>1
  <2>6. ~ListClients(w) /\ ~DropTopic(w)
    BY <1>e, ListClientsStep, DropTopicStep DEF th
  <2> QED
    BY <1>6, <2>1, <2>2, <2>3, <2>4, <2>5, <2>6 DEF TopicNext
<1>7. ASSUME ClientNext(w) PROVE Goal
  <2>1. Grant(w) \/ Place(w) \/ ListCentrals(w) \/ PostToCluster(w) \/ StoreClient(w)
    BY <1>7, <1>e, FindClusterStep, FindTopicStep, RereadStep, LookupClientStep,
       OverwriteClientStep, FindClientStep, ViewTopicStep, RevokeGrantStep, DropClientStep
    DEF ClientNext, th
  <2>2. ASSUME Grant(w) PROVE Goal
    <3>1. th.pc = "grant" /\
          \/ u = AddClientFails([th EXCEPT !.err = "fail"])
          \/ u.pc = "grant" /\ u.cur = th.cur /\ KeepTopic(th, u) /\ KeepLists(th, u)
          \/ /\ u.pc = "next" /\ u.todo = th.todo /\ u.view = th.view \cup {NullOf(th.cur)}
             /\ KeepTopic(th, u)
      BY <2>2, GrantStep DEF th, u
    <3>2. NullOf(th.cur).loc = th.cur.loc
      BY <1>0 DEF NullOf, Thread, Client
    <3>3. CASE /\ u.pc = "next" /\ u.todo = th.todo /\ u.view = th.view \cup {NullOf(th.cur)}
               /\ KeepTopic(th, u)
      BY <1>4, <3>1, <3>2, <3>3 DEF Goal, ViewOK, Pending, KeepTopic
    <3> QED
      BY <1>a, <1>b, <1>c, <1>f, <3>1, <3>3 DEF Pending, KeepLists
  <2>3. ASSUME Place(w) PROVE Goal
    BY <1>a, <1>f, <2>3, PlaceStep DEF Pending, KeepLists, th, u
  <2>4. ASSUME ListCentrals(w) PROVE Goal
    BY <1>a, <1>d, <1>f, <2>4, ListCentralsStep DEF Pending, KeepLists, th, u
  <2>5. ASSUME PostToCluster(w) PROVE Goal
    <3>1. th.pc = "post" /\
          \/ u = AddClientFails([th EXCEPT !.err = "fail"]) \/ u = AddClientFails(th)
          \/ u.pc = "post" /\ SameClient(u.cur, th.cur) /\ KeepTopic(th, u) /\ KeepLists(th, u)
      BY <2>5, PostToClusterStep DEF th, u
    <3> QED
      BY <1>0, <1>a, <1>b, <1>c, <3>1 DEF Pending, KeepLists, th
  <2>6. ASSUME StoreClient(w) PROVE Goal
    <3>1. /\ th.pc = "post" /\ u.pc = "next" /\ u.todo = th.todo /\ KeepTopic(th, u)
          /\ u.view = th.view \cup {th.cur}
      BY <2>6, StoreClientStep DEF th, u
    <3> QED
      BY <1>4, <3>1 DEF Goal, ViewOK, Pending, KeepTopic
  <2> QED
    BY <2>1, <2>2, <2>3, <2>4, <2>5, <2>6
<1>8. ASSUME BridgeNext(w) PROVE Goal
  <2>1. \/ u.pc = "idle" \/ u.pc = "clusterInvalid"
        \/ u.pc \notin Pending /\ KeepWork(th, u)
    BY <1>8, BridgeKeeps DEF th, u, Pending, InBridge
  <2>2. u.pc # "clusterInvalid"
    <3>1. OpOK(u)
      BY <1>8, OpBridge DEF u, OpInv
    <3> QED
      BY <1>1, <3>1 DEF OpOK, th
  <2> QED
    BY <1>2, <1>a, <2>1, <2>2 DEF KeepWork, KeepLists
<1>9. ~ClusterNext(w)
  BY <1>e DEF th, ClusterNext, GetCluster, PutCluster, ClusterLocation, InvalidateCluster,
     RemoveCluster, CentralLocation, GetLocation, PutLocation, RemoveLocation
<1> QED
  BY <1>6, <1>7, <1>8, <1>9 DEF Serve, Goal, u

LEMMA InTwo ==
  ASSUME NEW p, NEW q PROVE Elements(<<>>) = {} /\ Elements(<<p>>) = {p} /\ Elements(<<p, q>>) = {p, q}
  BY DEF Elements

LEMMA HasLast ==
  ASSUME NEW s \in Seq(Topics), NEW f \in Topics PROVE f \in Elements(Append(s, f))
<1> DEFINE n == Len(s)
           r == Append(s, f)
<1>1. n \in Nat /\ r \in Seq(Topics) /\ Len(r) = n + 1 /\ r[n + 1] = f
  BY LenProperties, AppendProperties
<1>2. DOMAIN r = 1..(n + 1)
  BY <1>1, LenProperties
<1> HIDE DEF n, r
<1>3. n + 1 \in 1..(n + 1)
  BY <1>1
<1> QED
  BY <1>1, <1>2, <1>3 DEF Elements, r

(* What a location needs is planned, or its cluster is missed.             *)
LEMMA Planned ==
  ASSUME NEW repl, NEW c, NEW l, NEW present, c # NoLoc,
         NEW b \in Elements(BridgesAt(repl, c, l))
  PROVE  LET p == StepsAt(repl, c, l, present) IN Npe \in Elements(p) \/ b \in Elements(p)
<1>1. StepsAt(repl, c, l, present) \in {BridgesAt(repl, c, l), <<Npe>>}
  BY DEF StepsAt, NoLoc, Empty
<1> HIDE DEF Npe
<1> QED
  BY <1>1, InTwo

(* After the check of the bridges only a topic it approved is stored.       *)
LEMMA CheckedOrOver ==
  ASSUME NEW th \in Thread, NEW valid \in BOOLEAN, NEW u, u = BridgeReturns(th, valid)
  PROVE  \/ u.pc \notin Checking
         \/ /\ u.pc = "putTopic" /\ KeepWork(th, u) /\ KeepBridge(th, u)
            /\ th.rq.op = "deleteClient" \/ valid
<1>1. u = Success \/ u = AddTopicReturns(th, FALSE) => u.pc \notin Checking
  <2>1. u = Success \/ u = AddTopicReturns(th, FALSE) => u.pc \in {"idle", "clusterInvalid"}
    BY Replies, Returns DEF Success, Over
  <2> QED
    BY <2>1 DEF Checking, InBridge
<1>2. u.pc = "revoke" => u.pc \notin Checking
  BY DEF Checking, InBridge
<1>3. ASSUME u = BridgeReturns(th, TRUE)
      PROVE  \/ u = Success \/ u = AddTopicReturns(th, FALSE)
             \/ u.pc \in {"putTopic", "revoke"} /\ KeepWork(th, u) /\ KeepBridge(th, u)
  BY <1>3, ChecksBridge
<1>4. ASSUME u = BridgeReturns(th, FALSE)
      PROVE  \/ u = Success \/ u = AddTopicReturns(th, FALSE)
             \/ /\ u.pc \in {"putTopic", "revoke"} /\ KeepWork(th, u) /\ KeepBridge(th, u)
                /\ th.rq.op = "deleteClient"
  BY <1>4, ChecksBridge
<1>5. CASE valid = TRUE
  BY <1>1, <1>2, <1>3, <1>5
<1>6. CASE valid = FALSE
  BY <1>1, <1>2, <1>4, <1>6
<1> QED
  BY <1>5, <1>6

(* One step of the check of a topic's bridges.                             *)
LEMMA MadeBridge ==
  ASSUME TypeInv, NEW w \in Threads, BridgeNext(w), BridgingOK(t[w], layer, mirrors)
  PROVE  BridgingOK(t'[w], layer', mirrors')
<1> DEFINE th == t[w]
           u  == t'[w]
           M  == mirrors
           M2 == mirrors'
           g  == GraphOf(th.view, TRUE, layer)
           Needs(l) == Elements(BridgesAt(th.repl, th.hub, l))
           Goal == BridgingOK(u, layer, M2)
<1>0. /\ th \in Thread /\ th.rq \in Requests /\ th.fqtn \in Topics /\ th.mm \in Seq(Topics)
      /\ th.plan \in Seq(Bridges \cup {Npe}) /\ \A b \in DOMAIN M : M[b] \in Seq(Topics)
  BY DEF TypeInv, TypeOK, Thread
<1>1. layer' = layer
  BY BridgeFrame
<1>2. th.rq.op = "postTopic" /\ th.repl # None /\ th.hub # NoLoc /\ th.pc \in Checking
        => MadeOK(th, layer, M)
  BY DEF BridgingOK
<1>3. u.pc \notin Checking => Goal
  BY DEF BridgingOK
<1>4. u = ServerError \/ u = Success => Goal
  <2>1. u = ServerError \/ u = Success => u.pc = "idle"
    BY Replies DEF ServerError, Success
  <2> QED
    BY <1>3, <2>1 DEF Checking, InBridge
<1>5. ASSUME KeepWork(th, u), u.pc \in Checking,
             th.rq.op = "postTopic" /\ th.repl # None /\ u.hub # NoLoc => MadeOK(u, layer, M2)
      PROVE  Goal
  BY <1>5 DEF BridgingOK, KeepWork, KeepTopic
<1>6. ASSUME KeepWork(th, u), u.hub = th.hub
      PROVE  /\ g = GraphOf(u.view, TRUE, layer)
             /\ \A l : Needs(l) = Elements(BridgesAt(u.repl, u.hub, l))
             /\ u.fqtn = th.fqtn
  BY <1>6 DEF KeepWork, KeepTopic, KeepLists
<1> SUFFICES Goal
  BY <1>1
<1>7. ASSUME NEW valid \in BOOLEAN, u = BridgeReturns(th, valid)
      PROVE  \/ u.pc \notin Checking
             \/ /\ u.pc = "putTopic" /\ KeepWork(th, u) /\ KeepBridge(th, u)
                /\ th.rq.op = "deleteClient" \/ valid
  BY <1>0, <1>7, CheckedOrOver
<1> HIDE DEF th, u, M, M2, g, Needs, Goal
<1>8. ASSUME StartBridge(w) PROVE Goal
  <2>1. \/ th.repl = None /\ u = BridgeReturns(th, TRUE)
        \/ u = ServerError
        \/ /\ u.pc = "loc" /\ u.locs = g /\ KeepWork(th, u)
           /\ u.hub \in CentralChoices(g, layer, NoLoc)
    BY <1>8, StartBridgeStep DEF th, u, g
  <2>2. CASE th.repl = None /\ u = BridgeReturns(th, TRUE)
    <3>1. \/ u.pc \notin Checking
          \/ u.pc = "putTopic" /\ KeepWork(th, u)
      BY <1>7, <2>2
    <3> QED
      BY <1>3, <1>5, <2>2, <3>1 DEF Checking
  <2>3. CASE /\ u.pc = "loc" /\ u.locs = g /\ KeepWork(th, u)
             /\ u.hub \in CentralChoices(g, layer, NoLoc)
    <3>1. u.hub # NoLoc => u.hub \in g
      BY <2>3 DEF CentralChoices
    <3>2. g = GraphOf(u.view, TRUE, layer)
      BY <2>3 DEF KeepWork, KeepLists, g
    <3>3. u.hub # NoLoc => MadeOK(u, layer, M2)
      BY <2>3, <3>1, <3>2 DEF MadeOK, MmSteps
    <3> QED
      BY <1>5, <2>3, <3>3 DEF Checking, InBridge
  <2> QED
    BY <1>4, <2>1, <2>2, <2>3
<1>9. ASSUME VisitLoc(w) PROVE Goal
  <2>1. PICK l \in th.locs :
          /\ th.pc = "loc" /\ u.pc \in {"loc", "plan"} /\ u.hub = th.hub /\ KeepWork(th, u)
          /\ u.locs = th.locs \ {l} /\ M2 = M
          /\ \/ u.wrong = TRUE
             \/ /\ u.pc = "plan" /\ u.wrong = th.wrong
                /\ u.plan = StepsAt(th.repl, th.hub, l, l \in ClusterLocs)
    <3>1. M2 = M
      BY <1>9 DEF VisitLoc, M, M2
    <3> QED
      BY <1>9, <3>1, VisitLocStep DEF th, u
  <2>2. ASSUME th.hub # NoLoc, MadeOK(th, layer, M) PROVE MadeOK(u, layer, M2)
    <3>1. /\ g = GraphOf(u.view, TRUE, layer) /\ u.fqtn = th.fqtn
          /\ \A k : Needs(k) = Elements(BridgesAt(u.repl, u.hub, k))
      BY <1>6, <2>1
    <3>2. /\ th.hub \in g
          /\ \A k \in g \ th.locs : \A b \in Needs(k) :
               th.wrong \/ Npe \in Due(th) \/ b \in Due(th) \/ Lists(b, th.fqtn, M)
      BY <2>2 DEF MadeOK, Needs, g
    <3>3. Due(th) = {}
      BY <2>1 DEF Due, MmSteps
    <3>4. \A k \in g \ u.locs : \A b \in Needs(k) :
            u.wrong \/ Npe \in Due(u) \/ b \in Due(u) \/ Lists(b, u.fqtn, M2)
      <4> SUFFICES ASSUME NEW k \in g \ u.locs, NEW b \in Needs(k), ~u.wrong
                   PROVE  Npe \in Due(u) \/ b \in Due(u) \/ Lists(b, u.fqtn, M2)
        OBVIOUS
      <4>1. /\ u.pc = "plan" /\ u.wrong = th.wrong
            /\ u.plan = StepsAt(th.repl, th.hub, l, l \in ClusterLocs)
        BY <2>1
      <4>2. CASE k = l
        <5>1. Npe \in Elements(u.plan) \/ b \in Elements(u.plan)
          BY <2>2, <4>1, <4>2, Planned DEF Needs
        <5> QED
          BY <4>1, <5>1 DEF Due
      <4>3. CASE k # l
        BY <2>1, <3>1, <3>2, <3>3, <4>1, <4>3
      <4> QED
        BY <4>2, <4>3
    <3> QED
      BY <2>1, <3>1, <3>2, <3>4 DEF MadeOK, MmSteps
  <2> QED
    BY <1>2, <1>5, <2>1, <2>2 DEF Checking, InBridge
<1>10. ASSUME EndBridge(w) PROVE Goal
  <2>1. th.pc = "loc" /\ th.locs = {} /\ u = BridgeReturns(th, ~th.wrong) /\ M2 = M
    <3>1. M2 = M
      BY <1>10 DEF EndBridge, M, M2
    <3> QED
      BY <1>10, <3>1, EndBridgeStep DEF th, u
  <2>2. \/ u.pc \notin Checking
        \/ /\ u.pc = "putTopic" /\ KeepWork(th, u) /\ KeepBridge(th, u)
           /\ th.rq.op = "deleteClient" \/ ~th.wrong
    <3>1. (~th.wrong) \in BOOLEAN
      OBVIOUS
    <3> QED
      BY <1>7, <2>1, <3>1
  <2>3. ASSUME u.pc = "putTopic", KeepWork(th, u), KeepBridge(th, u), ~th.wrong,
               MadeOK(th, layer, M)
        PROVE  MadeOK(u, layer, M2)
    <3>1. /\ g = GraphOf(u.view, TRUE, layer) /\ u.fqtn = th.fqtn
          /\ \A k : Needs(k) = Elements(BridgesAt(u.repl, u.hub, k))
      BY <1>6, <2>3 DEF KeepBridge
    <3>2. /\ th.hub \in g
          /\ \A k \in g \ th.locs : \A b \in Needs(k) :
               th.wrong \/ Npe \in Due(th) \/ b \in Due(th) \/ Lists(b, th.fqtn, M)
      BY <2>3 DEF MadeOK, Needs, g
    <3>3. Due(th) = {} /\ Due(u) = {}
      BY <2>1, <2>3 DEF Due, MmSteps
    <3> QED
      BY <2>1, <2>3, <3>1, <3>2, <3>3 DEF MadeOK, MmSteps, KeepBridge
  <2> QED
    BY <1>2, <1>3, <1>5, <2>1, <2>2, <2>3 DEF Checking, InBridge, KeepBridge
<1>a. ASSUME KeepWork(th, u), u.hub = th.hub, u.pc \in InBridge, M2 = M, u.locs = th.locs,
             th.pc \in InBridge, u.wrong = th.wrong, Due(th) = Due(u),
             u.pc \in MmSteps => u.plan # <<>> /\ Head(u.plan) # Npe /\ u.fqtn \in Elements(u.mm)
      PROVE  Goal
  <2>1. ASSUME MadeOK(th, layer, M) PROVE MadeOK(u, layer, M2)
    <3>1. /\ g = GraphOf(u.view, TRUE, layer) /\ u.fqtn = th.fqtn
          /\ \A k : Needs(k) = Elements(BridgesAt(u.repl, u.hub, k))
      BY <1>6, <1>a
    <3>2. /\ th.hub \in g
          /\ \A k \in g \ th.locs : \A b \in Needs(k) :
               th.wrong \/ Npe \in Due(th) \/ b \in Due(th) \/ Lists(b, th.fqtn, M)
      BY <2>1 DEF MadeOK, Needs, g
    <3> QED
      BY <1>a, <3>1, <3>2 DEF MadeOK, InBridge
  <2> QED
    BY <1>2, <1>5, <1>a, <2>1 DEF Checking
<1>11. ASSUME ReadMm(w) PROVE Goal
  <2>1. M2 = M /\ th.pc = "plan"
    BY <1>11 DEF ReadMm, M, M2, th
  <2>2. \/ u = ServerError
        \/ /\ KeepWork(th, u) /\ u.locs = th.locs /\ u.hub = th.hub
           /\ u.plan = th.plan /\ u.wrong = th.wrong
           /\ \/ th.plan = <<>> /\ u.pc = "loc"
              \/ /\ th.plan # <<>> /\ Head(th.plan) # Npe /\ u.pc = "mmCreate"
                 /\ \/ u.mm = Append(<<>>, th.fqtn)
                    \/ \E b \in DOMAIN M : u.mm = Append(M[b], th.fqtn)
    <3> DEFINE hb == Head(th.plan)
    <3>1. \/ u = ServerError
          \/ /\ KeepWork(th, u) /\ u.locs = th.locs /\ u.hub = th.hub
             /\ u.plan = th.plan /\ u.wrong = th.wrong
             /\ \/ th.plan = <<>> /\ u.pc = "loc"
                \/ /\ th.plan # <<>> /\ hb # Npe /\ u.pc = "mmCreate"
                   /\ u.mm = Append(IF hb \in DOMAIN M THEN M[hb] ELSE <<>>, th.fqtn)
      BY <1>11, ReadMmStep DEF th, u, M
    <3> HIDE DEF hb
    <3>2. u.mm = Append(IF hb \in DOMAIN M THEN M[hb] ELSE <<>>, th.fqtn)
            => \/ u.mm = Append(<<>>, th.fqtn)
               \/ \E b \in DOMAIN M : u.mm = Append(M[b], th.fqtn)
      OBVIOUS
    <3> QED
      BY <3>1, <3>2 DEF hb
  <2>3. CASE u = ServerError
    BY <1>4, <2>3
  <2>4. CASE /\ KeepWork(th, u) /\ u.locs = th.locs /\ u.hub = th.hub /\ u.wrong = th.wrong
             /\ th.plan = <<>> /\ u.pc = "loc"
    <3>1. Due(th) = {} /\ Due(u) = {}
      BY <2>1, <2>4, InTwo DEF Due, MmSteps
    <3> QED
      BY <1>a, <2>1, <2>4, <3>1 DEF InBridge, MmSteps
  <2>5. CASE /\ KeepWork(th, u) /\ u.locs = th.locs /\ u.hub = th.hub
             /\ u.plan = th.plan /\ u.wrong = th.wrong
             /\ th.plan # <<>> /\ Head(th.plan) # Npe /\ u.pc = "mmCreate"
             /\ \/ u.mm = Append(<<>>, th.fqtn)
                \/ \E b \in DOMAIN M : u.mm = Append(M[b], th.fqtn)
    <3>1. Due(th) = Due(u)
      BY <2>1, <2>5 DEF Due, MmSteps
    <3>2. th.fqtn \in Elements(u.mm)
      <4>1. <<>> \in Seq(Topics)
        OBVIOUS
      <4> QED
        BY <1>0, <2>5, <4>1, HasLast
    <3>3. u.fqtn = th.fqtn
      BY <2>5 DEF KeepWork, KeepTopic
    <3> QED
      BY <1>a, <2>1, <2>5, <3>1, <3>2, <3>3 DEF InBridge, MmSteps
  <2> QED
    BY <2>2, <2>3, <2>4, <2>5
<1>12. ASSUME SendCreate(w) PROVE Goal
  <2>1. M2 = M
    BY <1>12 DEF SendCreate, M, M2
  <2>2. /\ th.pc = "mmCreate" /\ KeepWork(th, u) /\ u.hub = th.hub /\ u.mm = th.mm
        /\ \/ u.wrong = TRUE /\ u.pc = "loc"
           \/ u.pc \in {"mmPut", "mmWhitelist"} /\ KeepBridge(th, u)
    BY <1>12, SendCreateStep DEF th, u
  <2>3. ASSUME u.wrong = TRUE, u.pc = "loc", MadeOK(th, layer, M) PROVE MadeOK(u, layer, M2)
    BY <1>6, <2>2, <2>3 DEF MadeOK, MmSteps, g
  <2>4. CASE u.wrong = TRUE /\ u.pc = "loc"
    BY <1>2, <1>5, <2>2, <2>3, <2>4 DEF Checking, InBridge
  <2>5. CASE u.pc \in {"mmPut", "mmWhitelist"} /\ KeepBridge(th, u)
    <3>1. ASSUME MadeOK(th, layer, M) PROVE MadeOK(u, layer, M2)
      <4>1. /\ g = GraphOf(u.view, TRUE, layer) /\ u.fqtn = th.fqtn
            /\ \A k : Needs(k) = Elements(BridgesAt(u.repl, u.hub, k))
        BY <1>6, <2>2
      <4>2. Due(u) = Due(th)
        BY <2>2, <2>5 DEF Due, MmSteps, KeepBridge
      <4> QED
        BY <2>1, <2>2, <2>5, <3>1, <4>1, <4>2 DEF MadeOK, MmSteps, KeepBridge, Needs, g
    <3> QED
      BY <1>2, <1>5, <2>2, <2>5, <3>1 DEF Checking, InBridge
  <2> QED
    BY <2>2, <2>4, <2>5
<1>13. ASSUME SendWhitelist(w) PROVE Goal
  <2>1. M2 = M
    BY <1>13 DEF SendWhitelist, M, M2
  <2>2. th.pc = "mmWhitelist" /\ u.pc = "mmPut" /\ KeepWork(th, u) /\ KeepBridge(th, u)
    BY <1>13, SendWhitelistStep DEF th, u
  <2>3. ASSUME MadeOK(th, layer, M) PROVE MadeOK(u, layer, M2)
    <3>1. /\ g = GraphOf(u.view, TRUE, layer) /\ u.fqtn = th.fqtn
          /\ \A k : Needs(k) = Elements(BridgesAt(u.repl, u.hub, k))
      BY <1>6, <2>2 DEF KeepBridge
    <3>2. Due(u) = Due(th)
      BY <2>2 DEF Due, MmSteps, KeepBridge
    <3> QED
      BY <2>1, <2>2, <2>3, <3>1, <3>2 DEF MadeOK, MmSteps, KeepBridge, Needs, g
  <2> QED
    BY <1>2, <1>5, <2>2, <2>3 DEF Checking, InBridge, KeepBridge
<1>14. ASSUME PutMm(w) PROVE Goal
  <2> DEFINE hb == Head(th.plan)
             r  == Tail(th.plan)
  <2>1. /\ th.pc = "mmPut" /\ u.pc = "plan" /\ u.plan = r /\ KeepWork(th, u)
        /\ u.locs = th.locs /\ u.hub = th.hub /\ u.wrong = th.wrong
        /\ M2 = Set(M, hb, th.mm)
    BY <1>14, PutMmStep DEF th, u, M, M2
  <2>2. ASSUME MadeOK(th, layer, M) PROVE MadeOK(u, layer, M2)
    <3>1. /\ g = GraphOf(u.view, TRUE, layer) /\ u.fqtn = th.fqtn
          /\ \A k : Needs(k) = Elements(BridgesAt(u.repl, u.hub, k))
      BY <1>6, <2>1
    <3>2. /\ th.hub \in g
          /\ \A k \in g \ th.locs : \A b \in Needs(k) :
               th.wrong \/ Npe \in Due(th) \/ b \in Due(th) \/ Lists(b, th.fqtn, M)
          /\ th.plan # <<>> /\ hb # Npe /\ th.fqtn \in Elements(th.mm)
      BY <2>1, <2>2 DEF MadeOK, Needs, g, MmSteps
    <3>3. \A b \in Due(th) : b = hb \/ b \in Due(u)
      <4>1. \A b \in Elements(th.plan) : b = hb \/ b \in Elements(r)
        BY <1>0, <3>2, HeadOrTail
      <4> HIDE DEF hb, r
      <4> QED
        BY <2>1, <4>1 DEF Due, MmSteps
    <3> HIDE DEF hb, r
    <3>4. \A b : b = hb \/ Lists(b, th.fqtn, M) => Lists(b, th.fqtn, M2)
      BY <2>1, <3>2 DEF Lists, Set
    <3> HIDE DEF Npe
    <3>5. \A k \in g \ u.locs : \A b \in Needs(k) :
            u.wrong \/ Npe \in Due(u) \/ b \in Due(u) \/ Lists(b, u.fqtn, M2)
      BY <2>1, <3>1, <3>2, <3>3, <3>4
    <3> QED
      BY <2>1, <3>1, <3>2, <3>5 DEF MadeOK, MmSteps
  <2> HIDE DEF hb, r
  <2> QED
    BY <1>2, <1>5, <2>1, <2>2 DEF Checking, InBridge
<1> QED
  BY <1>8, <1>9, <1>10, <1>11, <1>12, <1>13, <1>14 DEF BridgeNext

LEMMA JoinOne ==
  ASSUME NEW p PROVE Elements(<<p>> \o <<>>) = {p} /\ Elements(<<>> \o <<p>>) = {p}
<1>1. <<p>> \o <<>> = <<p>> /\ <<>> \o <<p>> = <<p>>
  OBVIOUS
<1> QED
  BY <1>1, InTwo

(* Each bridge of the chain is made at its own location or at the hub.     *)
LEMMA WantedMade ==
  ASSUME NEW repl, NEW c, NEW l, c # NoLoc, repl = "g2ce" => l = c,
         NEW b \in Wanted(repl, c, l)
  PROVE  b \in Elements(BridgesAt(repl, c, l)) \/ b \in Elements(BridgesAt(repl, c, c))
<1>0. c # Empty
  BY DEF NoLoc, Empty
<1> DEFINE out  == <<l, Central>>
           inw  == <<Central, l>>
           up   == <<Central, Global>>
           down == <<Global, Central>>
<1>1. \/ b = out /\ l # c /\ repl \in {"e2c", "e2cg"}
      \/ b = up /\ repl \in {"c2g", "e2cg"}
      \/ b = down /\ repl \in {"g2c", "g2ce"}
      \/ b = inw /\ l # c /\ repl \in {"c2e", "g2ce"}
  BY DEF Wanted
<1>2. CASE b = out /\ l # c /\ repl = "e2c"
  <2>1. BridgesAt(repl, c, l) = <<out>>
    BY <1>0, <1>2 DEF BridgesAt
  <2> QED
    BY <1>2, <2>1, InTwo
<1>3. CASE b = out /\ l # c /\ repl = "e2cg"
  <2>1. BridgesAt(repl, c, l) = <<out>> \o <<>>
    BY <1>0, <1>3 DEF BridgesAt
  <2> QED
    BY <1>3, <2>1, JoinOne
<1>4. CASE b = up /\ repl = "c2g"
  <2>1. BridgesAt(repl, c, c) = <<up>>
    BY <1>0, <1>4 DEF BridgesAt
  <2> QED
    BY <1>4, <2>1, InTwo
<1>5. CASE b = up /\ repl = "e2cg"
  <2>1. BridgesAt(repl, c, c) = <<>> \o <<up>>
    BY <1>0, <1>5 DEF BridgesAt
  <2> QED
    BY <1>5, <2>1, JoinOne
<1>6. CASE b = down /\ repl = "g2c"
  <2>1. BridgesAt(repl, c, c) = <<down>>
    BY <1>0, <1>6 DEF BridgesAt
  <2> QED
    BY <1>6, <2>1, InTwo
<1>7. CASE b = down /\ repl = "g2ce"
  <2>1. BridgesAt(repl, c, c) = <<down>> \o <<>>
    BY <1>0, <1>7 DEF BridgesAt
  <2> QED
    BY <1>7, <2>1, JoinOne
<1>8. CASE b = inw /\ l # c /\ repl = "c2e"
  <2>1. BridgesAt(repl, c, l) = <<inw>>
    BY <1>0, <1>8 DEF BridgesAt
  <2> QED
    BY <1>8, <2>1, InTwo
<1> HIDE DEF out, inw, up, down
<1> QED
  BY <1>1, <1>2, <1>3, <1>4, <1>5, <1>6, <1>7, <1>8

(* In the case "g2ce" the hub is the only location of the graph.           *)
LEMMA OneLocation ==
  ASSUME TypeInv, NoEdgesFromGlobal, NEW w \in Threads, ViewOK(t[w]),
         t[w].pc # "idle", t[w].rq.op = "postTopic", t[w].repl = "g2ce",
         NEW l \in GraphOf(t[w].view, TRUE, layer), NEW k \in GraphOf(t[w].view, TRUE, layer)
  PROVE  l = k
<1>1. t[w].rq \in Requests /\ layer \in [Locs -> {Absent, "edge", "central"}]
  BY DEF TypeInv, TypeOK, Thread
<1>2. /\ t[w].rq.repl = "g2ce"
      /\ \A c \in t[w].view : c.loc \in LocsOf(t[w].rq)
  BY DEF ViewOK
<1>3. l \in LocsOf(t[w].rq) /\ k \in LocsOf(t[w].rq) /\ l \in Locs /\ k \in Locs
  BY <1>1, <1>2 DEF GraphOf
<1>4. NoLoc \notin Locs
  BY ConstantsAssumption DEF Hubs, NoLoc, Empty
<1> QED
  BY <1>1, <1>2, <1>3, <1>4 DEF LocsOf, NoEdgesFromGlobal

(* While one request is served at a time, a topic is stored only when      *)
(* every bridge that its replication case names lists it: a bridge that    *)
(* cannot be made, a missing cluster or an agent that does not answer      *)
(* fails the request first (TopicService.checkForBridge).                  *)
THEOREM AllBridgesMade ==
  ASSUME OneThread, NoEdgesFromGlobal PROVE Spec => []BridgesMade
<1>1. Init => MadeInv
  BY DEF Init, MadeInv, ViewOK, BridgingOK, Idle, Checking, InBridge
<1>2. TypeInv /\ OpInv /\ MadeInv /\ [Next]_vars => MadeInv'
  <2> SUFFICES ASSUME TypeInv, OpInv, MadeInv, [Next]_vars PROVE MadeInv'
    OBVIOUS
  <2>1. ASSUME NEW w \in Threads, ViewOK(t'[w]), BridgingOK(t'[w], layer', mirrors')
        PROVE  MadeInv'
    BY <2>1 DEF MadeInv, OneThread
  <2>2. ASSUME NEW w \in Threads, Serve(w) PROVE MadeInv'
    <3>1. ViewOK(t[w]) /\ BridgingOK(t[w], layer, mirrors)
      BY DEF MadeInv
    <3>2. ViewOK(t'[w])
      BY <2>2, <3>1, ViewServe
    <3>3. CASE BridgeNext(w)
      BY <2>1, <3>1, <3>2, <3>3, MadeBridge
    <3>4. CASE ~BridgeNext(w)
      <4>1. t'[w].pc \notin Checking
        BY <2>2, <3>4, WhoBridges
      <4>2. BridgingOK(t'[w], layer', mirrors')
        BY <4>1 DEF BridgingOK
      <4> QED
        BY <2>1, <3>2, <4>2
    <3> QED
      BY <3>3, <3>4
  <2>3. ASSUME NEW w \in Threads, Start(w) PROVE MadeInv'
    <3> DEFINE u == t'[w]
    <3>1. /\ u.pc = FirstStep(u.rq) /\ u.repl = u.rq.repl /\ u.todo = u.rq.clients /\ u.view = {}
      BY <2>3, StartStep
    <3> HIDE DEF u
    <3>2. u.pc \notin Checking \cup Pending
      BY <3>1 DEF FirstStep, Checking, InBridge, Pending
    <3>3. ViewOK(u) /\ BridgingOK(u, layer', mirrors')
      BY <3>1, <3>2 DEF ViewOK, BridgingOK
    <3> QED
      BY <2>1, <3>3 DEF u
  <2>4. CASE ExitProcess
    <3>1. \A w \in Threads : t'[w].pc = "idle"
      BY <2>4 DEF ExitProcess, Idle
    <3>2. \A w \in Threads : ViewOK(t'[w]) /\ BridgingOK(t'[w], layer', mirrors')
      BY <3>1 DEF ViewOK, BridgingOK, Checking, InBridge
    <3> QED
      BY <3>2 DEF MadeInv
  <2>5. CASE UNCHANGED vars
    BY <2>5 DEF vars, MadeInv
  <2> QED
    BY <2>2, <2>3, <2>4, <2>5 DEF Next, Finished
<1>3. TypeInv /\ MadeInv => BridgesMade
  <2> SUFFICES ASSUME TypeInv, MadeInv, NEW w \in Threads,
                      t[w].pc = "putTopic", t[w].rq.op = "postTopic",
                      t[w].repl # None, t[w].hub # NoLoc,
                      NEW l \in GraphOf(t[w].view, TRUE, layer),
                      NEW b \in Wanted(t[w].repl, t[w].hub, l)
               PROVE  b \in DOMAIN mirrors /\ t[w].fqtn \in Elements(mirrors[b])
    BY DEF BridgesMade
  <2> DEFINE g == GraphOf(t[w].view, TRUE, layer)
  <2>1. MadeOK(t[w], layer, mirrors) /\ ViewOK(t[w])
    BY DEF MadeInv, BridgingOK, Checking
  <2>2. /\ t[w].hub \in g /\ t[w].locs = {} /\ ~t[w].wrong /\ Due(t[w]) = {}
        /\ \A k \in g \ t[w].locs : \A q \in Elements(BridgesAt(t[w].repl, t[w].hub, k)) :
             \/ t[w].wrong \/ Npe \in Due(t[w]) \/ q \in Due(t[w])
             \/ Lists(q, t[w].fqtn, mirrors)
    BY <2>1 DEF MadeOK, Due, MmSteps
  <2>3. t[w].repl = "g2ce" => l = t[w].hub
    BY <2>1, <2>2, OneLocation
  <2>4. PICK k \in g : b \in Elements(BridgesAt(t[w].repl, t[w].hub, k))
    BY <2>2, <2>3, WantedMade
  <2>5. Lists(b, t[w].fqtn, mirrors)
    BY <2>2, <2>4
  <2> QED
    BY <2>5 DEF Lists
<1> QED
  BY <1>1, <1>2, <1>3, InitType, NextType, InitOps, OpNext, PTL DEF Spec

-----------------------------------------------------------------------------
(* Stored clients and stored topics.  Where addTopic may have stored       *)
(* clients of the topic it has still to store, ...                         *)
AddPcs == {"next", "bridge", "putTopic", "clusterInvalid"} \cup Pending \cup InBridge
AddsTo(th, f) == th.rq.op \in AddOps /\ th.pc \in AddPcs /\ th.fqtn = f

(* ... what POST mr_clients and DELETE topics know of the tables, ...      *)
OrphanOK(th, C, T) ==
  /\ th.pc \in Pending => th.cur.fqtn = th.fqtn
  /\ th.rq.op = "postClient" /\ th.pc \in Pending => T[th.fqtn] # Absent
  /\ th.rq.op = "deleteTopic" /\ th.pc \in {"find", "revoke", "drop"} =>
       \A c \in C : c.fqtn = th.fqtn => c.id \in th.dels
  /\ th.pc = "dropTopic" => \A c \in C : c.fqtn # th.fqtn
OrphanInv ==
  /\ \A w \in Threads : OrphanOK(t[w], clients, topics)
  /\ \A c \in clients : topics[c.fqtn] # Absent \/ \E w \in Threads : AddsTo(t[w], c.fqtn)

(* ... and what the theorem supposes: an addTopic that ends, be it with    *)
(* the process, has stored its topic or leaves no client of it.            *)
WholeAdd ==
  \A w \in Threads, f \in Topics : Adding(w, f) /\ ~Adding(w, f)' =>
    topics'[f] # Absent \/ \A c \in clients' : c.fqtn # f

LEMMA AddsOn ==
  ASSUME TypeInv, OpInv, NEW w \in Threads, Serve(w), t[w].rq.op \in AddOps, t[w].pc \in AddPcs
  PROVE  t'[w].pc \in AddPcs \cup {"idle"}
<1> DEFINE th == t[w]
           u  == t'[w]
           Goal == u.pc \in AddPcs \cup {"idle"}
<1>0. th \in Thread /\ th.rq.op \in AddOps /\ th.pc \in AddPcs
  BY DEF TypeInv, TypeOK
<1>a. \A v \in Thread : u = AddTopicReturns(v, TRUE) \/ u = AddTopicReturns(v, FALSE)
                        \/ u = AddClientFails(v) => Goal
  <2> SUFFICES ASSUME NEW v \in Thread, u = AddTopicReturns(v, TRUE)
                        \/ u = AddTopicReturns(v, FALSE) \/ u = AddClientFails(v)
               PROVE  Goal
    OBVIOUS
  <2>1. Over(v, u)
    <3> HIDE DEF u
    <3> QED
      BY Returns, Fails
  <2> QED
    BY <2>1 DEF Over, AddPcs
<1>b. u = ServerError => Goal
  BY Replies DEF ServerError
<1>c. \A code \in {"ok", "conflict", "fail", "notFound"} : [th EXCEPT !.err = code] \in Thread
  BY <1>0, SetsErr
<1> HIDE DEF th, u, Goal
<1>1. ASSUME TopicNext(w) PROVE Goal
  <2>1. CASE NextClient(w)
    <3>1. \/ u.pc \in {"bridge", "grant", "next"}
          \/ th.todo # <<>> /\ u = AddTopicReturns([th EXCEPT !.todo = Tail(th.todo)], FALSE)
      BY <2>1, NextClientStep DEF th, u
    <3>2. ASSUME th.todo # <<>> PROVE [th EXCEPT !.todo = Tail(th.todo)] \in Thread
      <4>1. Tail(th.todo) \in Seq(ClientSpec)
        BY <1>0, <3>2 DEF Thread
      <4> QED
        BY <1>0, <4>1 DEF Thread
    <3> QED
      BY <1>a, <3>1, <3>2 DEF Goal, AddPcs, Pending
  <2>2. CASE PutTopic(w)
    BY <1>0, <1>a, <1>c, <2>2, PutTopicStep DEF th, u, AddOps
  <2>3. ~(Review(w) \/ Exists(w) \/ AddPerm(w) \/ ListClients(w) \/ DropTopic(w))
    BY <1>0, ReviewStep, ExistsStep, AddPermStep, ListClientsStep, DropTopicStep
    DEF th, AddPcs, Pending, InBridge
  <2> QED
    BY <1>1, <2>1, <2>2, <2>3 DEF TopicNext
<1>2. ASSUME ClientNext(w) PROVE Goal
  <2>1. CASE Grant(w)
    BY <1>0, <1>a, <1>c, <2>1, GrantStep DEF th, u, Goal, AddPcs, Pending, AddOps
  <2>2. CASE Place(w)
    BY <2>2, PlaceStep DEF u, Goal, AddPcs, Pending
  <2>3. CASE ListCentrals(w)
    BY <1>b, <2>3, ListCentralsStep DEF u, Goal, AddPcs, Pending
  <2>4. CASE PostToCluster(w)
    BY <1>0, <1>a, <1>c, <2>4, PostToClusterStep DEF th, u, Goal, AddPcs, Pending
  <2>5. CASE StoreClient(w)
    BY <1>0, <2>5, StoreClientStep DEF th, u, Goal, AddPcs, AddOps
  <2>6. th.pc \notin {"cluster", "topic", "reread", "lookup", "overwrite", "find", "view",
                      "revoke", "drop"}
    BY <1>0 DEF AddPcs, Pending, InBridge
  <2>7. ~(FindCluster(w) \/ FindTopic(w) \/ Reread(w) \/ LookupClient(w) \/ OverwriteClient(w))
    BY <2>6, FindClusterStep, FindTopicStep, RereadStep, LookupClientStep, OverwriteClientStep
    DEF th
  <2>8. ~(FindClient(w) \/ ViewTopic(w) \/ RevokeGrant(w) \/ DropClient(w))
    BY <2>6, FindClientStep, ViewTopicStep, RevokeGrantStep, DropClientStep DEF th
  <2> QED
    BY <1>2, <2>1, <2>2, <2>3, <2>4, <2>5, <2>7, <2>8 DEF ClientNext
<1>3. ASSUME BridgeNext(w) PROVE Goal
  BY <1>0, <1>3, BridgeKeeps DEF Goal, AddPcs, AddOps, th, u
<1>4. ASSUME ClusterNext(w) PROVE Goal
  <2>1. th.pc \notin {"clusterLoc", "central", "clusterGet", "clusterPut", "locGet"}
    BY <1>0 DEF AddPcs, Pending, InBridge
  <2> QED
    BY <1>4, <2>1, ClusterStep DEF Goal, th, u
<1> QED
  BY <1>1, <1>2, <1>3, <1>4 DEF Serve, Goal, u

(* What is known at each step, request by request.                         *)
LEMMA OrphanTopic ==
  ASSUME TypeInv, OpInv, NEW w \in Threads, TopicNext(w), OrphanOK(t[w], clients, topics)
  PROVE  OrphanOK(t'[w], clients', topics')
<1> DEFINE th == t[w]
           u  == t'[w]
           Goal == OrphanOK(u, clients', topics')
<1>0. th \in Thread /\ OpOK(th) /\ OrphanOK(th, clients, topics) /\ clients' = clients
  BY TopicFrame DEF TypeInv, TypeOK, OpInv
<1>a. u.pc \notin {"find", "revoke", "drop", "dropTopic"} \cup Pending => Goal
  BY DEF OrphanOK
<1>b. \A v \in Thread : u = AddTopicReturns(v, TRUE) \/ u = AddTopicReturns(v, FALSE) => Goal
  <2> SUFFICES ASSUME NEW v \in Thread, u = AddTopicReturns(v, TRUE)
                        \/ u = AddTopicReturns(v, FALSE)
               PROVE  Goal
    OBVIOUS
  <2>1. Over(v, u)
    <3> HIDE DEF u
    <3> QED
      BY Returns
  <2> QED
    BY <1>a, <2>1 DEF Over, Pending
<1>c. \A code \in {"ok", "conflict", "fail", "notFound"} : [th EXCEPT !.err = code] \in Thread
  BY <1>0, SetsErr
<1> HIDE DEF th, u, Goal
<1>1. CASE Review(w) \/ Exists(w) \/ AddPerm(w) \/ DropTopic(w)
  BY <1>a, <1>b, <1>c, <1>1, ReviewStep, ExistsStep, AddPermStep, DropTopicStep, Replies
  DEF th, u, Goal, Pending, Success
<1>2. CASE NextClient(w)
  <2>1. \/ u.pc \in {"bridge", "next"}
        \/ u.pc = "grant" /\ u.cur.fqtn = th.fqtn /\ u.fqtn = th.fqtn /\ u.rq = th.rq
        \/ th.todo # <<>> /\ u = AddTopicReturns([th EXCEPT !.todo = Tail(th.todo)], FALSE)
    <3> DEFINE v == [th EXCEPT !.todo = Tail(th.todo)]
               c == [id |-> nextId, fqtn |-> th.fqtn, loc |-> Head(th.todo).loc,
                     role |-> Head(th.todo).role, acts |-> Head(th.todo).acts,
                     status |-> "VALID"]
    <3>1. c.fqtn = th.fqtn
      OBVIOUS
    <3> HIDE DEF v, c
    <3>2. \/ u.pc \in {"bridge", "next"}
          \/ u.pc = "grant" /\ u.cur = c /\ KeepTopic(th, u)
          \/ th.todo # <<>> /\ u = AddTopicReturns(v, FALSE)
      BY <1>2, NextClientStep DEF th, u, c, v
    <3> QED
      BY <3>1, <3>2 DEF v, KeepTopic
  <2>2. ASSUME th.todo # <<>> PROVE [th EXCEPT !.todo = Tail(th.todo)] \in Thread
    <3>1. Tail(th.todo) \in Seq(ClientSpec)
      BY <1>0, <2>2 DEF Thread
    <3> QED
      BY <1>0, <3>1 DEF Thread
  <2>3. ASSUME u.pc = "grant", u.cur.fqtn = th.fqtn, u.fqtn = th.fqtn, u.rq = th.rq PROVE Goal
    <3>1. th.rq.op \in AddOps
      BY <1>0, <1>2, NextClientStep DEF OpOK, th
    <3> QED
      BY <2>3, <3>1 DEF Goal, OrphanOK, AddOps
  <2> QED
    BY <1>a, <1>b, <2>1, <2>2, <2>3 DEF Goal, u, Pending
<1>3. CASE PutTopic(w)
  <2>1. \/ th.rq.op = "deleteClient" /\ u.pc = "revoke" /\ u.rq = th.rq
        \/ u = AddTopicReturns([th EXCEPT !.err = "ok"], TRUE)
    BY <1>3, PutTopicStep DEF th, u, KeepTopic
  <2>2. th.rq.op = "deleteClient" /\ u.pc = "revoke" /\ u.rq = th.rq => Goal
    BY DEF Goal, OrphanOK, Pending
  <2> QED
    BY <1>b, <1>c, <2>1, <2>2 DEF Goal, u
<1>4. CASE ListClients(w)
  <2>1. u = Reply("notFound") => Goal
    BY <1>a, Replies DEF Pending
  <2>2. ASSUME u.pc \in {"dropTopic", "find"}, u.fqtn = th.fqtn,
               u.dels = {c.id : c \in ClientsOf(th.fqtn)}
        PROVE  \A c \in clients : c.fqtn = u.fqtn => c.id \in u.dels
    BY <2>2 DEF ClientsOf
  <2>3. u.pc = "dropTopic" => u.dels = {}
    <3>1. t'[w] = IF topics[th.fqtn] = Absent THEN Reply("notFound")
                  ELSE [th EXCEPT !.dels = {c.id : c \in ClientsOf(th.fqtn)}, !.err = "ok",
                          !.pc = IF {c.id : c \in ClientsOf(th.fqtn)} = {} THEN "dropTopic"
                                 ELSE "find"]
      BY <1>4, Moves DEF ListClients, th
    <3> DEFINE ids == {c.id : c \in ClientsOf(th.fqtn)}
    <3> HIDE DEF ids
    <3>2. t'[w] = IF topics[th.fqtn] = Absent THEN Reply("notFound")
                  ELSE [th EXCEPT !.dels = ids, !.err = "ok",
                          !.pc = IF ids = {} THEN "dropTopic" ELSE "find"]
      BY <3>1 DEF ids
    <3> QED
      BY <1>0, <3>2, Replies DEF u, Thread
  <2>4. /\ u.pc \in {"dropTopic", "find"} /\ u.fqtn = th.fqtn
        /\ u.dels = {c.id : c \in ClientsOf(th.fqtn)}
        => Goal
    BY <1>0, <2>2, <2>3 DEF Goal, OrphanOK, Pending
  <2> QED
    BY <1>4, <2>1, <2>4, ListClientsStep DEF Goal, u, th, KeepTopic
<1> QED
  BY <1>1, <1>2, <1>3, <1>4 DEF TopicNext, Goal, u

(* A client is stored for a topic that is stored or still being added, and *)
(* removeTopic loses no client of its topic out of sight.                  *)
LEMMA OrphanClient ==
  ASSUME ~Runs("putClient"), DeleteLevel >= 1, TypeInv, OpInv, NEW w \in Threads, ClientNext(w),
         OrphanOK(t[w], clients, topics)
  PROVE  /\ OrphanOK(t'[w], clients', topics')
         /\ \A c \in clients' : \/ c \in clients \/ topics[c.fqtn] # Absent
                                \/ AddsTo(t'[w], c.fqtn)
<1> DEFINE th == t[w]
           u  == t'[w]
           Owned == \A c \in clients' : \/ c \in clients \/ topics[c.fqtn] # Absent
                                        \/ AddsTo(u, c.fqtn)
           Goal == OrphanOK(u, clients', topics') /\ Owned
<1>0. /\ th \in Thread /\ th.rq \in Requests /\ OpOK(th) /\ OrphanOK(th, clients, topics)
      /\ topics' = topics
  BY ClientFrame DEF TypeInv, TypeOK, OpInv, Thread
<1>a. ASSUME u.pc \notin {"find", "revoke", "drop", "dropTopic"} \cup Pending, clients' = clients
      PROVE  Goal
  BY <1>a DEF OrphanOK
<1>b. \A v \in Thread : u = AddClientFails(v) => u.pc \in {"idle", "clusterInvalid"}
  <2> SUFFICES ASSUME NEW v \in Thread, u = AddClientFails(v)
               PROVE  u.pc \in {"idle", "clusterInvalid"}
    OBVIOUS
  <2>1. Over(v, u)
    <3> HIDE DEF u
    <3> QED
      BY Fails
  <2> QED
    BY <2>1 DEF Over
<1>c. [th EXCEPT !.err = "fail"] \in Thread /\ [th EXCEPT !.err = "fail"].rq = th.rq
      /\ [th EXCEPT !.err = "fail"].err = "fail"
  BY <1>0, SetsErr DEF KeepTopic
<1> HIDE DEF th, u, Goal
<1>1. ASSUME Grant(w) \/ Place(w) \/ ListCentrals(w) \/ PostToCluster(w) PROVE Goal
  <2>0. clients' = clients
    <3>1. /\ Grant(w) => clients' = clients
          /\ Place(w) => clients' = clients
          /\ ListCentrals(w) => clients' = clients
          /\ PostToCluster(w) => clients' = clients
      BY DEF Grant, Place, ListCentrals, PostToCluster
    <3> QED
      BY <1>1, <3>1
  <2>1. clients' = clients /\ th.pc \in Pending
    BY <1>1, <2>0, GrantStep, PlaceStep, ListCentralsStep, PostToClusterStep DEF Pending, th
  <2>2. \/ u.pc \in {"idle", "clusterInvalid", "next", "reread"}
        \/ u.pc \in Pending /\ SameClient(u.cur, th.cur) /\ KeepTopic(th, u)
    <3>1. u = ServerError => u.pc = "idle"
      BY Replies DEF ServerError
    <3>2. \/ u = ServerError \/ u.pc \in {"next", "reread"}
          \/ u = AddClientFails(th) \/ u = AddClientFails([th EXCEPT !.err = "fail"])
          \/ u.pc \in Pending /\ SameClient(u.cur, th.cur) /\ KeepTopic(th, u)
      <4>1. SameClient(th.cur, th.cur)
        BY DEF SameClient
      <4>2. CASE Grant(w)
        BY <4>1, <4>2, GrantStep DEF th, u, Pending
      <4>3. CASE Place(w)
        BY <4>1, <4>3, PlaceStep DEF th, u, Pending
      <4>4. CASE ListCentrals(w)
        BY <4>1, <4>4, ListCentralsStep DEF th, u, Pending
      <4>5. CASE PostToCluster(w)
        BY <4>5, PostToClusterStep DEF th, u, Pending
      <4> QED
        BY <1>1, <4>2, <4>3, <4>4, <4>5
    <3> QED
      BY <1>0, <1>b, <1>c, <3>1, <3>2
  <2>3. u.pc \in Pending /\ SameClient(u.cur, th.cur) /\ KeepTopic(th, u) => Goal
    BY <1>0, <2>1 DEF Goal, OrphanOK, KeepTopic, SameClient, Pending
  <2> QED
    BY <1>a, <2>1, <2>2, <2>3 DEF Pending
<1>2. ASSUME FindTopic(w) PROVE Goal
  <2>0. clients' = clients
    BY <1>2 DEF FindTopic
  <2>1. clients' = clients /\ th.rq.op = "postClient"
    BY <1>2, <2>0, FindTopicStep DEF th
  <2>2. \/ u = Reply("notFound")
        \/ topics[th.fqtn] # Absent /\ u.pc = "grant" /\ u.cur.fqtn = th.fqtn /\ KeepTopic(th, u)
    <3> DEFINE s == Head(th.rq.clients)
               c == [id |-> IF th.rq.id = 0 THEN nextId ELSE th.rq.id,
                     fqtn |-> th.fqtn, loc |-> s.loc,
                     role |-> s.role, acts |-> s.acts, status |-> "VALID"]
    <3>1. c.fqtn = th.fqtn
      OBVIOUS
    <3> HIDE DEF s, c
    <3>2. \/ u = Reply("notFound")
          \/ topics[th.fqtn] # Absent /\ u.pc = "grant" /\ u.cur = c /\ KeepTopic(th, u)
      BY <1>2, FindTopicStep DEF th, u, s, c
    <3> QED
      BY <3>1, <3>2
  <2>3. u = Reply("notFound") => Goal
    BY <1>a, <2>1, Replies DEF Pending
  <2>4. topics[th.fqtn] # Absent /\ u.pc = "grant" /\ u.cur.fqtn = th.fqtn /\ KeepTopic(th, u)
          => Goal
    BY <1>0, <2>1 DEF Goal, OrphanOK, KeepTopic
  <2> QED
    BY <2>2, <2>3, <2>4
<1>3. ASSUME StoreClient(w) PROVE Goal
  <2>1. /\ th.pc = "post" /\ clients' = Put(th.cur) /\ KeepTopic(th, u)
        /\ IF th.rq.op = "postClient" THEN u.pc = "reread" ELSE u.pc = "next"
    BY <1>3, StoreClientStep DEF th, u
  <2>2. th.cur.fqtn = th.fqtn /\ (th.rq.op = "postClient" => topics[th.fqtn] # Absent)
    BY <1>0, <2>1 DEF OrphanOK, Pending
  <2>3. th.rq.op # "postClient" => AddsTo(u, th.fqtn)
    BY <1>0, <2>1 DEF OpOK, AddsTo, AddPcs, KeepTopic
  <2>4. Owned
    BY <2>1, <2>2, <2>3 DEF Put
  <2> QED
    BY <2>1, <2>4 DEF Goal, OrphanOK, Pending
<1>4. ASSUME FindCluster(w) \/ Reread(w) \/ LookupClient(w) PROVE Goal
  <2>1. u.pc \in {"idle", "topic", "bridge", "overwrite"}
    BY <1>4, FindClusterStep, RereadStep, LookupClientStep, Replies DEF u, ServerError
  <2>2. clients' = clients
    BY <1>4 DEF FindCluster, Reread, LookupClient
  <2> QED
    BY <1>a, <2>1, <2>2 DEF Pending
<1>5. ~OverwriteClient(w)
  BY <1>0, OverwriteClientStep DEF Runs, th
<1>6. ASSUME FindClient(w) PROVE Goal
  <2>0. clients' = clients
    BY <1>6 DEF FindClient
  <2>1. clients' = clients /\ th.pc = "find"
    BY <1>6, <2>0, FindClientStep DEF th
  <2>2. \/ u = Reply("notFound")
        \/ u.pc \in {"view", "revoke"} /\ u.rq = th.rq /\ u.fqtn = th.fqtn /\ u.dels = th.dels
    BY <1>6, FindClientStep DEF th, u, KeepTopic, KeepLists
  <2>3. u = Reply("notFound") => Goal
    BY <1>a, <2>1, Replies DEF Pending
  <2>4. u.pc \in {"view", "revoke"} /\ u.rq = th.rq /\ u.fqtn = th.fqtn /\ u.dels = th.dels
          => Goal
    BY <1>0, <2>1 DEF Goal, OrphanOK, Pending
  <2> QED
    BY <2>2, <2>3, <2>4
<1>7. ASSUME ViewTopic(w) PROVE Goal
  <2>0. clients' = clients
    BY <1>7 DEF ViewTopic
  <2>1. clients' = clients /\ th.pc = "view" /\ u.rq = th.rq /\ u.pc \in {"revoke", "bridge"}
    BY <1>7, <2>0, ViewTopicStep DEF th, u
  <2>2. th.rq.op = "deleteClient"
    BY <1>0, <2>1 DEF OpOK
  <2> QED
    BY <2>1, <2>2 DEF Goal, OrphanOK, Pending
<1>8. \A v \in Thread : v.rq = th.rq /\ v.err # "ok" /\ u = RemoveClientReturns(v) =>
        u.pc = "idle"
  <2> SUFFICES ASSUME NEW v \in Thread, v.rq = th.rq, v.err # "ok", u = RemoveClientReturns(v)
               PROVE  u.pc = "idle"
    OBVIOUS
  <2> QED
    BY RemoveReturns
<1>9. ASSUME RevokeGrant(w) PROVE Goal
  <2>1. clients' = clients /\ th.pc = "revoke"
    BY <1>9 DEF RevokeGrant, th
  <2>2. \/ u.pc \in {"revoke", "drop"} /\ u.rq = th.rq /\ u.fqtn = th.fqtn /\ u.dels = th.dels
        \/ u = RemoveClientReturns([th EXCEPT !.err = "fail"])
    BY <1>9, RevokeGrantStep DEF th, u, KeepTopic, KeepLists
  <2>3. u = RemoveClientReturns([th EXCEPT !.err = "fail"]) => Goal
    BY <1>8, <1>a, <1>c, <2>1 DEF Pending
  <2>4. u.pc \in {"revoke", "drop"} /\ u.rq = th.rq /\ u.fqtn = th.fqtn /\ u.dels = th.dels => Goal
    BY <1>0, <2>1 DEF Goal, OrphanOK, Pending
  <2> QED
    BY <2>2, <2>3, <2>4
<1>10. ASSUME DropClient(w) PROVE Goal
  <2>1. /\ th.pc \in {"revoke", "drop"} /\ u = RemoveClientReturns(th)
        /\ clients' \subseteq clients
        /\ th.err = "ok" => \A c \in clients' : c.id # th.cur.id
    <3>1. DeleteLevel \in Nat
      BY ConstantsAssumption
    <3> QED
      BY <1>10, <3>1, DropClientStep DEF th, u
  <2>2. CASE u.pc = "idle"
    BY <2>1, <2>2 DEF Goal, OrphanOK, Pending
  <2>3. CASE /\ th.rq.op # "deleteClient" /\ th.err = "ok"
             /\ u.pc \in {"dropTopic", "find"} /\ u.dels = th.dels \ {th.cur.id}
             /\ (u.pc = "dropTopic" <=> u.dels = {}) /\ KeepTopic(th, u)
    <3>1. th.rq.op = "deleteTopic"
      BY <1>0, <2>1, <2>3 DEF OpOK
    <3>2. \A c \in clients' : c.fqtn = u.fqtn => c.id \in u.dels
      BY <1>0, <2>1, <2>3, <3>1 DEF OrphanOK, KeepTopic
    <3>3. OrphanOK(u, clients', topics')
      BY <2>3, <3>2 DEF OrphanOK, Pending
    <3> QED
      BY <2>1, <3>3 DEF Goal
  <2> QED
    BY <1>0, <2>1, <2>2, <2>3, RemoveReturns
<1>11. Goal
  BY <1>1, <1>2, <1>3, <1>4, <1>5, <1>6, <1>7, <1>9, <1>10 DEF ClientNext
<1> QED
  BY <1>11 DEF Goal, u

LEMMA OrphanServe ==
  ASSUME ~Runs("putClient"), DeleteLevel >= 1, TypeInv, OpInv, NEW w \in Threads, Serve(w),
         OrphanOK(t[w], clients, topics)
  PROVE  /\ OrphanOK(t'[w], clients', topics')
         /\ \A c \in clients' : \/ c \in clients \/ topics[c.fqtn] # Absent
                                \/ AddsTo(t'[w], c.fqtn)
<1> DEFINE u == t'[w]
           Goal == /\ OrphanOK(t'[w], clients', topics')
                   /\ \A c \in clients' : \/ c \in clients \/ topics[c.fqtn] # Absent
                                          \/ AddsTo(t'[w], c.fqtn)
<1>1. ASSUME TopicNext(w) PROVE Goal
  BY <1>1, OrphanTopic, TopicFrame
<1>2. ASSUME ClientNext(w) PROVE Goal
  BY <1>2, OrphanClient
<1>3. ASSUME BridgeNext(w) PROVE Goal
  <2>1. /\ u.pc \notin {"find", "drop", "dropTopic"} \cup Pending
        /\ u.pc = "revoke" => u.rq.op # "deleteTopic"
    BY <1>3, BridgeKeeps DEF InBridge, Pending, KeepWork, KeepTopic
  <2> QED
    BY <1>3, <2>1, BridgeFrame DEF OrphanOK, Pending
<1>4. ASSUME ClusterNext(w) PROVE Goal
  <2>1. u.pc \notin {"find", "revoke", "drop", "dropTopic"} \cup Pending
    BY <1>4, ClusterStep DEF Pending
  <2> QED
    BY <1>4, <2>1, ClusterFrame DEF OrphanOK
<1> QED
  BY <1>1, <1>2, <1>3, <1>4 DEF Serve

LEMMA OrphanNext ==
  ASSUME OneThread, ~Runs("putClient"), DeleteLevel >= 1, TypeInv, OpInv, OrphanInv,
         [Next]_vars, WholeAdd
  PROVE  OrphanInv'
<1> DEFINE Home(c) == topics[c.fqtn] # Absent \/ \E w \in Threads : AddsTo(t[w], c.fqtn)
<1>0. \A c \in clients : c.fqtn \in Topics
  BY DEF TypeInv, TypeOK, Client
<1>1. ASSUME NEW w \in Threads, Start(w) PROVE OrphanInv'
  <2>1. /\ t[w].pc = "idle" /\ t'[w].pc = FirstStep(t'[w].rq)
        /\ UNCHANGED <<topics, clients>>
    BY <1>1, StartStep
  <2>2. t'[w].pc \notin {"revoke", "drop", "dropTopic"} \cup Pending
    BY <2>1 DEF FirstStep, Pending
  <2>3. t'[w].pc = "find" => t'[w].rq.op = "deleteClient"
    BY <2>1 DEF FirstStep
  <2>4. \A f : ~AddsTo(t[w], f)
    BY <2>1 DEF AddsTo, AddPcs, Pending, InBridge
  <2>5. OrphanOK(t'[w], clients', topics')
    BY <2>2, <2>3 DEF OrphanOK
  <2>6. \A c \in clients : topics[c.fqtn] # Absent
    BY <2>4 DEF OrphanInv, OneThread
  <2> QED
    BY <2>1, <2>5, <2>6 DEF OrphanInv, OneThread
<1>2. ASSUME NEW w \in Threads, Serve(w) PROVE OrphanInv'
  <2> DEFINE th == t[w]
             u  == t'[w]
  <2>1. OrphanOK(th, clients, topics) /\ OpOK(th) /\ th.pc # "idle"
    BY <1>2, ServesBusy DEF OrphanInv, OpInv
  <2>2. /\ OrphanOK(u, clients', topics')
        /\ \A c \in clients' : c \in clients \/ topics[c.fqtn] # Absent \/ AddsTo(u, c.fqtn)
    BY <1>2, <2>1, OrphanServe
  <2>3. \A v \in Threads : OrphanOK(t'[v], clients', topics')
    BY <2>2 DEF OneThread
  <2>4. ASSUME NEW f \in Topics, topics[f] # Absent, topics'[f] = Absent
        PROVE  \A c \in clients' : c.fqtn # f
    <3>1. PutTopic(w) \/ DropTopic(w) \/ topics' = topics
      BY <1>2, TopicFrame, ClientFrame, BridgeFrame, ClusterFrame DEF Serve
    <3>2. ~PutTopic(w)
      <4>1. th.repl # Absent
        BY DEF TypeInv, TypeOK, Thread, ReplCases, None, NotSpecified, Absent
      <4> QED
        BY <2>4, <4>1, PutTopicStep DEF TypeInv, TypeOK
    <3>3. DropTopic(w)
      BY <2>4, <3>1, <3>2
    <3>4. f = th.fqtn /\ th.pc = "dropTopic"
      BY <2>4, <3>3, DropTopicStep DEF TypeInv, TypeOK
    <3>5. clients' = clients
      BY <3>3 DEF DropTopic
    <3> QED
      BY <2>1, <3>4, <3>5 DEF OrphanOK
  <2>5. ASSUME NEW f \in Topics, AddsTo(th, f)
        PROVE  AddsTo(u, f) \/ topics'[f] # Absent \/ \A c \in clients' : c.fqtn # f
    <3>1. Adding(w, f)
      BY <2>1, <2>5 DEF AddsTo, AddOps, Adding
    <3>2. CASE ~Adding(w, f)'
      BY <3>1, <3>2 DEF WholeAdd
    <3>3. CASE Adding(w, f)'
      <4>1. u.pc # "idle" /\ u.fqtn = f /\ u.rq.op \in AddOps
        BY <3>3 DEF Adding, AddOps
      <4>2. u.pc \in AddPcs \cup {"idle"}
        BY <1>2, <2>5, AddsOn DEF AddsTo
      <4> QED
        BY <4>1, <4>2 DEF AddsTo
    <3> QED
      BY <3>2, <3>3
  <2>6. ASSUME NEW c \in clients' PROVE topics'[c.fqtn] # Absent \/ AddsTo(u, c.fqtn)
    <3>0. c.fqtn \in Topics
      <4>1. clients' \subseteq Client
        BY <1>2, NextType DEF TypeInv, TypeOK, Next
      <4> QED
        BY <4>1 DEF Client
    <3>1. CASE topics[c.fqtn] # Absent
      BY <2>4, <3>0, <3>1
    <3>2. CASE c \in clients /\ topics[c.fqtn] = Absent
      <4>1. AddsTo(th, c.fqtn)
        BY <3>2 DEF OrphanInv, OneThread
      <4> QED
        BY <2>5, <3>0, <4>1
    <3> QED
      BY <2>2, <3>1, <3>2
  <2> QED
    BY <2>3, <2>6 DEF OrphanInv
<1>3. ASSUME ExitProcess \/ UNCHANGED vars PROVE OrphanInv'
  <2>1. /\ UNCHANGED <<topics, clients>>
        /\ \A v \in Threads : t'[v] = t[v] \/ t'[v] = Idle
    BY <1>3, ExitStep
  <2>2. OrphanOK(Idle, clients', topics')
    BY DEF OrphanOK, Idle, Pending
  <2>3. ASSUME NEW c \in clients, topics[c.fqtn] = Absent
        PROVE  \E v \in Threads : AddsTo(t'[v], c.fqtn)
    <3>1. PICK v \in Threads : AddsTo(t[v], c.fqtn)
      BY <2>3 DEF OrphanInv
    <3>2. CASE t'[v] = t[v]
      BY <3>1, <3>2
    <3>3. CASE t'[v] = Idle
      <4>1. Adding(v, c.fqtn) /\ ~Adding(v, c.fqtn)'
        BY <3>1, <3>3 DEF AddsTo, AddOps, AddPcs, Pending, InBridge, Adding, Idle
      <4>2. topics'[c.fqtn] # Absent \/ \A d \in clients' : d.fqtn # c.fqtn
        BY <1>0, <4>1 DEF WholeAdd
      <4> QED
        BY <2>1, <2>3, <4>2
    <3> QED
      BY <2>1, <3>2, <3>3
  <2> QED
    BY <2>1, <2>2, <2>3 DEF OrphanInv
<1> QED
  BY <1>1, <1>2, <1>3 DEF Next, Finished

(* Every stored client belongs to a stored topic, or to one that a request *)
(* still adds, when requests come one after the other, no PUT mr_clients   *)
(* rewrites a row, a removed client's row is dropped (delete level 1 or    *)
(* 2), and each addTopic that ends has stored its topic or left no client: *)
(* addTopic is the only way to an orphan.  Neither a POST or a DELETE of   *)
(* clients nor a removeTopic makes one, whatever fails in them and         *)
(* wherever the process exits: removeTopic drops the topic only when the   *)
(* last of its clients is gone (TopicService.removeTopic).                 *)
THEOREM OrphansComeFromAddTopic ==
  ASSUME OneThread, ~Runs("putClient"), DeleteLevel >= 1
  PROVE  Spec /\ AddsWhole => []NoOrphanClients
<1>1. OneThread /\ ~Runs("putClient") /\ DeleteLevel >= 1
  OBVIOUS
<1>2. Init => OrphanInv
  BY DEF Init, OrphanInv, OrphanOK, Idle, Pending
<1>3. TypeInv /\ OpInv /\ OrphanInv /\ [Next]_vars /\ [WholeAdd]_vars => OrphanInv'
  <2>1. ASSUME TypeInv, OpInv, OrphanInv, [Next]_vars, UNCHANGED vars PROVE WholeAdd
    BY <2>1 DEF vars, WholeAdd, Adding
  <2> QED
    BY <1>1, <2>1, OrphanNext
<1>4. TypeInv /\ OpInv /\ [Next]_vars => OpInv'
  BY OpNext
<1>5. OrphanInv => NoOrphanClients
  <2>1. \A w \in Threads : \A f : AddsTo(t[w], f) => Adding(w, f)
    BY DEF AddsTo, AddOps, AddPcs, Pending, InBridge, Adding
  <2> QED
    BY <2>1 DEF OrphanInv, NoOrphanClients
<1>6. Spec /\ [][WholeAdd]_vars => []NoOrphanClients
  BY <1>2, <1>3, <1>4, <1>5, InitType, NextType, InitOps, PTL DEF Spec
<1> QED
  BY <1>6 DEF AddsWhole, WholeAdd

-----------------------------------------------------------------------------
(* The whitelists implement Whitelist.  What a thread is about to put is   *)
(* the stored row with its topic appended.                                 *)
Listed(b, M) == IF b \in DOMAIN M THEN M[b] ELSE <<>>
Appends(th, M) == th.pc \in MmSteps => th.mm = Append(Listed(Head(th.plan), M), th.fqtn)
GrowInv == \A w \in Threads : Appends(t[w], mirrors)

(* What is listed when there is one thread.                                *)
ToBe(th, M) == IF th.pc = "mmPut" THEN Set(M, Head(th.plan), th.mm) ELSE M

LEMMA ListsAre ==
  ASSUME OneThread, NEW w \in Threads
  PROVE  ListsToBe = ToBe(t[w], mirrors) /\ ListsToBe' = ToBe(t'[w], mirrors')
<1>1. Threads = {w}
  BY DEF OneThread
<1>2. (CHOOSE v \in {w} : TRUE) = w
  OBVIOUS
<1>3. ListsToBe = ToBe(t[w], mirrors)
  <2>1. Putting = IF t[w].pc = "mmPut" THEN {w} ELSE {}
    BY <1>1 DEF Putting
  <2> QED
    BY <1>2, <2>1 DEF ListsToBe, ToBe
<1>4. ListsToBe' = ToBe(t'[w], mirrors')
  <2>1. Putting' = IF t'[w].pc = "mmPut" THEN {w} ELSE {}
    BY <1>1 DEF Putting
  <2> QED
    BY <1>2, <2>1 DEF ListsToBe, ToBe
<1> QED
  BY <1>3, <1>4

(* The step after which only mirrors.put is left adds the topic.           *)
LEMMA SendsAdd ==
  ASSUME OneThread, TypeInv, GrowInv, NEW w \in Threads, t[w].pc \in {"mmCreate", "mmWhitelist"},
         t'[w].pc = "mmPut", t'[w].plan = t[w].plan, t'[w].mm = t[w].mm, mirrors' = mirrors,
         agent' = agent \/ agent' = Set(agent, Head(t[w].plan), t[w].mm)
  PROVE  Whitelists!Next
<1> DEFINE th == t[w]
           b  == Head(th.plan)
<1>1. b \in Bridges /\ th.fqtn \in Topics /\ th.mm = Append(Listed(b, mirrors), th.fqtn)
  BY DEF TypeInv, TypeOK, ThreadOK, Thread, GrowInv, Appends, MmSteps
<1>2. ListsToBe = mirrors /\ ListsToBe' = Set(mirrors, b, th.mm)
  BY ListsAre DEF ToBe
<1> HIDE DEF th, b
<1>3. /\ DOMAIN ListsToBe' = DOMAIN ListsToBe \cup {b}
      /\ ListsToBe' = Whitelists!With(ListsToBe, b, th.mm) /\ ListsToBe'[b] = th.mm
  BY <1>2 DEF Set, Whitelists!With
<1>4. agent' \in {agent, Whitelists!With(agent, b, ListsToBe'[b])}
  BY <1>3 DEF Set, Whitelists!With, th, b
<1>5. ListsToBe' = Whitelists!With(ListsToBe, b,
        Append(IF b \in DOMAIN ListsToBe THEN ListsToBe[b] ELSE <<>>, th.fqtn))
  BY <1>1, <1>2, <1>3 DEF Listed
<1> QED
  BY <1>1, <1>3, <1>4, <1>5 DEF Whitelists!Next, Whitelists!Add

LEMMA GrowBridge ==
  ASSUME OneThread, TypeInv, GrowInv, NEW w \in Threads, BridgeNext(w)
  PROVE  GrowInv' /\ (Whitelists!Next \/ UNCHANGED <<ListsToBe, agent>>)
<1> DEFINE th == t[w]
           u  == t'[w]
           Keeps == Appends(u, mirrors')
           Maps  == Whitelists!Next \/ UNCHANGED <<ListsToBe, agent>>
<1>0. th \in Thread /\ ThreadOK(th) /\ Appends(th, mirrors)
  BY DEF TypeInv, TypeOK, GrowInv
<1>1. \A v \in Threads : v = w
  BY DEF OneThread
<1>2. ASSUME UNCHANGED <<agent, mirrors>>, th.pc # "mmPut", u.pc # "mmPut" PROVE Maps
  BY <1>2, ListsAre DEF ToBe
<1>3. CASE ~(ReadMm(w) \/ SendCreate(w) \/ SendWhitelist(w) \/ PutMm(w))
  <2>1. /\ th.pc \in {"bridge", "loc"} /\ UNCHANGED <<agent, mirrors>>
        /\ u.pc \in {"idle", "clusterInvalid", "putTopic", "revoke", "loc", "plan"}
    <3>1. CASE StartBridge(w) \/ EndBridge(w)
      <4>1. /\ th.pc \in {"bridge", "loc"} /\ UNCHANGED <<agent, mirrors>>
            /\ \/ u.pc = "loc" \/ u = ServerError
               \/ u = BridgeReturns(th, TRUE) \/ u = BridgeReturns(th, FALSE)
        BY <3>1, StartBridgeStep, EndBridgeStep DEF StartBridge, EndBridge, mrVars
      <4> HIDE DEF u, th
      <4>2. u = ServerError => u.pc = "idle"
        BY Replies DEF ServerError
      <4>3. u = Success \/ u = AddTopicReturns(th, FALSE) => u.pc \in {"idle", "clusterInvalid"}
        BY <1>0, Replies, Returns DEF Success, Over
      <4>4. u = BridgeReturns(th, TRUE) \/ u = BridgeReturns(th, FALSE)
              => u.pc \in {"idle", "putTopic", "revoke", "clusterInvalid"}
        BY <1>0, <4>3, ChecksBridge
      <4> QED
        BY <4>1, <4>2, <4>4
    <3>2. CASE VisitLoc(w)
      BY <3>2, VisitLocStep DEF VisitLoc, mrVars
    <3> QED
      BY <1>3, <3>1, <3>2 DEF BridgeNext
  <2> QED
    BY <1>1, <1>2, <2>1 DEF GrowInv, Appends, MmSteps
<1>4. CASE ReadMm(w)
  <2>1. th.pc = "plan" /\ UNCHANGED <<agent, mirrors>> /\ u.pc \in {"idle", "loc", "mmCreate"}
    <3>1. UNCHANGED <<agent, mirrors>>
      BY <1>4 DEF ReadMm, mrVars
    <3>2. th.pc = "plan" /\ (u = ServerError \/ u.pc \in {"loc", "mmCreate"})
      BY <1>4, ReadMmStep
    <3> QED
      BY <3>1, <3>2, Replies DEF ServerError
  <2>2. u.pc = "mmCreate" =>
          /\ u.mm = Append(Listed(Head(th.plan), mirrors), th.fqtn)
          /\ u.plan = th.plan /\ u.fqtn = th.fqtn
    BY <1>4, ReadMmStep, Replies DEF ServerError, Listed, KeepWork, KeepTopic
  <2>3. Keeps
    BY <2>1, <2>2 DEF Appends, MmSteps
  <2> QED
    BY <1>1, <1>2, <2>1, <2>3 DEF GrowInv
<1>5. CASE SendCreate(w) \/ SendWhitelist(w)
  <2>1. /\ th.pc \in {"mmCreate", "mmWhitelist"} /\ mirrors' = mirrors /\ u.fqtn = th.fqtn
        /\ u.mm = th.mm
        /\ \/ u.pc = "loc" /\ agent' = agent
           \/ u.pc = "mmWhitelist" /\ agent' = agent /\ u.plan = th.plan
           \/ /\ u.pc = "mmPut" /\ u.plan = th.plan
              /\ agent' = agent \/ agent' = Set(agent, Head(th.plan), th.mm)
    <3>1. CASE SendCreate(w)
      BY <3>1, SendCreateStep DEF SendCreate, mrVars, KeepBridge, KeepWork, KeepTopic
    <3>2. CASE SendWhitelist(w)
      BY <3>2, SendWhitelistStep DEF SendWhitelist, KeepBridge, KeepWork, KeepTopic
    <3> QED
      BY <1>5, <3>1, <3>2
  <2>2. Keeps
    BY <1>0, <2>1 DEF Appends, MmSteps
  <2>3. Maps
    <3>1. CASE u.pc = "mmPut"
      BY <2>1, <3>1, SendsAdd
    <3>2. CASE u.pc # "mmPut"
      BY <1>2, <2>1, <3>2
    <3> QED
      BY <3>1, <3>2
  <2> QED
    BY <1>1, <2>2, <2>3 DEF GrowInv
<1>6. CASE PutMm(w)
  <2>1. /\ th.pc = "mmPut" /\ agent' = agent /\ u.pc = "plan"
        /\ mirrors' = Set(mirrors, Head(th.plan), th.mm)
    BY <1>6, PutMmStep DEF PutMm, mrVars
  <2> QED
    BY <1>1, <2>1, ListsAre DEF GrowInv, Appends, MmSteps, ToBe
<1> QED
  BY <1>3, <1>4, <1>5, <1>6

(* The bridges of the provisioning implement Whitelist: a bridge's list,   *)
(* as of the message that carries it, is the list before with the one      *)
(* topic of the request at its end, whatever the topic's replication case, *)
(* the locations and the messages that are lost; no other bridge's list is *)
(* touched, nothing is ever taken off one, and the agent is told the list  *)
(* that is then stored or is told nothing                                  *)
(* (MirrorMakerService.updateMirrorMaker).  Requests come one after the    *)
(* other, and no exit falls between the message and mirrors.put.           *)
THEOREM BridgesImplementWhitelist ==
  ASSUME OneThread, NotKilled PROVE Spec => ListsOnlyGrow
<1>1. Init => GrowInv /\ Whitelists!Init
  <2>1. ASSUME Init PROVE GrowInv
    BY <2>1 DEF Init, GrowInv, Appends, Idle, MmSteps
  <2>2. ASSUME Init PROVE Whitelists!Init
    <3>1. Putting = {} /\ mirrors = <<>> /\ agent = <<>>
      BY <2>2 DEF Init, Putting, Idle
    <3> QED
      BY <3>1 DEF ListsToBe, Whitelists!Init
  <2> QED
    BY <2>1, <2>2
<1>2. TypeInv /\ GrowInv /\ [Next]_vars => GrowInv' /\ [Whitelists!Next]_<<ListsToBe, agent>>
  <2> SUFFICES ASSUME TypeInv, GrowInv, [Next]_vars
               PROVE  GrowInv' /\ (Whitelists!Next \/ UNCHANGED <<ListsToBe, agent>>)
    OBVIOUS
  <2>1. CASE \E w \in Threads : BridgeNext(w)
    BY <2>1, GrowBridge
  <2>2. ASSUME UNCHANGED <<agent, mirrors>>, NEW w \in Threads,
               t[w].pc \notin MmSteps, t'[w].pc \notin MmSteps
        PROVE  GrowInv' /\ UNCHANGED <<ListsToBe, agent>>
    <3>1. GrowInv'
      BY <2>2 DEF GrowInv, Appends, OneThread
    <3>2. ListsToBe' = ListsToBe
      BY <2>2, ListsAre DEF ToBe, MmSteps
    <3> QED
      BY <2>2, <3>1, <3>2
  <2>3. ASSUME NEW w \in Threads, Serve(w), ~BridgeNext(w)
        PROVE  GrowInv' /\ UNCHANGED <<ListsToBe, agent>>
    BY <2>2, <2>3, WhoBridges DEF MmSteps, Checking, InBridge
  <2>4. ASSUME NEW w \in Threads, Start(w)
        PROVE  GrowInv' /\ UNCHANGED <<ListsToBe, agent>>
    BY <2>2, <2>4, StartStep DEF FirstStep, MmSteps
  <2>5. CASE ExitProcess
    <3>1. PICK w \in Threads : CallsAaf(t[w])
      BY <2>5 DEF ExitProcess, NotKilled
    <3>2. t'[w].pc = "idle" /\ t[w].pc \notin MmSteps
      BY <2>5, <3>1 DEF ExitProcess, Idle, CallsAaf, MmSteps
    <3>3. UNCHANGED <<agent, mirrors>>
      BY <2>5 DEF ExitProcess, mrVars
    <3> QED
      BY <2>2, <3>2, <3>3 DEF MmSteps
  <2>6. CASE UNCHANGED vars
    BY <2>6 DEF vars, GrowInv, Appends, ListsToBe, Putting
  <2> QED
    BY <2>1, <2>3, <2>4, <2>5, <2>6 DEF Next, Finished
<1> QED
  BY <1>1, <1>2, InitType, NextType, PTL DEF Spec, ListsOnlyGrow, Whitelists!Spec

-----------------------------------------------------------------------------
(* A request comes to its end.  What the measure is, place by place.       *)
Closer(th, u) == Shorter(Remaining(u), Remaining(th))

LEMMA Stages ==
  ASSUME NEW th
  PROVE  /\ th.pc = "idle" => Stage(th) = 0
         /\ th.pc \in {"dropTopic", "clusterInvalid"} => Stage(th) = 1
         /\ th.pc \in {"revoke", "drop"} => Stage(th) = 2
         /\ th.pc = "find" => Stage(th) = IF th.rq.op = "deleteTopic" THEN 2 ELSE 7
         /\ th.pc \in {"list", "putTopic"} => Stage(th) = 3
         /\ th.pc \in InBridge => Stage(th) = 4
         /\ th.pc = "bridge" => Stage(th) = 5
         /\ th.pc \in {"view", "reread"} => Stage(th) = 6
         /\ th.pc \in {"next", "grant", "centrals", "post"} => Stage(th) = 7
         /\ th.pc \in {"perm", "topic"} => Stage(th) = 8
         /\ th.pc \in {"exists", "cluster"} => Stage(th) = 9
         /\ th.pc \in {"review", "central", "clusterLoc"} => Stage(th) = 10
         /\ th.pc \in {"clusterPut", "clusterRemove", "locPut", "locRemove", "overwrite"} =>
              Stage(th) = 11
         /\ th.pc \in {"clusterGet", "locGet", "lookup"} => Stage(th) = 12
  BY DEF Stage, InBridge

LEMMA RoundsAre ==
  ASSUME NEW th
  PROVE  /\ Stage(th) = 2 => Rounds(th) = Cardinality(th.dels)
         /\ Stage(th) = 4 => Rounds(th) = Cardinality(th.locs)
         /\ Stage(th) = 7 => Rounds(th) = Len(th.todo)
         /\ Stage(th) \notin {2, 4, 7} => Rounds(th) = 0
  BY DEF Rounds

LEMMA StepsAre ==
  ASSUME NEW th
  PROVE  /\ th.pc \in InBridge \ {"loc"} => Steps(th) = 1 + Len(th.plan)
         /\ th.pc = "grant" => Steps(th) = 3
         /\ th.pc = "centrals" => Steps(th) = 2
         /\ th.pc \in {"post", "find"} => Steps(th) = 1
         /\ th.pc \notin (InBridge \ {"loc"}) \cup {"grant", "centrals", "post", "find"} =>
              Steps(th) = 0
  BY DEF Steps, InBridge

LEMMA CallsAre ==
  ASSUME NEW th
  PROVE  /\ th.pc \in {"perm", "grant", "revoke"} => Calls(th) = Cardinality(th.left)
         /\ th.pc = "post" => Calls(th) = Cardinality(th.posts)
         /\ th.pc = "plan" => Calls(th) = 3
         /\ th.pc = "mmCreate" => Calls(th) = 2
         /\ th.pc = "mmWhitelist" => Calls(th) = 1
         /\ th.pc \notin {"perm", "grant", "revoke", "post", "plan", "mmCreate", "mmWhitelist"} =>
              Calls(th) = 0
  BY DEF Calls

LEMMA GetsCloser ==
  ASSUME NEW th, NEW u,
         \/ Stage(u) < Stage(th)
         \/ Stage(u) = Stage(th) /\ Rounds(u) < Rounds(th)
         \/ Stage(u) = Stage(th) /\ Rounds(u) = Rounds(th) /\ Steps(u) < Steps(th)
         \/ /\ Stage(u) = Stage(th) /\ Rounds(u) = Rounds(th) /\ Steps(u) = Steps(th)
            /\ Calls(u) < Calls(th)
  PROVE  Closer(th, u)
<1> DEFINE m == Remaining(u)
           n == Remaining(th)
<1>1. /\ m[1] = Stage(u) /\ m[2] = Rounds(u) /\ m[3] = Steps(u) /\ m[4] = Calls(u)
      /\ n[1] = Stage(th) /\ n[2] = Rounds(th) /\ n[3] = Steps(th) /\ n[4] = Calls(th)
  BY DEF Remaining
<1> HIDE DEF m, n
<1>2. PICK i \in 1..4 : m[i] < n[i] /\ \A j \in 1..4 : j < i => m[j] = n[j]
  <2>1. CASE m[1] < n[1]
    BY <2>1
  <2>2. CASE m[1] = n[1] /\ m[2] < n[2]
    BY <2>2
  <2>3. CASE m[1] = n[1] /\ m[2] = n[2] /\ m[3] < n[3]
    BY <2>3
  <2>4. CASE m[1] = n[1] /\ m[2] = n[2] /\ m[3] = n[3] /\ m[4] < n[4]
    BY <2>4
  <2> QED
    BY <1>1, <2>1, <2>2, <2>3, <2>4
<1>3. \A j \in 1..(i - 1) : m[j] = n[j]
  BY <1>2
<1> QED
  BY <1>2, <1>3 DEF Closer, Shorter, m, n

LEMMA Fewer ==
  ASSUME NEW S, IsFiniteSet(S), NEW x \in S
  PROVE  Cardinality(S \ {x}) < Cardinality(S)
<1>1. Cardinality(S) \in Nat
  BY FS_CardinalityType
<1>2. Cardinality(S \ {x}) = Cardinality(S) - 1
  BY FS_RemoveElement
<1> QED
  BY <1>1, <1>2

(* What the loops of a request rely on: they go over finite sets, and      *)
(* removeTopic removes a client that is still to be removed.               *)
LoopOK(th) ==
  /\ th.pc \notin {"idle", "clusterInvalid"} => IsFiniteSet(th.dels)
  /\ th.pc \in {"revoke", "drop"} /\ th.rq.op = "deleteTopic" => th.cur.id \in th.dels
LoopInv == IsFiniteSet(clients) /\ \A w \in Threads : LoopOK(t[w])

FiniteSystem == IsFiniteSet(Locs)

LEMMA FiniteWork ==
  ASSUME FiniteSystem, NEW th \in Thread
  PROVE  IsFiniteSet(th.locs) /\ IsFiniteSet(th.posts) /\ IsFiniteSet(th.left)
<1>1. th.locs \subseteq Locs /\ th.posts \subseteq Locs /\ th.left \subseteq Actions
  BY DEF Thread
<1>2. IsFiniteSet(Actions)
  <2>1. Actions = {"pub"} \cup {"sub"} \cup {"view"}
    BY DEF Actions
  <2> QED
    BY <2>1, FS_Singleton, FS_AddElement
<1> QED
  BY <1>1, <1>2, FS_Subset DEF FiniteSystem

(* A return out of a loop: the answer, or a place that needs less.         *)
LEMMA EndsClose ==
  ASSUME NEW th, NEW u, u.pc \in {"idle", "clusterInvalid"}, Stage(th) \in 2..12
  PROVE  Closer(th, u) /\ LoopOK(u)
<1>1. Stage(u) \in {0, 1}
  BY Stages
<1> QED
  BY <1>1, GetsCloser DEF LoopOK

LEMMA IdleCloses ==
  ASSUME NEW th \in Thread, th.pc # "idle", NEW u, u.pc = "idle"
  PROVE  Closer(th, u) /\ LoopOK(u)
<1>1. Stage(th) \in 1..12 /\ Stage(u) = 0
  BY Stages DEF Thread, InBridge
<1> QED
  BY <1>1, GetsCloser DEF LoopOK

LEMMA AnswersClose ==
  ASSUME NEW v \in Thread, NEW th, NEW u, Stage(th) \in 2..12,
         \/ u \in {ServerError, Success} \/ (\E code : u = Reply(code))
         \/ u = AddTopicReturns(v, TRUE) \/ u = AddTopicReturns(v, FALSE)
         \/ u = AddClientFails(v)
  PROVE  Closer(th, u) /\ LoopOK(u)
<1>1. CASE u \in {ServerError, Success} \/ \E code : u = Reply(code)
  <2>1. u.pc = "idle"
    BY <1>1, Replies DEF ServerError, Success
  <2> QED
    BY <2>1, EndsClose
<1>2. CASE u = AddTopicReturns(v, TRUE) \/ u = AddTopicReturns(v, FALSE)
           \/ u = AddClientFails(v)
  <2>1. Over(v, u)
    BY <1>2, Returns, Fails
  <2> QED
    BY <2>1, EndsClose DEF Over
<1> QED
  BY <1>1, <1>2

(* A step to an earlier stage that leaves dels alone.                      *)
LEMMA StageClose ==
  ASSUME NEW th, NEW u, Stage(u) \in Nat, Stage(th) \in Nat, Stage(u) < Stage(th),
         LoopOK(th), th.pc \notin {"idle", "clusterInvalid"}, u.dels = th.dels,
         u.pc \notin {"revoke", "drop"} \/ u.rq.op # "deleteTopic"
  PROVE  Closer(th, u) /\ LoopOK(u)
  BY GetsCloser DEF LoopOK

(* removeMr_Client returns: removeTopic has one client less to remove.     *)
LEMMA RemoveCloses ==
  ASSUME NEW th \in Thread, NEW v \in Thread, NEW u, u = RemoveClientReturns(v),
         KeepTopic(th, v), KeepClient(th, v), KeepLists(th, v),
         th.pc \in {"revoke", "drop"}, OpOK(th), LoopOK(th)
  PROVE  Closer(th, u) /\ LoopOK(u)
<1>1. Stage(th) = 2 /\ Rounds(th) = Cardinality(th.dels)
  BY Stages, RoundsAre
<1>2. \/ u.pc = "idle"
      \/ /\ th.rq.op # "deleteClient" /\ u.pc \in {"dropTopic", "find"}
         /\ u.dels = th.dels \ {th.cur.id} /\ u.rq = th.rq
  BY RemoveReturns DEF KeepTopic, KeepClient, KeepLists
<1>3. CASE u.pc = "idle"
  BY <1>1, <1>3, EndsClose
<1>4. CASE th.rq.op # "deleteClient" /\ u.pc \in {"dropTopic", "find"}
           /\ u.dels = th.dels \ {th.cur.id} /\ u.rq = th.rq
  <2>1. th.rq.op = "deleteTopic"
    BY <1>4 DEF OpOK
  <2>2. IsFiniteSet(th.dels) /\ th.cur.id \in th.dels
    BY <2>1 DEF LoopOK
  <2>3. IsFiniteSet(u.dels) /\ Cardinality(u.dels) < Cardinality(th.dels)
    BY <1>4, <2>2, Fewer, FS_RemoveElement
  <2>4. LoopOK(u)
    BY <1>4, <2>3 DEF LoopOK
  <2>5. CASE u.pc = "dropTopic"
    <3>1. Stage(u) = 1
      BY <2>5, Stages
    <3> QED
      BY <1>1, <2>4, <3>1, GetsCloser
  <2>6. CASE u.pc = "find"
    <3>1. Stage(u) = 2 /\ Rounds(u) = Cardinality(u.dels)
      BY <1>4, <2>1, <2>6, Stages, RoundsAre
    <3> QED
      BY <1>1, <2>3, <2>4, <3>1, GetsCloser
  <2> QED
    BY <1>4, <2>5, <2>6
<1> QED
  BY <1>2, <1>3, <1>4

(* Every step of addTopic and removeTopic gets closer to the end ...       *)
LEMMA TopicCloses ==
  ASSUME FiniteSystem, TypeInv, OpInv, LoopInv, NEW w \in Threads, TopicNext(w)
  PROVE  Closer(t[w], t'[w]) /\ LoopOK(t'[w])
<1> DEFINE th == t[w]
           u  == t'[w]
           Goal == Closer(th, u) /\ LoopOK(u)
<1>0. th \in Thread /\ LoopOK(th) /\ OpOK(th)
  BY DEF TypeInv, TypeOK, LoopInv, OpInv
<1>a. \A code \in {"conflict", "fail", "ok"} : [th EXCEPT !.err = code] \in Thread
  BY <1>0, SetsErr
<1>b. \A v \in Thread : Stage(th) \in 2..12 /\ u = AddTopicReturns(v, FALSE) => Goal
  BY AnswersClose
<1>c. \A v \in Thread : Stage(th) \in 2..12 /\ u = AddTopicReturns(v, TRUE) => Goal
  BY AnswersClose
<1>1. CASE Review(w)
  <2>1. th.pc = "review" /\ u.pc = "exists" /\ u.dels = th.dels
    BY <1>1, ReviewStep DEF KeepLists
  <2>2. Stage(th) = 10 /\ Stage(u) = 9
    BY <2>1, Stages
  <2> QED
    BY <1>0, <2>1, <2>2, StageClose
<1>2. CASE Exists(w)
  <2>1. th.pc = "exists" /\ Stage(th) = 9
    BY <1>2, Stages, ExistsStep
  <2>2. CASE u = AddTopicReturns([th EXCEPT !.err = "conflict"], FALSE)
    <3> DEFINE v == [th EXCEPT !.err = "conflict"]
    <3>1. v \in Thread /\ u = AddTopicReturns(v, FALSE)
      BY <1>a, <2>2
    <3> HIDE DEF v
    <3>2. Stage(th) \in 2..12
      BY <2>1
    <3> QED
      BY <1>b, <3>1, <3>2
  <2>3. CASE u.pc = "perm" /\ KeepLists(th, u)
    <3>1. Stage(u) = 8
      BY <2>3, Stages
    <3> QED
      BY <1>0, <2>1, <2>3, <3>1, StageClose DEF KeepLists
  <2> QED
    BY <1>2, <2>2, <2>3, ExistsStep
<1>3. CASE AddPerm(w)
  <2>1. th.pc = "perm" /\ Stage(th) = 8 /\ Rounds(th) = 0 /\ Steps(th) = 0
        /\ Calls(th) = Cardinality(th.left)
    <3>1. th.pc = "perm"
      BY <1>3, AddPermStep
    <3>2. Stage(th) = 8
      BY <3>1, Stages
    <3> QED
      BY <3>1, <3>2, RoundsAre, StepsAre, CallsAre DEF InBridge
  <2>2. CASE u = AddTopicReturns([th EXCEPT !.err = "fail"], FALSE)
    <3> DEFINE v == [th EXCEPT !.err = "fail"]
    <3>1. v \in Thread /\ u = AddTopicReturns(v, FALSE)
      BY <1>a, <2>2
    <3> HIDE DEF v
    <3>2. Stage(th) \in 2..12
      BY <2>1
    <3> QED
      BY <1>b, <3>1, <3>2
  <2>3. CASE u.pc = "next" /\ KeepLists(th, u)
    <3>1. Stage(u) = 7
      BY <2>3, Stages
    <3> QED
      BY <1>0, <2>1, <2>3, <3>1, StageClose DEF KeepLists
  <2>4. CASE u.pc = "perm" /\ KeepLists(th, u) /\ \E a \in th.left : u.left = th.left \ {a}
    <3>1. Stage(u) = 8 /\ Rounds(u) = 0 /\ Steps(u) = 0 /\ Calls(u) = Cardinality(u.left)
      <4>1. u.pc = "perm"
        BY <2>4
      <4>2. Stage(u) = 8
        BY <4>1, Stages
      <4> QED
        BY <4>1, <4>2, RoundsAre, StepsAre, CallsAre DEF InBridge
    <3>2. Cardinality(u.left) < Cardinality(th.left)
      BY <1>0, <2>4, FiniteWork, Fewer
    <3>3. LoopOK(u)
      BY <1>0, <2>1, <2>4 DEF LoopOK, KeepLists
    <3> QED
      BY <2>1, <3>1, <3>2, <3>3, GetsCloser
  <2> QED
    BY <1>3, <2>2, <2>3, <2>4, AddPermStep
<1>4. CASE NextClient(w)
  <2>1. th.pc = "next" /\ Stage(th) = 7 /\ Rounds(th) = Len(th.todo)
    BY <1>4, Stages, RoundsAre, NextClientStep
  <2>2. CASE u.pc = "bridge" /\ KeepLists(th, u)
    <3>1. Stage(u) = 5
      BY <2>2, Stages
    <3> QED
      BY <1>0, <2>1, <2>2, <3>1, StageClose DEF KeepLists
  <2>3. CASE /\ th.todo # <<>> /\ u.pc \in {"grant", "next"}
             /\ u.todo = Tail(th.todo) /\ u.dels = th.dels
    <3>1. Stage(u) = 7 /\ Rounds(u) = Len(u.todo)
      BY <2>3, Stages, RoundsAre
    <3>2. th.todo \in Seq(ClientSpec)
      BY <1>0 DEF Thread
    <3>3. Len(Tail(th.todo)) < Len(th.todo)
      BY <2>3, <3>2
    <3>4. LoopOK(u)
      BY <1>0, <2>1, <2>3 DEF LoopOK
    <3> QED
      BY <2>1, <2>3, <3>1, <3>3, <3>4, GetsCloser
  <2>4. CASE th.todo # <<>> /\ u = AddTopicReturns([th EXCEPT !.todo = Tail(th.todo)], FALSE)
    <3>1. Tail(th.todo) \in Seq(ClientSpec)
      BY <1>0, <2>4 DEF Thread
    <3> DEFINE v == [th EXCEPT !.todo = Tail(th.todo)]
    <3>2. v \in Thread /\ u = AddTopicReturns(v, FALSE)
      BY <1>0, <2>4, <3>1 DEF Thread
    <3> HIDE DEF v
    <3>3. Stage(th) \in 2..12
      BY <2>1
    <3> QED
      BY <1>b, <3>2, <3>3
  <2> QED
    BY <1>4, <2>2, <2>3, <2>4, NextClientStep
<1>5. CASE PutTopic(w)
  <2>1. th.pc = "putTopic" /\ Stage(th) = 3
    BY <1>5, Stages, PutTopicStep
  <2>2. CASE u = AddTopicReturns([th EXCEPT !.err = "ok"], TRUE)
    <3> DEFINE v == [th EXCEPT !.err = "ok"]
    <3>1. v \in Thread /\ u = AddTopicReturns(v, TRUE)
      BY <1>a, <2>2
    <3> HIDE DEF v
    <3>2. Stage(th) \in 2..12
      BY <2>1
    <3> QED
      BY <1>c, <3>1, <3>2
  <2>3. CASE /\ th.rq.op = "deleteClient" /\ u.pc = "revoke"
             /\ KeepTopic(th, u) /\ KeepLists(th, u)
    <3>1. Stage(u) = 2
      BY <2>3, Stages
    <3> QED
      BY <1>0, <2>1, <2>3, <3>1, StageClose DEF KeepLists, KeepTopic
  <2> QED
    BY <1>5, <2>2, <2>3, PutTopicStep
<1>6. CASE ListClients(w)
  <2>1. th.pc = "list" /\ Stage(th) = 3 /\ th.rq.op = "deleteTopic"
    BY <1>0, <1>6, Stages, ListClientsStep DEF OpOK
  <2>2. CASE u = Reply("notFound")
    <3>1. u.pc = "idle"
      BY <2>2, Replies
    <3> QED
      BY <2>1, <3>1, EndsClose
  <2>3. CASE /\ u.pc \in {"dropTopic", "find"} /\ KeepTopic(th, u)
             /\ u.dels = {c.id : c \in ClientsOf(th.fqtn)}
    <3>1. Stage(u) \in {1, 2}
      BY <2>1, <2>3, Stages DEF KeepTopic
    <3>2. IsFiniteSet(ClientsOf(th.fqtn))
      BY FS_Subset DEF LoopInv, ClientsOf
    <3>3. IsFiniteSet(u.dels)
      <4> DEFINE S == ClientsOf(th.fqtn)
                 f == [c \in S |-> c.id]
      <4>1. f \in Surjection(S, u.dels)
        BY <2>3 DEF Surjection
      <4> QED
        BY <3>2, <4>1, FS_Surjection
    <3>4. LoopOK(u)
      BY <2>3, <3>3 DEF LoopOK
    <3> QED
      BY <2>1, <3>1, <3>4, GetsCloser
  <2> QED
    BY <1>6, <2>2, <2>3, ListClientsStep
<1>7. CASE DropTopic(w)
  <2>1. th.pc = "dropTopic" /\ u.pc = "idle"
    BY <1>7, Replies, DropTopicStep DEF Success
  <2>2. Stage(th) = 1 /\ Stage(u) = 0
    BY <2>1, Stages
  <2> QED
    BY <2>1, <2>2, GetsCloser DEF LoopOK
<1> QED
  BY <1>1, <1>2, <1>3, <1>4, <1>5, <1>6, <1>7 DEF TopicNext

(* ... and so does every step of the services of clients, ...              *)
LEMMA ClientCloses ==
  ASSUME FiniteSystem, TypeInv, OpInv, LoopInv, NEW w \in Threads, ClientNext(w)
  PROVE  Closer(t[w], t'[w]) /\ LoopOK(t'[w])
<1> DEFINE th == t[w]
           u  == t'[w]
           Goal == Closer(th, u) /\ LoopOK(u)
<1>0. th \in Thread /\ LoopOK(th) /\ OpOK(th)
  BY DEF TypeInv, TypeOK, LoopInv, OpInv
<1>a. [th EXCEPT !.err = "fail"] \in Thread
  BY <1>0, SetsErr
<1>b. \A v \in Thread : Stage(th) \in 2..12 /\ u = AddClientFails(v) => Goal
  BY AnswersClose
<1>c. (u \in {ServerError, Success} \/ \E code : u = Reply(code)) /\ th.pc # "idle" => Goal
  <2>1. (u \in {ServerError, Success} \/ \E code : u = Reply(code)) => u.pc = "idle"
    BY Replies DEF ServerError, Success
  <2> QED
    BY <1>0, <2>1, IdleCloses
<1>1. CASE FindCluster(w)
  <2>1. th.pc = "cluster" /\ Stage(th) = 9
    BY <1>1, Stages, FindClusterStep
  <2>2. CASE u.pc = "topic" /\ KeepLists(th, u)
    <3>1. Stage(u) = 8
      BY <2>2, Stages
    <3> QED
      BY <1>0, <2>1, <2>2, <3>1, StageClose DEF KeepLists
  <2> QED
    BY <1>1, <1>c, <2>1, <2>2, FindClusterStep
<1>2. CASE FindTopic(w)
  <2>1. th.pc = "topic" /\ Stage(th) = 8
    BY <1>2, Stages, FindTopicStep
  <2>2. CASE u.pc = "grant" /\ KeepLists(th, u)
    <3>1. Stage(u) = 7
      BY <2>2, Stages
    <3> QED
      BY <1>0, <2>1, <2>2, <3>1, StageClose DEF KeepLists
  <2> QED
    BY <1>2, <1>c, <2>1, <2>2, FindTopicStep
<1>3. CASE Grant(w)
  <2>1. th.pc = "grant" /\ Stage(th) = 7 /\ Rounds(th) = Len(th.todo) /\ Steps(th) = 3
        /\ Calls(th) = Cardinality(th.left)
    <3>1. th.pc = "grant"
      BY <1>3, GrantStep
    <3>2. Stage(th) = 7
      BY <3>1, Stages
    <3> QED
      BY <3>1, <3>2, RoundsAre, StepsAre, CallsAre
  <2>2. CASE u = AddClientFails([th EXCEPT !.err = "fail"])
    <3> DEFINE v == [th EXCEPT !.err = "fail"]
    <3>1. v \in Thread /\ u = AddClientFails(v)
      BY <1>a, <2>2
    <3> HIDE DEF v
    <3>2. Stage(th) \in 2..12
      BY <2>1
    <3> QED
      BY <1>b, <3>1, <3>2
  <2>3. CASE u.pc = "grant" /\ KeepLists(th, u) /\ \E a \in th.left : u.left = th.left \ {a}
    <3>1. Stage(u) = 7 /\ Rounds(u) = Len(th.todo) /\ Steps(u) = 3
          /\ Calls(u) = Cardinality(u.left)
      <4>1. u.pc = "grant"
        BY <2>3
      <4>2. Stage(u) = 7
        BY <4>1, Stages
      <4> QED
        BY <2>3, <4>1, <4>2, RoundsAre, StepsAre, CallsAre DEF KeepLists
    <3>2. Cardinality(u.left) < Cardinality(th.left)
      BY <1>0, <2>3, FiniteWork, Fewer
    <3>3. LoopOK(u)
      BY <1>0, <2>1, <2>3 DEF LoopOK, KeepLists
    <3> QED
      BY <2>1, <3>1, <3>2, <3>3, GetsCloser
  <2>4. CASE u.pc \in {"reread", "next"} /\ u.todo = th.todo /\ u.dels = th.dels
    <3>1. CASE u.pc = "reread"
      <4>1. Stage(u) = 6
        BY <3>1, Stages
      <4> QED
        BY <1>0, <2>1, <2>4, <3>1, <4>1, StageClose
    <3>2. CASE u.pc = "next"
      <4>1. Stage(u) = 7
        BY <3>2, Stages
      <4>2. Rounds(u) = Rounds(th)
        BY <2>1, <2>4, <4>1, RoundsAre
      <4>3. Steps(u) = 0
        BY <3>2, StepsAre DEF InBridge
      <4>4. LoopOK(u)
        BY <1>0, <2>1, <2>4, <3>2 DEF LoopOK
      <4> QED
        BY <2>1, <4>1, <4>2, <4>3, <4>4, GetsCloser
    <3> QED
      BY <2>4, <3>1, <3>2
  <2> QED
    BY <1>3, <2>2, <2>3, <2>4, GrantStep
<1>4. CASE Place(w)
  <2>1. th.pc = "grant" /\ u.pc \in {"centrals", "post"} /\ KeepLists(th, u)
    BY <1>4, PlaceStep
  <2>2. Stage(th) = 7 /\ Stage(u) = 7
    BY <2>1, Stages
  <2>3. Rounds(u) = Rounds(th)
    BY <2>1, <2>2, RoundsAre DEF KeepLists
  <2>4. Steps(th) = 3 /\ Steps(u) \in {1, 2}
    BY <2>1, StepsAre
  <2>5. LoopOK(u)
    BY <1>0, <2>1 DEF LoopOK, KeepLists
  <2> QED
    BY <2>2, <2>3, <2>4, <2>5, GetsCloser
<1>5. CASE ListCentrals(w)
  <2>1. th.pc = "centrals"
    BY <1>5, ListCentralsStep
  <2>2. CASE u.pc = "post" /\ KeepLists(th, u)
    <3>1. Stage(th) = 7 /\ Stage(u) = 7
      BY <2>1, <2>2, Stages
    <3>2. Rounds(u) = Rounds(th)
      BY <2>2, <3>1, RoundsAre DEF KeepLists
    <3>3. Steps(th) = 2 /\ Steps(u) = 1
      BY <2>1, <2>2, StepsAre
    <3>4. LoopOK(u)
      BY <1>0, <2>1, <2>2 DEF LoopOK, KeepLists
    <3> QED
      BY <3>1, <3>2, <3>3, <3>4, GetsCloser
  <2> QED
    BY <1>5, <1>c, <2>1, <2>2, ListCentralsStep
<1>6. CASE PostToCluster(w)
  <2>1. th.pc = "post" /\ Stage(th) = 7 /\ Rounds(th) = Len(th.todo) /\ Steps(th) = 1
        /\ Calls(th) = Cardinality(th.posts)
    <3>1. th.pc = "post"
      BY <1>6, PostToClusterStep
    <3>2. Stage(th) = 7
      BY <3>1, Stages
    <3> QED
      BY <3>1, <3>2, RoundsAre, StepsAre, CallsAre
  <2>2. CASE u = AddClientFails([th EXCEPT !.err = "fail"])
    <3> DEFINE v == [th EXCEPT !.err = "fail"]
    <3>1. v \in Thread /\ u = AddClientFails(v)
      BY <1>a, <2>2
    <3> HIDE DEF v
    <3>2. Stage(th) \in 2..12
      BY <2>1
    <3> QED
      BY <1>b, <3>1, <3>2
  <2>3. CASE u = AddClientFails(th)
    <3>1. Stage(th) \in 2..12
      BY <2>1
    <3> QED
      BY <1>0, <1>b, <2>3, <3>1
  <2>4. CASE u.pc = "post" /\ KeepLists(th, u) /\ \E l \in th.posts : u.posts = th.posts \ {l}
    <3>1. Stage(u) = 7 /\ Rounds(u) = Len(th.todo) /\ Steps(u) = 1
          /\ Calls(u) = Cardinality(u.posts)
      <4>1. u.pc = "post"
        BY <2>4
      <4>2. Stage(u) = 7
        BY <4>1, Stages
      <4> QED
        BY <2>4, <4>1, <4>2, RoundsAre, StepsAre, CallsAre DEF KeepLists
    <3>2. Cardinality(u.posts) < Cardinality(th.posts)
      BY <1>0, <2>4, FiniteWork, Fewer
    <3>3. LoopOK(u)
      BY <1>0, <2>1, <2>4 DEF LoopOK, KeepLists
    <3> QED
      BY <2>1, <3>1, <3>2, <3>3, GetsCloser
  <2> QED
    BY <1>6, <2>2, <2>3, <2>4, PostToClusterStep
<1>7. CASE StoreClient(w)
  <2>1. /\ th.pc = "post" /\ u.dels = th.dels /\ u.todo = th.todo
        /\ u.pc \in {"reread", "next"}
    BY <1>7, StoreClientStep
  <2>2. Stage(th) = 7 /\ Steps(th) = 1
    BY <2>1, Stages, StepsAre
  <2>3. CASE u.pc = "reread"
    <3>1. Stage(u) = 6
      BY <2>3, Stages
    <3> QED
      BY <1>0, <2>1, <2>2, <2>3, <3>1, StageClose
  <2>4. CASE u.pc = "next"
    <3>1. Stage(u) = 7
      BY <2>4, Stages
    <3>2. Rounds(u) = Rounds(th)
      BY <2>1, <2>2, <3>1, RoundsAre
    <3>3. Steps(u) = 0
      BY <2>4, StepsAre DEF InBridge
    <3>4. LoopOK(u)
      BY <1>0, <2>1, <2>4 DEF LoopOK
    <3> QED
      BY <2>2, <3>1, <3>2, <3>3, <3>4, GetsCloser
  <2> QED
    BY <2>1, <2>3, <2>4
<1>8. CASE Reread(w)
  <2>1. th.pc = "reread" /\ Stage(th) = 6
    BY <1>8, Stages, RereadStep
  <2>2. CASE u.pc = "bridge" /\ u.dels = th.dels
    <3>1. Stage(u) = 5
      BY <2>2, Stages
    <3> QED
      BY <1>0, <2>1, <2>2, <3>1, StageClose
  <2> QED
    BY <1>8, <1>c, <2>1, <2>2, RereadStep
<1>9. CASE LookupClient(w)
  <2>1. th.pc = "lookup" /\ u.pc = "overwrite" /\ u.dels = th.dels
    BY <1>9, LookupClientStep
  <2>2. Stage(th) = 12 /\ Stage(u) = 11
    BY <2>1, Stages
  <2> QED
    BY <1>0, <2>1, <2>2, StageClose
<1>10. CASE OverwriteClient(w)
  BY <1>10, <1>c, OverwriteClientStep
<1>11. CASE FindClient(w)
  <2>1. th.pc = "find" /\ th.rq.op \in {"deleteTopic", "deleteClient"}
    BY <1>0, <1>11, FindClientStep DEF OpOK
  <2>2. CASE /\ u.cur.id \in th.dels /\ KeepTopic(th, u) /\ KeepLists(th, u)
             /\ u.pc = IF th.rq.op = "deleteClient" THEN "view" ELSE "revoke"
    <3>1. LoopOK(u)
      BY <1>0, <2>1, <2>2 DEF LoopOK, KeepLists
    <3>2. CASE th.rq.op = "deleteClient"
      <4>1. Stage(th) = 7 /\ Stage(u) = 6
        BY <2>1, <2>2, <3>2, Stages
      <4> QED
        BY <3>1, <4>1, GetsCloser
    <3>3. CASE th.rq.op = "deleteTopic"
      <4>1. Stage(th) = 2 /\ Stage(u) = 2
        BY <2>1, <2>2, <3>3, Stages
      <4>2. Rounds(u) = Rounds(th)
        BY <2>2, <4>1, RoundsAre DEF KeepLists
      <4>3. Steps(th) = 1 /\ Steps(u) = 0
        BY <2>1, <2>2, <3>3, StepsAre DEF InBridge
      <4> QED
        BY <3>1, <4>1, <4>2, <4>3, GetsCloser
    <3> QED
      BY <2>1, <3>2, <3>3
  <2> QED
    BY <1>11, <1>c, <2>1, <2>2, FindClientStep
<1>12. CASE ViewTopic(w)
  <2>1. /\ th.pc = "view" /\ u.dels = th.dels /\ u.rq = th.rq
        /\ u.pc \in {"revoke", "bridge"} /\ th.rq.op = "deleteClient"
    BY <1>0, <1>12, ViewTopicStep DEF OpOK
  <2>2. Stage(th) = 6 /\ Stage(u) \in {2, 5}
    BY <2>1, Stages
  <2> QED
    BY <1>0, <2>1, <2>2, StageClose
<1>13. CASE RevokeGrant(w)
  <2>1. th.pc = "revoke"
    BY <1>13, RevokeGrantStep
  <2>2. CASE u = RemoveClientReturns([th EXCEPT !.err = "fail"])
    <3> DEFINE v == [th EXCEPT !.err = "fail"]
    <3>1. /\ v \in Thread /\ u = RemoveClientReturns(v)
          /\ KeepTopic(th, v) /\ KeepClient(th, v) /\ KeepLists(th, v)
      BY <1>0, <2>2, SetsErr
    <3> HIDE DEF v
    <3> QED
      BY <1>0, <2>1, <3>1, RemoveCloses
  <2>3. CASE /\ u.pc = "revoke" /\ KeepTopic(th, u) /\ KeepLists(th, u) /\ u.cur = th.cur
             /\ \E a \in th.left : u.left = th.left \ {a}
    <3>1. Stage(th) = 2 /\ Stage(u) = 2
      BY <2>1, <2>3, Stages
    <3>2. Rounds(u) = Rounds(th)
      BY <2>3, <3>1, RoundsAre DEF KeepLists
    <3>3. Steps(u) = 0 /\ Steps(th) = 0
      BY <2>1, <2>3, StepsAre DEF InBridge
    <3>4. Calls(u) = Cardinality(u.left) /\ Calls(th) = Cardinality(th.left)
      BY <2>1, <2>3, CallsAre
    <3>5. Cardinality(u.left) < Cardinality(th.left)
      BY <1>0, <2>3, FiniteWork, Fewer
    <3>6. LoopOK(u)
      BY <1>0, <2>1, <2>3 DEF LoopOK, KeepLists, KeepTopic
    <3> QED
      BY <3>1, <3>2, <3>3, <3>4, <3>5, <3>6, GetsCloser
  <2>4. CASE /\ u.pc = "drop" /\ KeepTopic(th, u) /\ KeepLists(th, u) /\ u.cur = th.cur
             /\ th.left # {}
    <3>1. Stage(th) = 2 /\ Stage(u) = 2
      BY <2>1, <2>4, Stages
    <3>2. Rounds(u) = Rounds(th)
      BY <2>4, <3>1, RoundsAre DEF KeepLists
    <3>3. Steps(u) = 0 /\ Steps(th) = 0
      BY <2>1, <2>4, StepsAre DEF InBridge
    <3>4. Calls(u) = 0 /\ Calls(th) = Cardinality(th.left)
      BY <2>1, <2>4, CallsAre
    <3>5. 0 < Cardinality(th.left)
      <4>1. IsFiniteSet(th.left)
        BY <1>0, FiniteWork
      <4> QED
        BY <2>4, <4>1, FS_EmptySet, FS_CardinalityType
    <3>6. LoopOK(u)
      BY <1>0, <2>1, <2>4 DEF LoopOK, KeepLists, KeepTopic
    <3> QED
      BY <3>1, <3>2, <3>3, <3>4, <3>5, <3>6, GetsCloser
  <2> QED
    BY <1>13, <2>2, <2>3, <2>4, RevokeGrantStep DEF KeepClient
<1>14. CASE DropClient(w)
  <2>1. th.pc \in {"revoke", "drop"} /\ u = RemoveClientReturns(th)
    BY <1>14, DropClientStep
  <2>2. KeepTopic(th, th) /\ KeepClient(th, th) /\ KeepLists(th, th)
    BY DEF KeepTopic, KeepClient, KeepLists
  <2>3. Goal
    BY <1>0, <2>1, <2>2, RemoveCloses
  <2> QED
    BY <2>3
<1> QED
  BY <1>1, <1>2, <1>3, <1>4, <1>5, <1>6, <1>7, <1>8, <1>9, <1>10, <1>11, <1>12, <1>13,
     <1>14 DEF ClientNext

(* ... of checkForBridge, ...                                              *)
LEMMA BridgeEnds ==
  ASSUME TypeInv, OpInv, LoopInv, NEW w \in Threads, t[w].pc \in {"bridge", "loc"},
         NEW valid \in BOOLEAN, t'[w] = BridgeReturns(t[w], valid)
  PROVE  Closer(t[w], t'[w]) /\ LoopOK(t'[w])
<1> DEFINE th == t[w]
           u  == t'[w]
<1>0. th \in Thread /\ LoopOK(th) /\ Stage(th) \in {4, 5}
  BY Stages DEF TypeInv, TypeOK, LoopInv, InBridge
<1>1. CASE u = Success \/ u = AddTopicReturns(th, FALSE)
  <2>1. Stage(th) \in 2..12
    BY <1>0
  <2>2. u \in {ServerError, Success} \/ u = AddTopicReturns(th, FALSE)
    BY <1>1
  <2> QED
    BY <1>0, <2>1, <2>2, AnswersClose
<1>2. CASE /\ th.rq.op # "postClient" /\ (th.rq.op = "deleteClient" \/ valid)
           /\ u.pc = IF th.rq.op = "deleteClient" /\ ~valid THEN "revoke" ELSE "putTopic"
           /\ KeepWork(th, u)
  <2>1. u.dels = th.dels /\ u.rq = th.rq
    BY <1>2 DEF KeepWork, KeepLists, KeepTopic
  <2>2. Stage(u) \in {2, 3}
    BY <1>2, Stages
  <2>3. u.pc \notin {"revoke", "drop"} \/ u.rq.op # "deleteTopic"
    BY <1>2, <2>1
  <2> QED
    BY <1>0, <2>1, <2>2, <2>3, StageClose
<1> QED
  BY <1>0, <1>1, <1>2, ChecksBridge

LEMMA BridgeCloses ==
  ASSUME FiniteSystem, TypeInv, OpInv, LoopInv, NEW w \in Threads, BridgeNext(w)
  PROVE  Closer(t[w], t'[w]) /\ LoopOK(t'[w])
<1> DEFINE th == t[w]
           u  == t'[w]
           Goal == Closer(th, u) /\ LoopOK(u)
<1>0. th \in Thread /\ LoopOK(th) /\ ThreadOK(th) /\ th.plan \in Seq(Bridges \cup {Npe})
  BY DEF TypeInv, TypeOK, LoopInv, Thread
<1>a. th.pc # "idle" /\ u = ServerError => Goal
  <2>1. u = ServerError => u.pc = "idle"
    BY Replies DEF ServerError
  <2> QED
    BY <1>0, <2>1, IdleCloses
<1>b. KeepWork(th, u) /\ th.pc \in {"bridge"} \cup InBridge /\ u.pc \notin {"revoke", "drop"}
        => LoopOK(u)
  BY <1>0 DEF KeepWork, KeepLists, LoopOK, InBridge
<1>c. th.pc \in InBridge => Stage(th) = 4 /\ Rounds(th) = Cardinality(th.locs)
  BY Stages, RoundsAre
<1>d. u.pc \in InBridge => Stage(u) = 4 /\ Rounds(u) = Cardinality(u.locs)
  BY Stages, RoundsAre
<1>1. CASE StartBridge(w)
  <2>1. th.pc = "bridge" /\ Stage(th) = 5
    BY <1>1, StartBridgeStep, Stages
  <2>2. CASE u.pc = "loc" /\ KeepWork(th, u)
    <3>1. Stage(u) = 4
      BY <1>d, <2>2 DEF InBridge
    <3> QED
      BY <1>b, <2>1, <2>2, <3>1, GetsCloser
  <2>3. CASE u = BridgeReturns(th, TRUE)
    BY <2>1, <2>3, BridgeEnds
  <2> QED
    BY <1>1, <1>a, <2>1, <2>2, <2>3, StartBridgeStep
<1>2. CASE VisitLoc(w)
  <2>1. PICK l \in th.locs : u.locs = th.locs \ {l} /\ u.pc \in {"loc", "plan"}
    BY <1>2, VisitLocStep
  <2>2. th.pc = "loc" /\ KeepWork(th, u)
    BY <1>2, VisitLocStep
  <2>3. Cardinality(u.locs) < Cardinality(th.locs)
    BY <1>0, <2>1, FiniteWork, Fewer
  <2> QED
    BY <1>b, <1>c, <1>d, <2>1, <2>2, <2>3, GetsCloser DEF InBridge
<1>3. CASE EndBridge(w)
  <2>1. th.pc = "loc" /\ u = BridgeReturns(th, ~th.wrong)
    BY <1>3, EndBridgeStep
  <2>2. (~th.wrong) \in BOOLEAN
    OBVIOUS
  <2> QED
    BY <2>1, <2>2, BridgeEnds
<1>4. CASE ReadMm(w)
  <2>1. th.pc = "plan" /\ Steps(th) = 1 + Len(th.plan) /\ Calls(th) = 3
    <3>1. th.pc = "plan"
      BY <1>4, ReadMmStep
    <3> QED
      BY <3>1, StepsAre, CallsAre DEF InBridge
  <2>2. CASE KeepWork(th, u) /\ u.locs = th.locs /\ u.plan = th.plan /\ u.pc = "loc"
    <3>1. Steps(u) = 0
      BY <2>2, StepsAre DEF InBridge
    <3>2. Stage(u) = Stage(th) /\ Rounds(u) = Rounds(th)
      BY <1>c, <1>d, <2>1, <2>2 DEF InBridge
    <3>3. Steps(u) < Steps(th)
      BY <1>0, <2>1, <3>1
    <3> QED
      BY <1>b, <2>1, <2>2, <3>2, <3>3, GetsCloser DEF InBridge
  <2>3. CASE KeepWork(th, u) /\ u.locs = th.locs /\ u.plan = th.plan /\ u.pc = "mmCreate"
    <3>1. Steps(u) = 1 + Len(th.plan) /\ Calls(u) = 2
      BY <2>3, StepsAre, CallsAre DEF InBridge
    <3>2. Stage(u) = Stage(th) /\ Rounds(u) = Rounds(th)
      BY <1>c, <1>d, <2>1, <2>3 DEF InBridge
    <3> QED
      BY <1>b, <2>1, <2>3, <3>1, <3>2, GetsCloser DEF InBridge
  <2> QED
    BY <1>4, <1>a, <2>1, <2>2, <2>3, ReadMmStep
<1>5. CASE SendCreate(w)
  <2>1. th.pc = "mmCreate" /\ KeepWork(th, u) /\ Steps(th) = 1 + Len(th.plan) /\ Calls(th) = 2
    <3>1. th.pc = "mmCreate" /\ KeepWork(th, u)
      BY <1>5, SendCreateStep
    <3> QED
      BY <3>1, StepsAre, CallsAre DEF InBridge
  <2>2. CASE u.locs = {} /\ u.pc = "loc"
    <3>1. Stage(u) = Stage(th) /\ Rounds(u) = 0 /\ Rounds(th) = Cardinality(th.locs)
      BY <1>c, <1>d, <2>1, <2>2, FS_EmptySet DEF InBridge
    <3>2. Cardinality(th.locs) \in Nat
      BY <1>0, FiniteWork, FS_CardinalityType
    <3>3. Steps(u) = 0
      BY <2>2, StepsAre DEF InBridge
    <3>4. Steps(u) < Steps(th)
      BY <1>0, <2>1, <3>3
    <3>5. Rounds(u) < Rounds(th) \/ Rounds(u) = Rounds(th)
      BY <3>1, <3>2
    <3> QED
      BY <1>b, <2>1, <2>2, <3>1, <3>4, <3>5, GetsCloser DEF InBridge
  <2>3. CASE u.pc \in {"mmPut", "mmWhitelist"} /\ KeepBridge(th, u)
    <3>1. u.locs = th.locs /\ u.plan = th.plan
      BY <2>3 DEF KeepBridge
    <3>2. Steps(u) = Steps(th) /\ Calls(u) \in {0, 1}
      BY <2>1, <2>3, <3>1, StepsAre, CallsAre DEF InBridge
    <3>3. Stage(u) = Stage(th) /\ Rounds(u) = Rounds(th)
      BY <1>c, <1>d, <2>1, <2>3, <3>1 DEF InBridge
    <3>4. Calls(u) < Calls(th)
      BY <2>1, <3>2
    <3> QED
      BY <1>b, <2>1, <2>3, <3>2, <3>3, <3>4, GetsCloser DEF InBridge
  <2> QED
    BY <1>5, <2>2, <2>3, SendCreateStep
<1>6. CASE SendWhitelist(w)
  <2>1. th.pc = "mmWhitelist" /\ u.pc = "mmPut" /\ KeepWork(th, u)
        /\ u.locs = th.locs /\ u.plan = th.plan
    BY <1>6, SendWhitelistStep DEF KeepBridge
  <2>2. Steps(u) = Steps(th) /\ Calls(th) = 1 /\ Calls(u) = 0
    BY <2>1, StepsAre, CallsAre DEF InBridge
  <2>3. Stage(u) = Stage(th) /\ Rounds(u) = Rounds(th)
    BY <1>c, <1>d, <2>1 DEF InBridge
  <2> QED
    BY <1>b, <2>1, <2>2, <2>3, GetsCloser DEF InBridge
<1>7. CASE PutMm(w)
  <2>1. th.pc = "mmPut" /\ u.pc = "plan" /\ KeepWork(th, u)
        /\ u.locs = th.locs /\ u.plan = Tail(th.plan)
    BY <1>7, PutMmStep
  <2>2. Steps(th) = 1 + Len(th.plan) /\ Steps(u) = 1 + Len(Tail(th.plan))
    BY <2>1, StepsAre DEF InBridge
  <2>3. Len(Tail(th.plan)) < Len(th.plan) /\ Len(th.plan) \in Nat /\ Len(Tail(th.plan)) \in Nat
    BY <1>0, <2>1 DEF ThreadOK
  <2>4. Stage(u) = Stage(th) /\ Rounds(u) = Rounds(th)
    BY <1>c, <1>d, <2>1 DEF InBridge
  <2> QED
    BY <1>b, <2>1, <2>2, <2>3, <2>4, GetsCloser DEF InBridge
<1> QED
  BY <1>1, <1>2, <1>3, <1>4, <1>5, <1>6, <1>7 DEF BridgeNext

(* ... and of the services of clusters and locations.                      *)
LEMMA ClusterCloses ==
  ASSUME TypeInv, LoopInv, NEW w \in Threads, ClusterNext(w)
  PROVE  Closer(t[w], t'[w]) /\ LoopOK(t'[w])
<1> DEFINE th == t[w]
           u  == t'[w]
<1>0. th \in Thread /\ LoopOK(th)
  BY DEF TypeInv, TypeOK, LoopInv
<1>1. CASE u.pc = "idle"
  <2>1. th.pc # "idle"
    BY DEF ClusterNext, GetCluster, PutCluster, ClusterLocation, InvalidateCluster,
       RemoveCluster, CentralLocation, GetLocation, PutLocation, RemoveLocation
  <2> QED
    BY <1>0, <1>1, <2>1, IdleCloses
<1>2. CASE /\ u.dels = th.dels
           /\ \/ th.pc = "clusterGet" /\ u.pc \in {"clusterPut", "clusterRemove"}
              \/ th.pc = "clusterPut" /\ u.pc = "clusterLoc"
              \/ th.pc = "locGet" /\ u.pc = "locPut"
              \/ th.pc \in {"clusterLoc", "central"} /\ u.pc = "exists"
  <2>1. Stage(th) \in {10, 11, 12} /\ Stage(u) \in {9, 10, 11} /\ Stage(u) < Stage(th)
    <3>1. CASE th.pc = "clusterGet" /\ u.pc \in {"clusterPut", "clusterRemove"}
      BY <3>1, Stages
    <3>2. CASE th.pc = "clusterPut" /\ u.pc = "clusterLoc"
      BY <3>2, Stages
    <3>3. CASE th.pc = "locGet" /\ u.pc = "locPut"
      BY <3>3, Stages
    <3>4. CASE th.pc \in {"clusterLoc", "central"} /\ u.pc = "exists"
      BY <3>4, Stages
    <3> QED
      BY <1>2, <3>1, <3>2, <3>3, <3>4
  <2> QED
    BY <1>0, <1>2, <2>1, StageClose
<1> QED
  BY <1>1, <1>2, ClusterStep

LEMMA ServeCloses ==
  ASSUME FiniteSystem, TypeInv, OpInv, LoopInv, NEW w \in Threads, Serve(w)
  PROVE  Closer(t[w], t'[w]) /\ LoopOK(t'[w])
  BY TopicCloses, ClientCloses, BridgeCloses, ClusterCloses DEF Serve

(* The table of clients stays finite: a step puts one row or drops some.   *)
LEMMA ClientsFinite ==
  ASSUME IsFiniteSet(clients), NEW w \in Threads, Serve(w)
  PROVE  IsFiniteSet(clients')
<1>1. \A c : IsFiniteSet(Put(c))
  <2>1. IsFiniteSet({d \in clients : TRUE})
    BY FS_Subset
  <2> SUFFICES ASSUME NEW c PROVE IsFiniteSet(Put(c))
    OBVIOUS
  <2>2. IsFiniteSet({d \in clients : d.id # c.id})
    BY FS_Subset
  <2> QED
    BY <2>2, FS_AddElement DEF Put
<1>2. (\E c : clients' = Put(c)) \/ clients' \subseteq clients
  <2>1. CASE TopicNext(w) \/ BridgeNext(w) \/ ClusterNext(w)
    BY <2>1, TopicFrame, BridgeFrame, ClusterFrame
  <2>2. CASE ClientNext(w)
    <3>1. StoreClient(w) \/ OverwriteClient(w) => \E c : clients' = Put(c)
      BY DEF StoreClient, OverwriteClient
    <3>2. DropClient(w) => clients' \subseteq clients
      BY DEF DropClient
    <3> QED
      BY <2>2, <3>1, <3>2, ClientFrame
  <2> QED
    BY <2>1, <2>2 DEF Serve
<1> QED
  BY <1>1, <1>2, FS_Subset

LEMMA InitLoops == Init => LoopInv
<1> SUFFICES ASSUME Init PROVE LoopInv
  OBVIOUS
<1>1. IsFiniteSet(clients)
  BY FS_EmptySet DEF Init
<1>2. \A w \in Threads : t[w].pc = "idle"
  BY DEF Init, Idle
<1> QED
  BY <1>1, <1>2 DEF LoopInv, LoopOK

LEMMA LoopsNext ==
  ASSUME FiniteSystem, TypeInv, OpInv, LoopInv, [Next]_vars
  PROVE  LoopInv'
<1>1. ASSUME NEW w \in Threads, Start(w) PROVE LoopInv'
  <2>1. t'[w].pc \notin {"revoke", "drop"} /\ t'[w].dels = {t'[w].rq.id} /\ clients' = clients
    BY <1>1, StartStep DEF FirstStep
  <2>2. LoopOK(t'[w])
    BY <2>1, FS_Singleton DEF LoopOK
  <2>3. \A v \in Threads : v # w => t'[v] = t[v]
    BY <1>1, Others
  <2> QED
    BY <2>1, <2>2, <2>3 DEF LoopInv
<1>2. ASSUME NEW w \in Threads, Serve(w) PROVE LoopInv'
  <2>1. LoopOK(t'[w])
    BY <1>2, ServeCloses
  <2>2. \A v \in Threads : v # w => t'[v] = t[v]
    BY <1>2, Others
  <2>3. IsFiniteSet(clients')
    BY <1>2, ClientsFinite DEF LoopInv
  <2> QED
    BY <2>1, <2>2, <2>3 DEF LoopInv
<1>3. ASSUME ExitProcess \/ UNCHANGED vars PROVE LoopInv'
  <2>1. LoopOK(Idle)
    BY DEF LoopOK, Idle
  <2> QED
    BY <1>3, <2>1, ExitStep DEF LoopInv
<1> QED
  BY <1>1, <1>2, <1>3 DEF Next, Finished

(* What is left is four numbers, ...                                       *)
LEMMA FourNumbers ==
  ASSUME FiniteSystem, NEW th \in Thread, LoopOK(th)
  PROVE  Remaining(th) \in [1..4 -> Nat]
<1>1. Stage(th) \in 0..12
  <2>1. th.pc \in {"idle", "review", "exists", "perm", "next", "grant", "centrals",
           "post", "reread", "bridge", "loc", "plan", "mmCreate",
           "mmWhitelist", "mmPut", "putTopic", "list", "find", "view", "revoke",
           "drop", "dropTopic", "cluster", "topic", "lookup", "overwrite", "clusterGet",
           "clusterPut", "clusterLoc", "clusterInvalid", "clusterRemove",
           "central", "locGet", "locPut", "locRemove"}
    BY DEF Thread
  <2> QED
    BY <2>1, Stages DEF InBridge
<1>2. Rounds(th) \in Nat
  <2>1. CASE Stage(th) = 2
    <3>1. th.pc \notin {"idle", "clusterInvalid"}
      BY <2>1, Stages
    <3> QED
      BY <2>1, <3>1, RoundsAre, FS_CardinalityType DEF LoopOK
  <2>2. CASE Stage(th) = 4
    BY <2>2, RoundsAre, FiniteWork, FS_CardinalityType
  <2>3. CASE Stage(th) = 7
    BY <2>3, RoundsAre DEF Thread
  <2> QED
    BY <2>1, <2>2, <2>3, RoundsAre
<1>3. Steps(th) \in Nat
  <2>1. th.plan \in Seq(Bridges \cup {Npe})
    BY DEF Thread
  <2>2. Len(th.plan) \in Nat
    BY <2>1
  <2> QED
    BY <2>2, StepsAre
<1>4. Calls(th) \in Nat
  <2>1. Cardinality(th.left) \in Nat /\ Cardinality(th.posts) \in Nat
    BY FiniteWork, FS_CardinalityType
  <2> QED
    BY <2>1, CallsAre
<1> QED
  BY <1>1, <1>2, <1>3, <1>4 DEF Remaining

(* ... and no list of four numbers can be shortened for ever.              *)
Shortening == {p \in [1..4 -> Nat] \X [1..4 -> Nat] : Shorter(p[1], p[2])}

LEMMA NotForEver == IsWellFoundedOn(Shortening, [1..4 -> Nat])
<1> DEFINE R == {p \in Nat \X Nat : p[1] < p[2]}
           S == [1..4 -> Nat]
<1>1. IsWellFoundedOn(R, Nat)
  BY NatLessThanWellFounded DEF OpToRel
<1>2. IsWellFoundedOn(LexProductOrdering(R, Nat, 4), S)
  BY <1>1, WFLexProductOrdering
<1>3. Shortening \cap (S \X S) \subseteq LexProductOrdering(R, Nat, 4)
  <2> SUFFICES ASSUME NEW p \in S \X S, Shorter(p[1], p[2])
               PROVE  p \in LexProductOrdering(R, Nat, 4)
    BY DEF Shortening
  <2>1. PICK i \in 1..4 : p[1][i] < p[2][i] /\ \A j \in 1..(i - 1) : p[1][j] = p[2][j]
    BY DEF Shorter
  <2>2. p[1] \in S /\ p[2] \in S
    OBVIOUS
  <2>3. <<p[1][i], p[2][i]>> \in R
    BY <2>1, <2>2
  <2> HIDE DEF R
  <2> QED
    BY <2>1, <2>3 DEF LexProductOrdering
<1> HIDE DEF R
<1> QED
  BY <1>2, <1>3, IsWellFoundedOnSubrelation

(* A request comes to its end.  What is left of a request is four numbers, *)
(* and every step of it, of any operation and whatever the other systems   *)
(* answer and other requests do in between, makes that list smaller in an  *)
(* order in which nothing gets smaller for ever: the stages, the rounds of *)
(* the loop the request is in, the steps of a round, the calls of a step   *)
(* (TopicService.addTopic, removeTopic, checkForBridge; MR_ClientService   *)
(* .addTopicToCluster, removeMr_Client; MirrorMakerService                 *)
(* .updateMirrorMaker).  The loops over locations and central clusters end *)
(* because there are finitely many locations; the requests and the clients *)
(* in the table need no bound.                                             *)
THEOREM RequestsComeToAnEnd ==
  ASSUME FiniteSystem
  PROVE  /\ Spec => StepsShorten
         /\ Spec => [](\A w \in Threads : Remaining(t[w]) \in [1..4 -> Nat])
         /\ IsWellFoundedOn(Shortening, [1..4 -> Nat])
<1>1. TypeInv /\ OpInv /\ LoopInv /\ [Next]_vars => LoopInv'
  BY LoopsNext
<1>2. TypeInv /\ OpInv /\ [Next]_vars => OpInv'
  BY OpNext
<1>3. TypeInv /\ OpInv /\ LoopInv =>
        [\A w \in Threads : Serve(w) => Shorter(Remaining(t'[w]), Remaining(t[w]))]_vars
  BY ServeCloses DEF Closer
<1>4. TypeInv /\ LoopInv => \A w \in Threads : Remaining(t[w]) \in [1..4 -> Nat]
  BY FourNumbers DEF TypeInv, TypeOK, LoopInv
<1>5. Spec => [](TypeInv /\ OpInv /\ LoopInv)
  BY <1>1, <1>2, InitType, NextType, InitOps, InitLoops, PTL DEF Spec
<1>6. Spec => StepsShorten
  BY <1>3, <1>5, PTL DEF Spec, StepsShorten
<1>7. Spec => [](\A w \in Threads : Remaining(t[w]) \in [1..4 -> Nat])
  BY <1>4, <1>5, PTL
<1> QED
  BY <1>6, <1>7, NotForEver
=============================================================================
