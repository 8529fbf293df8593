----------------------- MODULE MrProvisioningProofs -----------------------
(***************************************************************************)
(* Theorems about MrProvisioning for every value of its constants.         *)
(***************************************************************************)
EXTENDS MrProvisioning, TLAPS

(* What a thread's record is besides well typed: the operation a step      *)
(* belongs to, and the bridge that is being made.                          *)
ThreadOK(th) ==
  /\ th.pc \in {"cluster", "topic", "reread"} => th.rq.op = "postClient"
  /\ th.pc \in {"lookup", "overwrite"} => th.rq.op = "putClient"
  /\ th.pc \in {"mmCreate", "mmWhitelist", "mmPut"} =>
       th.plan # <<>> /\ Head(th.plan) \in Bridges

TypeInv == TypeOK /\ \A w \in Threads : ThreadOK(t[w])

-----------------------------------------------------------------------------
(* The records threads start from and come back to.                        *)
LEMMA NullType == Null \in Client
  BY ConstantsAssumption DEF Null, Client, NoLoc, Statuses

LEMMA IdleType == Idle \in Thread /\ ThreadOK(Idle)
<1>1. (CHOOSE r \in Requests : TRUE) \in Requests
  BY ConstantsAssumption
<1>2. <<>> \in Seq(Topics)
  OBVIOUS
<1>3. None \in ReplCases
  BY DEF None, ReplCases
<1> QED
  BY <1>1, <1>2, <1>3, NullType, ConstantsAssumption
  DEF Idle, Thread, ThreadOK, Codes

(* At most steps of a request ThreadOK asks for nothing.                   *)
LEMMA PlainType ==
  ASSUME NEW th \in Thread,
         th.pc \notin {"cluster", "topic", "reread", "lookup", "overwrite",
                      "mmCreate", "mmWhitelist", "mmPut"}
  PROVE  ThreadOK(th)
  BY DEF ThreadOK

LEMMA ReplyType ==
  ASSUME NEW code \in {"-", "success"} \cup Codes
  PROVE  Reply(code) \in Thread /\ ThreadOK(Reply(code)) /\ Reply(code).pc = "idle"
  BY ZenonT(30), IdleType DEF Reply, Thread, ThreadOK, Idle

LEMMA AddTopicReturnsType ==
  ASSUME NEW th \in Thread, NEW stored \in BOOLEAN
  PROVE  /\ AddTopicReturns(th, stored) \in Thread
         /\ ThreadOK(AddTopicReturns(th, stored))
         /\ AddTopicReturns(th, stored).pc \in {"idle", "clusterInvalid"}
<1>1. th.err \in Codes /\ "ok" \in Codes /\ "fail" \in Codes
  BY DEF Thread, Codes
<1>2. /\ [th EXCEPT !.pc = "clusterInvalid"] \in Thread
      /\ ThreadOK([th EXCEPT !.pc = "clusterInvalid"])
      /\ [th EXCEPT !.pc = "clusterInvalid"].pc = "clusterInvalid"
  BY ZenonT(60) DEF Thread, ThreadOK
<1>3. \A code \in Codes \cup {"success"} :
        Reply(code) \in Thread /\ ThreadOK(Reply(code)) /\ Reply(code).pc = "idle"
  BY ReplyType
<1> QED
  BY <1>1, <1>2, <1>3 DEF AddTopicReturns, ClusterAnswer, Success

LEMMA AddClientFailsType ==
  ASSUME NEW th \in Thread
  PROVE  /\ AddClientFails(th) \in Thread
         /\ ThreadOK(AddClientFails(th))
         /\ AddClientFails(th).pc \in {"idle", "clusterInvalid"}
<1>1. th.err \in Codes
  BY DEF Thread
<1> QED
  BY <1>1, ReplyType, AddTopicReturnsType DEF AddClientFails

(* A client's null in the place of the client: the thread goes on with the *)
(* request as if the client were stored.                                   *)
LEMMA NullOfType ==
  ASSUME NEW c \in Client
  PROVE  /\ NullOf(c) \in Client /\ IsNull(NullOf(c))
         /\ NullOf(c).fqtn = c.fqtn /\ NullOf(c).loc = c.loc
         /\ NullOf(c).role = c.role /\ NullOf(c).acts = c.acts
  BY ZenonT(60) DEF NullOf, IsNull, Client, Statuses

LEMMA AddClientNullType ==
  ASSUME NEW th \in Thread
  PROVE  /\ AddClientNull(th) \in Thread
         /\ ThreadOK(AddClientNull(th))
         /\ AddClientNull(th).pc = IF th.rq.op = "postClient" THEN "reread" ELSE "next"
         /\ AddClientNull(th).view = IF th.rq.op = "postClient" THEN th.view
                                     ELSE th.view \cup {NullOf(th.cur)}
         /\ AddClientNull(th).err = "ok" /\ AddClientNull(th).left = {}
         /\ \A k \in {"rq", "fqtn", "repl", "todo", "cur", "posts", "locs", "hub", "plan",
                      "mm", "wrong", "dels", "reply"} : AddClientNull(th)[k] = th[k]
<1> DEFINE more == [th EXCEPT !.err = "ok", !.left = {}]
           V == th.view \cup {NullOf(th.cur)}
           p == [more EXCEPT !.pc = "reread"]
           n == [more EXCEPT !.view = more.view \cup {NullOf(th.cur)}, !.pc = "next"]
           Kept == {"rq", "fqtn", "repl", "todo", "cur", "posts", "locs", "hub", "plan",
                    "mm", "wrong", "dels", "reply"}
<1>1. AddClientNull(th) = IF th.rq.op = "postClient" THEN p ELSE n
  BY DEF AddClientNull
<1>2. V \subseteq Client
  BY NullOfType DEF Thread
<1>3. more \in Thread /\ more.err = "ok" /\ more.left = {} /\ more.view = th.view
      /\ \A k \in Kept : more[k] = th[k]
  BY DEF Thread, Codes
<1> HIDE DEF V, more
<1>4. p \in Thread /\ p.pc = "reread" /\ p.err = more.err /\ p.left = more.left
      /\ p.view = more.view /\ \A k \in Kept : p[k] = more[k]
  BY <1>3 DEF Thread
<1>5. n \in Thread /\ n.pc = "next" /\ n.err = more.err /\ n.left = more.left
      /\ n.view = V /\ \A k \in Kept : n[k] = more[k]
  <2>1. n = [more EXCEPT !.view = V, !.pc = "next"]
    BY <1>3 DEF V
  <2> QED
    BY <1>2, <1>3, <2>1 DEF Thread
<1> HIDE DEF p, n
<1>6. ThreadOK(n)
  BY <1>5, PlainType
<1>7. th.rq.op = "postClient" => ThreadOK(p)
  <2>1. p.rq = th.rq
    BY <1>3, <1>4
  <2> QED
    BY <1>4, <2>1 DEF ThreadOK
<1>8. CASE th.rq.op = "postClient"
  <2>1. AddClientNull(th) = p
    BY <1>1, <1>8
  <2> QED
    BY <1>3, <1>4, <1>7, <1>8, <2>1
<1>9. CASE th.rq.op # "postClient"
  <2>1. AddClientNull(th) = n
    BY <1>1, <1>9
  <2> QED
    BY <1>3, <1>5, <1>6, <1>9, <2>1 DEF V
<1> QED
  BY <1>8, <1>9

LEMMA BridgeReturnsType ==
  ASSUME NEW th \in Thread, NEW valid
  PROVE  /\ BridgeReturns(th, valid) \in Thread
         /\ ThreadOK(BridgeReturns(th, valid))
         /\ BridgeReturns(th, valid).pc \in {"idle", "clusterInvalid", "putTopic", "revoke"}
<1>1. \A q \in {"putTopic", "revoke"} :
        /\ [th EXCEPT !.pc = q] \in Thread
        /\ ThreadOK([th EXCEPT !.pc = q])
        /\ [th EXCEPT !.pc = q].pc = q
  BY DEF Thread, ThreadOK
<1> QED
  BY <1>1, ReplyType, AddTopicReturnsType DEF BridgeReturns, Success

LEMMA RemoveClientReturnsType ==
  ASSUME NEW th \in Thread
  PROVE  /\ RemoveClientReturns(th) \in Thread
         /\ ThreadOK(RemoveClientReturns(th))
         /\ RemoveClientReturns(th).pc \in {"idle", "dropTopic", "find"}
<1>1. th.err \in Codes
  BY DEF Thread
<1>2. \A q \in {"dropTopic", "find"} :
        LET u == [th EXCEPT !.dels = th.dels \ {th.cur.id}, !.pc = q]
        IN  u \in Thread /\ ThreadOK(u) /\ u.pc = q
  BY ZenonT(60) DEF Thread, ThreadOK
<1> QED
  BY <1>1, <1>2, ReplyType DEF RemoveClientReturns, Success

LEMMA StepsType ==
  ASSUME NEW repl, NEW c, NEW l \in Locs, NEW present
  PROVE  StepsAt(repl, c, l, present) \in Seq(Bridges \cup {Npe})
<1>1. \A x, y \in Locs \cup Hubs : <<<<x, y>>>> \in Seq(Bridges \cup {Npe})
  BY DEF Bridges
<1>2. <<>> \in Seq(Bridges \cup {Npe})
  OBVIOUS
<1>3. \A p, q \in Seq(Bridges \cup {Npe}) : p \o q \in Seq(Bridges \cup {Npe})
  OBVIOUS
<1>4. {l, Central, Global, Empty} \subseteq Locs \cup Hubs
  BY DEF Hubs
<1>5. BridgesAt(repl, c, l) \in Seq(Bridges \cup {Npe})
  <2> DEFINE mid == IF c = Empty THEN Empty ELSE Central
             Only(b, cond) == IF cond THEN <<b>> ELSE <<>>
  <2>1. \A x, y \in Locs \cup Hubs : \A cond \in BOOLEAN :
          Only(<<x, y>>, cond) \in Seq(Bridges \cup {Npe})
    BY <1>1, <1>2
  <2>2. mid \in Locs \cup Hubs
    BY <1>4
  <2> QED
    BY <1>1, <1>2, <1>3, <1>4, <2>1, <2>2 DEF BridgesAt
<1>6. <<<<Global, Empty>>, Npe>> \in Seq(Bridges \cup {Npe})
  BY <1>4 DEF Bridges
<1>7. <<Npe>> \in Seq(Bridges \cup {Npe})
  OBVIOUS
<1> QED
  BY <1>5, <1>6, <1>7 DEF StepsAt

(* A step of thread w leaves the threads well typed when its new record is. *)
LEMMA GoType ==
  ASSUME TypeInv, NEW w \in Threads, NEW th \in Thread, ThreadOK(th), Go(w, th)
  PROVE  t' \in [Threads -> Thread] /\ \A v \in Threads : ThreadOK(t'[v])
  BY DEF TypeInv, TypeOK, Go

-----------------------------------------------------------------------------
(* Each action keeps TypeInv: its new thread record is well typed, and so   *)
(* are the tables it writes.                                                *)
LEMMA TopicNextType ==
  ASSUME TypeInv, NEW w \in Threads, TopicNext(w)
  PROVE  TypeInv'
<1> DEFINE th == t[w]
<1>0. th \in Thread /\ ThreadOK(th)
  BY DEF TypeInv, TypeOK
<1> HIDE DEF th
<1>1. CASE Review(w)
  <2> DEFINE g == GraphOf({[loc |-> s.loc, acts |-> s.acts, status |-> "NEW"] :
                             s \in {th.todo[i] : i \in DOMAIN th.todo}}, FALSE, layer)
  <2>1. \E c \in CentralChoices(g, layer, NoLoc) :
          Go(w, [th EXCEPT !.repl = ReviewTopic(Len(th.todo), g, c, clusters),
                           !.pc = "exists"])
    BY <1>1 DEF Review, th
  <2> HIDE DEF g
  <2>2. \A n, gr, c, clu : ReviewTopic(n, gr, c, clu) \in ReplCases
    BY DEF ReviewTopic, None, ReplCases
  <2>3. PICK r \in ReplCases : Go(w, [th EXCEPT !.repl = r, !.pc = "exists"])
    BY <2>1, <2>2
  <2>4. LET u == [th EXCEPT !.repl = r, !.pc = "exists"] IN u \in Thread /\ ThreadOK(u)
    <3> DEFINE u == [th EXCEPT !.repl = r, !.pc = "exists"]
    <3>1. u \in Thread /\ u.pc = "exists"
      BY <1>0 DEF Thread
    <3> QED
      BY <3>1, PlainType
  <2>5. t' \in [Threads -> Thread] /\ \A v \in Threads : ThreadOK(t'[v])
    BY <2>3, <2>4, GoType
  <2> QED
    BY <1>1, <2>5 DEF Review, TypeInv, TypeOK, aafVars, mrVars, ctlVars
<1>2. CASE Exists(w)
  <2>1. [th EXCEPT !.err = "conflict"] \in Thread
    BY <1>0 DEF Thread, Codes
  <2>2. LET u == [th EXCEPT !.err = "notFound", !.left = Actions, !.pc = "perm"]
        IN  u \in Thread /\ ThreadOK(u)
    BY ZenonT(60), <1>0 DEF Thread, ThreadOK, Codes
  <2> QED
    BY <1>2, <2>1, <2>2, AddTopicReturnsType, GoType
    DEF Exists, TypeInv, TypeOK, aafVars, mrVars, ctlVars, th
<1>3. CASE AddPerm(w)
  <2>1. PICK a \in th.left :
          \/ /\ perms' = perms \cup {<<th.fqtn, a>>}
             /\ Go(w, [th EXCEPT !.left = th.left \ {a},
                                 !.pc = IF th.left = {a} THEN "next" ELSE "perm"])
          \/ /\ perms' \in {perms, perms \cup {<<th.fqtn, a>>}}
             /\ Go(w, AddTopicReturns([th EXCEPT !.err = "fail"], FALSE))
    BY <1>3 DEF AddPerm, th
  <2>2. [th EXCEPT !.err = "fail"] \in Thread
    BY <1>0 DEF Thread, Codes
  <2>3. \A q \in {"next", "perm"} :
          LET u == [th EXCEPT !.left = th.left \ {a}, !.pc = q] IN u \in Thread /\ ThreadOK(u)
    BY ZenonT(60), <1>0 DEF Thread, ThreadOK
  <2>4. perms' \subseteq Topics \X Actions
    <3>1. <<th.fqtn, a>> \in Topics \X Actions
      BY <1>0 DEF Thread
    <3>2. perms' \in {perms, perms \cup {<<th.fqtn, a>>}}
      BY <2>1
    <3> QED
      BY <3>1, <3>2 DEF TypeInv, TypeOK
  <2>5. t' \in [Threads -> Thread] /\ \A v \in Threads : ThreadOK(t'[v])
    BY <2>1, <2>2, <2>3, AddTopicReturnsType, GoType
  <2> QED
    BY <1>3, <2>4, <2>5 DEF AddPerm, TypeInv, TypeOK, mrVars, ctlVars
<1>4. CASE NextClient(w)
  <2>1. CASE th.todo = <<>>
    <3> DEFINE u == [th EXCEPT !.pc = "bridge"]
    <3>1. u \in Thread /\ u.pc = "bridge"
      BY <1>0 DEF Thread
    <3>2. ThreadOK(u)
      <4> HIDE DEF u
      <4> QED
        BY <3>1, PlainType
    <3> QED
      BY <1>4, <2>1, <3>1, <3>2, GoType
      DEF NextClient, TypeInv, TypeOK, aafVars, mrVars, ctlVars, th
  <2>2. CASE th.todo # <<>>
    <3> DEFINE s == Head(th.todo)
               rest == [th EXCEPT !.todo = Tail(th.todo)]
               c == [id |-> nextId, fqtn |-> th.fqtn, loc |-> s.loc,
                     role |-> s.role, acts |-> s.acts, status |-> "VALID"]
    <3>1. s \in ClientSpec /\ Tail(th.todo) \in Seq(ClientSpec)
      BY <1>0, <2>2 DEF Thread
    <3>2. c \in Client
      BY <1>0, <3>1 DEF Thread, ClientSpec, Client, Statuses, TypeInv, TypeOK
    <3>3. rest \in Thread
      BY <1>0, <3>1 DEF Thread
    <3>4. ThreadOK([rest EXCEPT !.view = th.view \cup {Null}])
      <4>1. th.pc = "next"
        BY <1>4 DEF NextClient, th
      <4> QED
        BY <1>0, <4>1 DEF ThreadOK, Thread
    <3>5. [rest EXCEPT !.view = th.view \cup {Null}] \in Thread
      BY <3>3, NullType DEF Thread
    <3>6. LET u == [rest EXCEPT !.pc = "grant", !.left = s.acts, !.cur = c]
          IN  u \in Thread /\ ThreadOK(u)
      <4>1. s.acts \in SUBSET Actions
        BY <3>1 DEF ClientSpec
      <4> HIDE DEF s, c, rest
      <4> DEFINE u == [rest EXCEPT !.pc = "grant", !.left = s.acts, !.cur = c]
      <4>2. u \in Thread /\ u.pc = "grant"
        BY <3>2, <3>3, <4>1 DEF Thread
      <4> QED
        BY <4>2, PlainType
    <3>7. Go(w, IF s.loc # NoLoc THEN [rest EXCEPT !.pc = "grant", !.left = s.acts, !.cur = c]
                ELSE IF th.err = "ok" THEN [rest EXCEPT !.view = th.view \cup {Null}]
                ELSE AddTopicReturns(rest, FALSE))
      BY <1>4, <2>2 DEF NextClient, th
    <3>8. t' \in [Threads -> Thread] /\ \A v \in Threads : ThreadOK(t'[v])
      <4> HIDE DEF s, rest, c
      <4> QED
        BY <3>3, <3>4, <3>5, <3>6, <3>7, AddTopicReturnsType, GoType
    <3>9. nextId' = nextId + 1
      BY <1>4, <2>2 DEF NextClient, th
    <3> QED
      BY <1>4, <3>8, <3>9 DEF NextClient, TypeInv, TypeOK, aafVars, mrVars
  <2> QED
    BY <2>1, <2>2
<1>5. CASE PutTopic(w)
  <2> DEFINE ok == [th EXCEPT !.err = "ok"]
  <2>1. ok \in Thread
    BY <1>0 DEF Thread, Codes
  <2>2. LET u == [ok EXCEPT !.pc = "revoke"] IN u \in Thread /\ ThreadOK(u)
    BY ZenonT(60), <2>1 DEF Thread, ThreadOK
  <2>3. topics' \in [Topics -> ReplCases \cup {Absent}]
    BY <1>0, <1>5 DEF PutTopic, Thread, TypeInv, TypeOK, th
  <2>4. t' \in [Threads -> Thread] /\ \A v \in Threads : ThreadOK(t'[v])
    BY <1>5, <2>1, <2>2, AddTopicReturnsType, GoType DEF PutTopic, th
  <2> QED
    BY <1>5, <2>3, <2>4 DEF PutTopic, TypeInv, TypeOK, aafVars, mrVars, ctlVars
<1>6. CASE ListClients(w)
  <2> DEFINE ids == {c.id : c \in ClientsOf(th.fqtn)}
  <2>1. ids \subseteq Nat
    BY DEF ClientsOf, TypeInv, TypeOK, Client
  <2> HIDE DEF ids
  <2> DEFINE base    == [th EXCEPT !.dels = ids, !.err = "ok"]
             u(q) == [base EXCEPT !.pc = q]
  <2>2. \A q \in {"dropTopic", "find"} : u(q) \in Thread /\ ThreadOK(u(q))
    <3>1. base \in Thread
      BY <1>0, <2>1 DEF Thread, Codes
    <3> HIDE DEF base
    <3>2. \A q \in {"dropTopic", "find"} : u(q) \in Thread /\ u(q).pc = q
      BY ZenonT(60), <3>1 DEF Thread
    <3> QED
      BY <3>2, PlainType
  <2>3. Reply("notFound") \in Thread /\ ThreadOK(Reply("notFound"))
    BY ReplyType DEF Codes
  <2>4. Go(w, IF topics[th.fqtn] = Absent THEN Reply("notFound")
              ELSE [th EXCEPT !.dels = ids, !.err = "ok",
                              !.pc = IF ids = {} THEN "dropTopic" ELSE "find"])
    BY <1>6 DEF ListClients, th, ids
  <2>5. t' \in [Threads -> Thread] /\ \A v \in Threads : ThreadOK(t'[v])
    BY <2>2, <2>3, <2>4, GoType
  <2> QED
    BY <1>6, <2>5 DEF ListClients, TypeInv, TypeOK, aafVars, mrVars, ctlVars
<1>7. CASE DropTopic(w)
  <2>1. topics' \in [Topics -> ReplCases \cup {Absent}]
    BY <1>0, <1>7 DEF DropTopic, Thread, TypeInv, TypeOK, th
  <2>2. t' \in [Threads -> Thread] /\ \A v \in Threads : ThreadOK(t'[v])
    BY <1>7, ReplyType, GoType DEF DropTopic, Success
  <2> QED
    BY <1>7, <2>1, <2>2 DEF DropTopic, TypeInv, TypeOK, aafVars, mrVars, ctlVars
<1> QED
  BY <1>1, <1>2, <1>3, <1>4, <1>5, <1>6, <1>7 DEF TopicNext

LEMMA ClientNextType ==
  ASSUME TypeInv, NEW w \in Threads, ClientNext(w)
  PROVE  TypeInv'
<1> DEFINE th == t[w]
<1>0. /\ th \in Thread /\ ThreadOK(th)
      /\ {"ok", "bad", "fail", "notFound"} \subseteq Codes
  BY DEF TypeInv, TypeOK, Codes
<1> HIDE DEF th
<1>a. \A code \in {"bad", "notFound", "fail", "success"} \cup Codes :
        Reply(code) \in Thread /\ ThreadOK(Reply(code))
  BY ReplyType DEF Codes
<1>1. CASE FindCluster(w)
  <2> DEFINE u == [th EXCEPT !.err = "ok", !.pc = "topic"]
  <2>1. th.rq.op = "postClient"
    BY <1>0, <1>1 DEF FindCluster, ThreadOK, th
  <2>2. u \in Thread /\ u.pc = "topic" /\ u.rq = th.rq
    BY <1>0 DEF Thread, Codes
  <2>3. ThreadOK(u)
    BY <2>1, <2>2 DEF ThreadOK
  <2>4. Go(w, u) \/ Go(w, Reply("bad"))
    BY <1>1 DEF FindCluster, th
  <2>5. t' \in [Threads -> Thread] /\ \A v \in Threads : ThreadOK(t'[v])
    BY <1>a, <2>2, <2>3, <2>4, GoType
  <2> QED
    BY <1>1, <2>5 DEF FindCluster, TypeInv, TypeOK, aafVars, mrVars, ctlVars
<1>2. CASE FindTopic(w)
  <2> DEFINE s  == Head(th.rq.clients)
             id == IF th.rq.id = 0 THEN nextId ELSE th.rq.id
             c  == [id |-> id, fqtn |-> th.fqtn, loc |-> s.loc,
                    role |-> s.role, acts |-> s.acts, status |-> "VALID"]
             u  == [th EXCEPT !.err = "ok", !.pc = "grant", !.left = s.acts, !.cur = c]
  <2>1. th.rq \in Request /\ th.rq.clients # <<>>
    BY <1>0, <1>2, ConstantsAssumption DEF FindTopic, Thread, ThreadOK, th
  <2>2. s \in ClientSpec
    BY <2>1 DEF Request
  <2>3. id \in Nat
    BY <2>1 DEF Request, TypeInv, TypeOK
  <2>4. c \in Client
    BY <1>0, <2>2, <2>3 DEF Client, ClientSpec, Statuses, Thread
  <2>5. s.acts \in SUBSET Actions
    BY <2>2 DEF ClientSpec
  <2>6. Go(w, u) \/ Go(w, Reply("notFound"))
    BY <1>2 DEF FindTopic, th
  <2>7. nextId' = nextId + 1
    BY <1>2 DEF FindTopic
  <2> HIDE DEF c, s
  <2>8. u \in Thread /\ u.pc = "grant"
    BY <1>0, <2>4, <2>5 DEF Thread, Codes
  <2>9. t' \in [Threads -> Thread] /\ \A v \in Threads : ThreadOK(t'[v])
    <3> HIDE DEF u
    <3> QED
      BY <1>a, <2>6, <2>8, PlainType, GoType
  <2> QED
    BY <1>2, <2>7, <2>9 DEF FindTopic, TypeInv, TypeOK, aafVars, mrVars
<1>3. CASE Grant(w)
  <2> DEFINE g(a) == <<th.cur.fqtn, th.cur.role, a>>
             u(a) == [th EXCEPT !.left = th.left \ {a}]
             f    == [th EXCEPT !.err = "fail"]
  <2>1. PICK a \in th.left :
          \/ grants' = grants \cup {g(a)} /\ Go(w, u(a))
          \/ /\ grants' \in {grants, grants \cup {g(a)}}
             /\ Go(w, AddClientFails(f)) \/ Go(w, AddClientNull(th))
    BY <1>3 DEF Grant, th
  <2>2. g(a) \in Topics \X Roles \X Actions
    BY <1>0 DEF Thread, Client
  <2>3. f \in Thread /\ u(a) \in Thread /\ u(a).pc = "grant"
    BY <1>0, <1>3 DEF Thread, Codes, Grant, th
  <2>4. t' \in [Threads -> Thread] /\ \A v \in Threads : ThreadOK(t'[v])
    <3> HIDE DEF u, f
    <3> QED
      BY <1>0, <2>1, <2>3, PlainType, AddClientFailsType, AddClientNullType, GoType
  <2>5. grants' \subseteq Topics \X Roles \X Actions
    <3> HIDE DEF g
    <3> QED
      BY <2>1, <2>2 DEF TypeInv, TypeOK
  <2> QED
    BY <1>3, <2>4, <2>5 DEF Grant, TypeInv, TypeOK, mrVars, ctlVars
<1>4. CASE Place(w)
  <2> DEFINE u1 == [th EXCEPT !.cur.status = "STAGED", !.posts = {}, !.pc = "post"]
             u2 == [th EXCEPT !.pc = "centrals"]
             u3 == [th EXCEPT !.posts = {th.cur.loc}, !.pc = "post"]
  <2>1. u1 \in Thread /\ u1.pc = "post"
    BY ZenonT(60), <1>0 DEF Thread, Client, Statuses
  <2>2. u2 \in Thread /\ u2.pc = "centrals"
    BY <1>0 DEF Thread
  <2>3. th.cur.loc \in Locs => u3 \in Thread /\ u3.pc = "post"
    BY <1>0 DEF Thread
  <2>4. \/ Go(w, u1) \/ Go(w, u2)
        \/ th.cur.loc \in Locs /\ Go(w, u3)
    BY <1>4 DEF Place, ClusterLocs, th
  <2>5. t' \in [Threads -> Thread] /\ \A v \in Threads : ThreadOK(t'[v])
    <3> HIDE DEF u1, u2, u3
    <3> QED
      BY <2>1, <2>2, <2>3, <2>4, PlainType, GoType
  <2> QED
    BY <1>4, <2>5 DEF Place, TypeInv, TypeOK, aafVars, mrVars, ctlVars
<1>5. CASE ListCentrals(w)
  <2> DEFINE u == [th EXCEPT !.posts = Centrals, !.pc = "post"]
  <2>1. u \in Thread /\ u.pc = "post"
    BY <1>0 DEF Thread, Centrals, ClusterLocs
  <2>2. Go(w, u) \/ Go(w, Reply("fail"))
    BY <1>5 DEF ListCentrals, ServerError, th
  <2>3. t' \in [Threads -> Thread] /\ \A v \in Threads : ThreadOK(t'[v])
    <3> HIDE DEF u
    <3> QED
      BY <1>0, <1>a, <2>1, <2>2, PlainType, GoType
  <2> QED
    BY <1>5, <2>3 DEF ListCentrals, TypeInv, TypeOK, aafVars, mrVars, ctlVars
<1>6. CASE PostToCluster(w)
  <2> DEFINE more(l) == [th EXCEPT !.posts = th.posts \ {l}, !.cur.status = "VALID"]
             none(l) == [more(l) EXCEPT !.cur.status = "INVALID"]
             f == [th EXCEPT !.err = "fail"]
  <2>1. PICK l \in th.posts :
          /\ created' \in {created, created \cup {<<l, th.cur.fqtn>>}}
          /\ \/ Go(w, [more(l) EXCEPT !.err = "ok"]) \/ Go(w, more(l)) \/ Go(w, none(l))
             \/ Go(w, AddClientFails(f)) \/ Go(w, AddClientFails(th))
    BY <1>6 DEF PostToCluster, th
  <2>2. <<l, th.cur.fqtn>> \in Locs \X Topics
    BY <1>0 DEF Thread, Client
  <2>3. more(l) \in Thread /\ more(l).pc = "post"
    BY ZenonT(60), <1>0, <1>6 DEF Thread, Client, Statuses, PostToCluster, th
  <2>4. f \in Thread /\ [more(l) EXCEPT !.err = "ok"] \in Thread
        /\ [more(l) EXCEPT !.err = "ok"].pc = "post"
    <3>1. f \in Thread
      BY <1>0 DEF Thread
    <3> HIDE DEF more
    <3>2. [more(l) EXCEPT !.err = "ok"] \in Thread /\ [more(l) EXCEPT !.err = "ok"].pc = "post"
      BY <1>0, <2>3 DEF Thread
    <3> QED
      BY <3>1, <3>2
  <2>a. none(l) \in Thread /\ none(l).pc = "post"
    <3> HIDE DEF more
    <3> QED
      BY ZenonT(60), <2>3 DEF Thread, Client, Statuses
  <2>5. t' \in [Threads -> Thread] /\ \A v \in Threads : ThreadOK(t'[v])
    <3> HIDE DEF more, f, none
    <3> QED
      BY <1>0, <2>1, <2>3, <2>4, <2>a, PlainType, AddClientFailsType, GoType
  <2>6. created' \subseteq Locs \X Topics
    BY <2>1, <2>2 DEF TypeInv, TypeOK
  <2> QED
    BY <1>6, <2>5, <2>6 DEF PostToCluster, TypeInv, TypeOK, aafVars, ctlVars
<1>7. CASE StoreClient(w)
  <2> DEFINE ok == [th EXCEPT !.err = "ok"]
             u  == [ok EXCEPT !.view = ok.view \cup {ok.cur}, !.pc = "next"]
             p  == [ok EXCEPT !.pc = "reread"]
  <2>1. ok \in Thread /\ ok.rq = th.rq /\ ok.cur \in Client
    BY <1>0 DEF Thread
  <2> HIDE DEF ok
  <2>2. u \in Thread /\ u.pc = "next"
    BY <2>1 DEF Thread
  <2>3. p \in Thread /\ p.pc = "reread" /\ p.rq = th.rq
    BY <2>1 DEF Thread
  <2>4. \/ th.rq.op = "postClient" /\ Go(w, p)
        \/ Go(w, u)
    BY <1>7, <2>1 DEF StoreClient, th, ok
  <2>5. th.rq.op = "postClient" => ThreadOK(p)
    <3> HIDE DEF p
    <3> QED
      BY <2>3 DEF ThreadOK
  <2>6. t' \in [Threads -> Thread] /\ \A v \in Threads : ThreadOK(t'[v])
    <3> HIDE DEF u, p
    <3> QED
      BY <2>2, <2>3, <2>4, <2>5, PlainType, GoType
  <2>7. clients' \subseteq Client
    BY <1>7, <2>1 DEF StoreClient, Put, TypeInv, TypeOK, th, ok
  <2> QED
    BY <1>7, <2>6, <2>7 DEF StoreClient, TypeInv, TypeOK, aafVars, mrVars, ctlVars
<1>8. CASE Reread(w)
  <2> DEFINE u == [th EXCEPT !.repl = topics[th.fqtn], !.view = ClientsOf(th.fqtn),
                             !.pc = "bridge"]
  <2>1. topics[th.fqtn] # Absent => topics[th.fqtn] \in ReplCases
    BY <1>0 DEF Thread, TypeInv, TypeOK
  <2>2. ClientsOf(th.fqtn) \subseteq Client
    BY DEF ClientsOf, TypeInv, TypeOK
  <2>3. topics[th.fqtn] # Absent => u \in Thread /\ u.pc = "bridge"
    BY <1>0, <2>1, <2>2 DEF Thread
  <2>4. \/ Go(w, Reply("fail"))
        \/ topics[th.fqtn] # Absent /\ Go(w, u)
    BY <1>8 DEF Reread, ServerError, th
  <2>5. t' \in [Threads -> Thread] /\ \A v \in Threads : ThreadOK(t'[v])
    <3> HIDE DEF u
    <3> QED
      BY <1>a, <2>3, <2>4, PlainType, GoType
  <2> QED
    BY <1>8, <2>5 DEF Reread, TypeInv, TypeOK, aafVars, mrVars, ctlVars
<1>9. CASE LookupClient(w)
  <2> DEFINE u(code) == [th EXCEPT !.pc = "overwrite", !.err = code]
  <2>1. th.rq.op = "putClient"
    BY <1>0, <1>9 DEF LookupClient, ThreadOK, th
  <2>2. \A code \in {"ok", "notFound"} :
          u(code) \in Thread /\ u(code).pc = "overwrite" /\ u(code).rq = th.rq
    BY ZenonT(60), <1>0 DEF Thread
  <2>3. \E code \in {"ok", "notFound"} : Go(w, u(code))
    BY <1>9 DEF LookupClient, th
  <2>4. \A code \in {"ok", "notFound"} : ThreadOK(u(code))
    <3> HIDE DEF u
    <3> QED
      BY <2>1, <2>2 DEF ThreadOK
  <2>5. t' \in [Threads -> Thread] /\ \A v \in Threads : ThreadOK(t'[v])
    <3> HIDE DEF u
    <3> QED
      BY <2>2, <2>3, <2>4, GoType
  <2> QED
    BY <1>9, <2>5 DEF LookupClient, TypeInv, TypeOK, aafVars, mrVars, ctlVars
<1>10. CASE OverwriteClient(w)
  <2> DEFINE s == Head(th.rq.clients)
             c == [id |-> th.rq.id, fqtn |-> th.rq.fqtn, loc |-> s.loc,
                   role |-> s.role, acts |-> s.acts, status |-> th.rq.status]
  <2>1. th.rq \in Request /\ th.rq.clients # <<>>
    BY <1>0, <1>10, ConstantsAssumption DEF OverwriteClient, Thread, ThreadOK, th
  <2>2. s \in ClientSpec
    BY <2>1 DEF Request
  <2>3. c \in Client
    BY <2>1, <2>2 DEF Client, ClientSpec, Request
  <2>4. clients' = Put(c)
    BY <1>10 DEF OverwriteClient, th
  <2>5. clients' \subseteq Client
    <3> HIDE DEF c
    <3> QED
      BY <2>3, <2>4 DEF Put, TypeInv, TypeOK
  <2>6. Go(w, Reply("success")) \/ Go(w, Reply(th.err))
    BY <1>10 DEF OverwriteClient, Success, th
  <2>7. th.err \in Codes
    BY <1>0 DEF Thread
  <2>8. t' \in [Threads -> Thread] /\ \A v \in Threads : ThreadOK(t'[v])
    BY <1>a, <2>6, <2>7, GoType
  <2> QED
    BY <1>10, <2>5, <2>8 DEF OverwriteClient, TypeInv, TypeOK, aafVars, mrVars, ctlVars
<1>11. CASE FindClient(w)
  <2> DEFINE u(c, q) == [th EXCEPT !.cur = c, !.left = c.acts, !.err = "ok", !.pc = q]
  <2>1. \A c \in clients : c \in Client /\ c.acts \in SUBSET Actions
    BY DEF TypeInv, TypeOK, Client
  <2>2. \A c \in clients : \A q \in {"view", "revoke"} : u(c, q) \in Thread /\ u(c, q).pc = q
    <3> SUFFICES ASSUME NEW c \in clients, NEW q \in {"view", "revoke"}
                 PROVE  u(c, q) \in Thread /\ u(c, q).pc = q
      OBVIOUS
    <3>1. PICK as \in SUBSET Actions : as = c.acts
      BY <2>1
    <3>2. LET v == [th EXCEPT !.cur = c, !.left = as, !.err = "ok", !.pc = q]
          IN  v \in Thread /\ v.pc = q
      BY <1>0, <2>1 DEF Thread
    <3> QED
      BY <3>1, <3>2
  <2>3. \/ Go(w, Reply("notFound"))
        \/ \E c \in clients : \E q \in {"view", "revoke"} : Go(w, u(c, q))
    BY <1>11 DEF FindClient, th
  <2>4. t' \in [Threads -> Thread] /\ \A v \in Threads : ThreadOK(t'[v])
    <3> HIDE DEF u
    <3>1. CASE Go(w, Reply("notFound"))
      BY <1>a, <3>1, GoType
    <3>2. CASE \E c \in clients : \E q \in {"view", "revoke"} : Go(w, u(c, q))
      <4>1. PICK c \in clients, q \in {"view", "revoke"} : Go(w, u(c, q))
        BY <3>2
      <4>2. u(c, q) \in Thread /\ ThreadOK(u(c, q))
        BY <2>2, <4>1, PlainType
      <4> QED
        BY <4>1, <4>2, GoType
    <3> QED
      BY <2>3, <3>1, <3>2
  <2> QED
    BY <1>11, <2>4 DEF FindClient, TypeInv, TypeOK, aafVars, mrVars, ctlVars
<1>12. CASE ViewTopic(w)
  <2> DEFINE f  == th.cur.fqtn
             u1 == [th EXCEPT !.err = "notFound", !.pc = "revoke"]
             u2 == [th EXCEPT !.fqtn = f, !.repl = topics[f], !.err = "ok",
                              !.view = {c \in ClientsOf(f) : c.id # th.cur.id},
                              !.pc = "bridge"]
  <2>1. f \in Topics
    BY <1>0 DEF Thread, Client
  <2>2. topics[f] # Absent => topics[f] \in ReplCases
    BY <2>1 DEF TypeInv, TypeOK
  <2>3. {c \in ClientsOf(f) : c.id # th.cur.id} \subseteq Client
    BY DEF ClientsOf, TypeInv, TypeOK
  <2>4. Go(w, u1) \/ (topics[f] # Absent /\ Go(w, u2))
    BY <1>12 DEF ViewTopic, th
  <2>5. u1 \in Thread /\ u1.pc = "revoke"
    BY <1>0 DEF Thread
  <2> HIDE DEF f
  <2>6. topics[f] # Absent => u2 \in Thread /\ u2.pc = "bridge"
    BY <1>0, <2>1, <2>2, <2>3 DEF Thread
  <2>7. t' \in [Threads -> Thread] /\ \A v \in Threads : ThreadOK(t'[v])
    <3> HIDE DEF u1, u2
    <3> QED
      BY <2>4, <2>5, <2>6, PlainType, GoType
  <2> QED
    BY <1>12, <2>7 DEF ViewTopic, TypeInv, TypeOK, aafVars, mrVars, ctlVars
<1>13. CASE RevokeGrant(w)
  <2> DEFINE u(a) == [th EXCEPT !.left = th.left \ {a}]
             f    == [th EXCEPT !.err = "fail"]
             d    == [th EXCEPT !.err = "ok", !.pc = "drop"]
  <2>1. PICK a \in th.left : Go(w, u(a)) \/ Go(w, RemoveClientReturns(f)) \/ Go(w, d)
    BY <1>13 DEF RevokeGrant, th
  <2>2. /\ f \in Thread /\ u(a) \in Thread /\ u(a).pc = "revoke"
        /\ d \in Thread /\ d.pc = "drop"
    BY <1>0, <1>13 DEF Thread, Codes, RevokeGrant, th
  <2>3. t' \in [Threads -> Thread] /\ \A v \in Threads : ThreadOK(t'[v])
    <3> HIDE DEF u, f, d
    <3> QED
      BY <2>1, <2>2, PlainType, RemoveClientReturnsType, GoType
  <2>4. grants' \subseteq grants
    BY <1>13 DEF RevokeGrant
  <2> QED
    BY <1>13, <2>3, <2>4 DEF RevokeGrant, TypeInv, TypeOK, mrVars, ctlVars
<1>14. CASE DropClient(w)
  <2>1. Go(w, RemoveClientReturns(th)) /\ clients' \subseteq clients
    BY <1>14 DEF DropClient, th
  <2>2. t' \in [Threads -> Thread] /\ \A v \in Threads : ThreadOK(t'[v])
    BY <1>0, <2>1, RemoveClientReturnsType, GoType
  <2> QED
    BY <1>14, <2>1, <2>2 DEF DropClient, TypeInv, TypeOK, aafVars, mrVars, ctlVars
<1> QED
  BY <1>1, <1>2, <1>3, <1>4, <1>5, <1>6, <1>7, <1>8, <1>9, <1>10, <1>11, <1>12,
     <1>13, <1>14
  DEF ClientNext

LEMMA BridgeNextType ==
  ASSUME TypeInv, NEW w \in Threads, BridgeNext(w)
  PROVE  TypeInv'
<1> DEFINE th == t[w]
<1>0. th \in Thread /\ ThreadOK(th) /\ Reply("fail") \in Thread /\ ThreadOK(Reply("fail"))
  BY ReplyType DEF TypeInv, TypeOK, Codes
<1> HIDE DEF th
<1>1. CASE StartBridge(w)
  <2> DEFINE g == GraphOf(th.view, TRUE, layer)
             u(c) == [th EXCEPT !.locs = g, !.hub = c, !.wrong = FALSE, !.pc = "loc"]
  <2>1. g \subseteq Locs
    <3>1. DOMAIN layer = Locs
      BY DEF TypeInv, TypeOK
    <3> QED
      BY <3>1 DEF GraphOf
  <2>2. \/ Go(w, BridgeReturns(th, TRUE))
        \/ Go(w, Reply("fail"))
        \/ \E c \in CentralChoices(g, layer, NoLoc) : Go(w, u(c))
    BY <1>1 DEF StartBridge, ServerError, th
  <2> HIDE DEF g
  <2>3. CentralChoices(g, layer, NoLoc) \subseteq Locs \cup {NoLoc}
    BY <2>1 DEF CentralChoices
  <2>4. \A c \in Locs \cup {NoLoc} : u(c) \in Thread /\ u(c).pc = "loc"
    BY ZenonT(60), <1>0, <2>1 DEF Thread
  <2>5. t' \in [Threads -> Thread] /\ \A v \in Threads : ThreadOK(t'[v])
    <3> HIDE DEF u
    <3>1. CASE \E c \in CentralChoices(g, layer, NoLoc) : Go(w, u(c))
      <4>1. PICK c \in Locs \cup {NoLoc} : Go(w, u(c))
        BY <2>3, <3>1
      <4>2. u(c) \in Thread /\ ThreadOK(u(c))
        BY <2>4, <4>1, PlainType
      <4> QED
        BY <4>1, <4>2, GoType
    <3> QED
      BY <1>0, <2>2, <3>1, BridgeReturnsType, GoType
  <2> QED
    BY <1>1, <2>5 DEF StartBridge, TypeInv, TypeOK, aafVars, mrVars, ctlVars
<1>2. CASE VisitLoc(w)
  <2> DEFINE u(l) == [th EXCEPT !.locs = th.locs \ {l}, !.wrong = TRUE]
             p(l) == [th EXCEPT !.locs = th.locs \ {l}, !.pc = "plan",
                        !.plan = StepsAt(th.repl, th.hub, l, l \in ClusterLocs)]
  <2>1. PICK l \in th.locs : Go(w, u(l)) \/ Go(w, p(l))
    <3>1. PICK l \in th.locs :
            Go(w, IF th.repl = NotSpecified THEN [[th EXCEPT !.locs = th.locs \ {l}] EXCEPT !.wrong = TRUE]
                  ELSE [[th EXCEPT !.locs = th.locs \ {l}] EXCEPT !.pc = "plan",
                          !.plan = StepsAt(th.repl, th.hub, l, l \in ClusterLocs)])
      BY <1>2 DEF VisitLoc, th
    <3>2. /\ [[th EXCEPT !.locs = th.locs \ {l}] EXCEPT !.wrong = TRUE] = u(l)
          /\ [[th EXCEPT !.locs = th.locs \ {l}] EXCEPT !.pc = "plan",
                !.plan = StepsAt(th.repl, th.hub, l, l \in ClusterLocs)] = p(l)
      BY <1>0 DEF Thread
    <3> QED
      BY <3>1, <3>2
  <2>2. l \in Locs
    BY <1>0 DEF Thread
  <2>3. StepsAt(th.repl, th.hub, l, l \in ClusterLocs) \in Seq(Bridges \cup {Npe})
    BY <2>2, StepsType
  <2>4. u(l) \in Thread /\ u(l).pc = "loc"
    BY <1>0, <1>2 DEF Thread, VisitLoc, th
  <2>5. p(l) \in Thread /\ p(l).pc = "plan"
    BY <1>0, <2>3 DEF Thread
  <2>6. t' \in [Threads -> Thread] /\ \A v \in Threads : ThreadOK(t'[v])
    <3> HIDE DEF u, p
    <3> QED
      BY <2>1, <2>4, <2>5, PlainType, GoType
  <2> QED
    BY <1>2, <2>6 DEF VisitLoc, TypeInv, TypeOK, aafVars, mrVars, ctlVars
<1>3. CASE EndBridge(w)
  <2>1. Go(w, BridgeReturns(th, ~th.wrong))
    BY <1>3 DEF EndBridge, th
  <2>2. t' \in [Threads -> Thread] /\ \A v \in Threads : ThreadOK(t'[v])
    BY <1>0, <2>1, BridgeReturnsType, GoType
  <2> QED
    BY <1>3, <2>2 DEF EndBridge, TypeInv, TypeOK, aafVars, mrVars, ctlVars
<1>4. CASE ReadMm(w)
  <2> DEFINE b == Head(th.plan)
             list == IF b \in DOMAIN mirrors THEN mirrors[b] ELSE <<>>
             m == Append(list, th.fqtn)
             p == [th EXCEPT !.pc = "loc"]
             u == [th EXCEPT !.pc = "mmCreate", !.mm = m]
  <2>1. \/ Go(w, p) \/ Go(w, Reply("fail"))
        \/ th.plan # <<>> /\ b # Npe /\ Go(w, u)
    BY <1>4 DEF ReadMm, ServerError, th
  <2>2. th.fqtn \in Topics /\ th.plan \in Seq(Bridges \cup {Npe})
    BY <1>0 DEF Thread
  <2>3. th.plan # <<>> /\ b # Npe => b \in Bridges
    BY <2>2
  <2>4. m \in Seq(Topics)
    <3>1. list \in Seq(Topics)
      BY DEF TypeInv, TypeOK
    <3> QED
      BY <2>2, <3>1
  <2>5. p \in Thread /\ p.pc = "loc"
    BY <1>0 DEF Thread
  <2> HIDE DEF m
  <2>6. u \in Thread /\ u.pc = "mmCreate" /\ u.plan = th.plan
    BY <1>0, <2>4 DEF Thread
  <2>7. th.plan # <<>> /\ b # Npe => ThreadOK(u)
    <3> HIDE DEF u
    <3> QED
      BY <2>3, <2>6 DEF ThreadOK
  <2>8. t' \in [Threads -> Thread] /\ \A v \in Threads : ThreadOK(t'[v])
    <3> HIDE DEF u, p
    <3> QED
      BY <1>0, <2>1, <2>5, <2>6, <2>7, PlainType, GoType
  <2> QED
    BY <1>4, <2>8 DEF ReadMm, TypeInv, TypeOK, aafVars, mrVars, ctlVars
<1>5. CASE SendCreate(w)
  <2> DEFINE u1 == [th EXCEPT !.err = "fail", !.wrong = TRUE, !.locs = {}, !.plan = <<>>,
                              !.pc = "loc"]
             u2 == [th EXCEPT !.pc = "mmPut"]
             u3 == [th EXCEPT !.pc = "mmWhitelist"]
  <2>1. Go(w, u1) \/ Go(w, u2) \/ Go(w, u3)
    BY <1>5 DEF SendCreate, th
  <2>2. th.plan # <<>> /\ Head(th.plan) \in Bridges
    BY <1>0, <1>5 DEF SendCreate, ThreadOK, th
  <2>3. u1 \in Thread /\ u1.pc = "loc"
    <3>1. <<>> \in Seq(Bridges \cup {Npe}) /\ "fail" \in Codes
      BY DEF Codes
    <3> QED
      BY <1>0, <3>1 DEF Thread
  <2>4. /\ u2 \in Thread /\ u2.pc = "mmPut" /\ u2.plan = th.plan
        /\ u3 \in Thread /\ u3.pc = "mmWhitelist" /\ u3.plan = th.plan
    BY <1>0 DEF Thread
  <2>6. t' \in [Threads -> Thread] /\ \A v \in Threads : ThreadOK(t'[v])
    <3> HIDE DEF u1, u2, u3
    <3>1. ThreadOK(u1) /\ ThreadOK(u2) /\ ThreadOK(u3)
      BY <2>2, <2>3, <2>4 DEF ThreadOK
    <3> QED
      BY <2>1, <2>3, <2>4, <3>1, GoType
  <2> QED
    BY <1>5, <2>6 DEF SendCreate, TypeInv, TypeOK, aafVars, mrVars, ctlVars
<1>6. CASE SendWhitelist(w)
  <2> DEFINE b == Head(th.plan)
             u == [th EXCEPT !.pc = "mmPut"]
  <2>1. th.plan # <<>> /\ b \in Bridges /\ th.mm \in Seq(Topics)
    BY <1>0, <1>6 DEF SendWhitelist, ThreadOK, Thread, th
  <2>2. Go(w, u)
    BY <1>6 DEF SendWhitelist, th
  <2>3. agent' \in {agent, Set(agent, b, th.mm)}
    BY <1>6 DEF SendWhitelist, th
  <2>4. u \in Thread /\ u.pc = "mmPut" /\ u.plan = th.plan
    BY <1>0 DEF Thread
  <2>5. t' \in [Threads -> Thread] /\ \A v \in Threads : ThreadOK(t'[v])
    <3> HIDE DEF u
    <3>1. ThreadOK(u)
      BY <2>1, <2>4 DEF ThreadOK
    <3> QED
      BY <2>2, <2>4, <3>1, GoType
  <2>6. DOMAIN agent' \subseteq Bridges /\ agent' \in [DOMAIN agent' -> Seq(Topics)]
    BY <2>1, <2>3 DEF Set, TypeInv, TypeOK
  <2> QED
    BY <1>6, <2>5, <2>6 DEF SendWhitelist, TypeInv, TypeOK, aafVars, ctlVars
<1>7. CASE PutMm(w)
  <2> DEFINE b == Head(th.plan)
             u == [th EXCEPT !.plan = Tail(th.plan), !.pc = "plan"]
  <2>1. th.plan # <<>> /\ b \in Bridges /\ th.mm \in Seq(Topics)
    BY <1>0, <1>7 DEF PutMm, ThreadOK, Thread, th
  <2>2. Tail(th.plan) \in Seq(Bridges \cup {Npe})
    BY <1>0, <2>1 DEF Thread
  <2>3. u \in Thread /\ u.pc = "plan"
    BY <1>0, <2>2 DEF Thread
  <2>4. Go(w, u) /\ mirrors' = Set(mirrors, b, th.mm)
    BY <1>7 DEF PutMm, th
  <2>5. t' \in [Threads -> Thread] /\ \A v \in Threads : ThreadOK(t'[v])
    <3> HIDE DEF u
    <3> QED
      BY <2>3, <2>4, PlainType, GoType
  <2>6. DOMAIN mirrors' \subseteq Bridges /\ mirrors' \in [DOMAIN mirrors' -> Seq(Topics)]
    BY <2>1, <2>4 DEF Set, TypeInv, TypeOK
  <2> QED
    BY <1>7, <2>5, <2>6 DEF PutMm, TypeInv, TypeOK, aafVars, mrVars, ctlVars
<1> QED
  BY <1>1, <1>2, <1>3, <1>4, <1>5, <1>6, <1>7 DEF BridgeNext

LEMMA ClusterNextType ==
  ASSUME TypeInv, NEW w \in Threads, ClusterNext(w)
  PROVE  TypeInv'
<1> DEFINE th == t[w]
           at(q) == [th EXCEPT !.pc = q]
<1>0. /\ th \in Thread /\ ThreadOK(th)
      /\ th.rq \in Request /\ th.rq.loc \in Locs
  BY ConstantsAssumption DEF TypeInv, TypeOK, Thread, Request
<1>a. \A code \in {"success", "ok", "fail", "notFound", "conflict"} :
        Reply(code) \in Thread /\ ThreadOK(Reply(code))
  BY ReplyType DEF Codes
<1>b. \A st : ClusterAnswer(st) \in Thread /\ ThreadOK(ClusterAnswer(st))
  BY <1>a DEF ClusterAnswer, Success
<1>c. \A q \in {"clusterPut", "clusterRemove", "clusterLoc", "locPut"} :
        at(q) \in Thread /\ ThreadOK(at(q))
  <2>1. \A q \in {"clusterPut", "clusterRemove", "clusterLoc", "locPut"} :
          at(q) \in Thread /\ at(q).pc = q
    BY <1>0 DEF Thread
  <2> HIDE DEF at
  <2> QED
    BY <2>1, PlainType
<1>d. ASSUME NEW l \in Locs
      PROVE  AddAdminTopic(th, l) \in Thread /\ ThreadOK(AddAdminTopic(th, l))
  <2> DEFINE S(role) == [loc |-> l, role |-> role, acts |-> Actions]
             todo == <<S(ProvRole), S(AgentRole)>>
             u == [th EXCEPT !.fqtn = AdminTopic, !.repl = NotSpecified, !.pc = "exists",
                             !.todo = todo]
  <2>1. \A role \in Roles : S(role) \in ClientSpec
    BY DEF ClientSpec
  <2>2. todo \in Seq(ClientSpec)
    <3> HIDE DEF S
    <3> QED
      BY <2>1, ConstantsAssumption
  <2>3. AdminTopic \in Topics /\ NotSpecified \in ReplCases
    BY ConstantsAssumption DEF ReplCases
  <2> HIDE DEF todo
  <2>4. u \in Thread /\ u.pc = "exists"
    BY <1>0, <2>2, <2>3 DEF Thread
  <2>5. u = AddAdminTopic(th, l)
    BY DEF AddAdminTopic, todo
  <2> HIDE DEF u
  <2> QED
    BY <2>4, <2>5, PlainType
<1> HIDE DEF th, at
<1>1. CASE GetCluster(w)
  <2>1. \/ Go(w, Reply("conflict")) \/ Go(w, Reply("notFound"))
        \/ Go(w, at("clusterPut")) \/ Go(w, at("clusterRemove"))
    BY <1>1 DEF GetCluster, th, at
  <2>2. t' \in [Threads -> Thread] /\ \A v \in Threads : ThreadOK(t'[v])
    BY <1>a, <1>c, <2>1, GoType
  <2> QED
    BY <1>1, <2>2 DEF GetCluster, TypeInv, TypeOK, aafVars, mrVars, ctlVars
<1>2. CASE PutCluster(w)
  <2>1. Go(w, at("clusterLoc")) /\ clusters' = [clusters EXCEPT ![th.rq.loc] = ClusterStatus(th)]
    BY <1>2 DEF PutCluster, th, at
  <2>2. ClusterStatus(th) \in Statuses
    BY <1>0 DEF ClusterStatus, Request, Statuses
  <2>3. clusters' \in [Locs -> Statuses \cup {Absent}]
    BY <1>0, <2>1, <2>2 DEF TypeInv, TypeOK
  <2>4. t' \in [Threads -> Thread] /\ \A v \in Threads : ThreadOK(t'[v])
    BY <1>c, <2>1, GoType
  <2> QED
    BY <1>2, <2>3, <2>4 DEF PutCluster, TypeInv, TypeOK, aafVars, mrVars, ctlVars
<1>3. CASE ClusterLocation(w)
  <2>1. \/ Go(w, AddAdminTopic(th, th.rq.loc)) \/ Go(w, Reply("fail"))
        \/ Go(w, ClusterAnswer(ClusterStatus(th)))
    BY <1>3 DEF ClusterLocation, ServerError, th
  <2>2. t' \in [Threads -> Thread] /\ \A v \in Threads : ThreadOK(t'[v])
    BY <1>0, <1>a, <1>b, <1>d, <2>1, GoType
  <2> QED
    BY <1>3, <2>2 DEF ClusterLocation, TypeInv, TypeOK, aafVars, mrVars, ctlVars
<1>4. CASE InvalidateCluster(w)
  <2>1. clusters' = [clusters EXCEPT ![th.rq.loc] = "INVALID"] /\ Go(w, ClusterAnswer("INVALID"))
    BY <1>4 DEF InvalidateCluster, th
  <2>2. clusters' \in [Locs -> Statuses \cup {Absent}]
    BY <1>0, <2>1 DEF TypeInv, TypeOK, Statuses
  <2>3. t' \in [Threads -> Thread] /\ \A v \in Threads : ThreadOK(t'[v])
    BY <1>b, <2>1, GoType
  <2> QED
    BY <1>4, <2>2, <2>3 DEF InvalidateCluster, TypeInv, TypeOK, aafVars, mrVars, ctlVars
<1>5. CASE RemoveCluster(w)
  <2>1. clusters' = [clusters EXCEPT ![th.rq.loc] = Absent] /\ Go(w, Reply("success"))
    BY <1>5 DEF RemoveCluster, Success, th
  <2>2. clusters' \in [Locs -> Statuses \cup {Absent}]
    BY <1>0, <2>1 DEF TypeInv, TypeOK
  <2>3. t' \in [Threads -> Thread] /\ \A v \in Threads : ThreadOK(t'[v])
    BY <1>a, <2>1, GoType
  <2> QED
    BY <1>5, <2>2, <2>3 DEF RemoveCluster, TypeInv, TypeOK, aafVars, mrVars, ctlVars
<1>6. CASE CentralLocation(w)
  <2>1. PICK l \in CentralChoices(Locs, layer, DefaultCentral) : Go(w, AddAdminTopic(th, l))
    BY <1>6 DEF CentralLocation, th
  <2>2. l \in Locs
    BY <2>1, ConstantsAssumption DEF CentralChoices
  <2>3. t' \in [Threads -> Thread] /\ \A v \in Threads : ThreadOK(t'[v])
    BY <1>d, <2>1, <2>2, GoType
  <2> QED
    BY <1>6, <2>3 DEF CentralLocation, TypeInv, TypeOK, aafVars, mrVars, ctlVars
<1>7. CASE GetLocation(w)
  <2>1. Go(w, Reply("conflict")) \/ Go(w, Reply("notFound")) \/ Go(w, at("locPut"))
    BY <1>7 DEF GetLocation, th, at
  <2>2. t' \in [Threads -> Thread] /\ \A v \in Threads : ThreadOK(t'[v])
    BY <1>a, <1>c, <2>1, GoType
  <2> QED
    BY <1>7, <2>2 DEF GetLocation, TypeInv, TypeOK, aafVars, mrVars, ctlVars
<1>8. CASE PutLocation(w)
  <2>1. layer' = [layer EXCEPT ![th.rq.loc] = th.rq.layer] /\ Go(w, Reply("success"))
    BY <1>8 DEF PutLocation, Success, th
  <2>2. layer' \in [Locs -> {Absent, "edge", "central"}]
    BY <1>0, <2>1 DEF TypeInv, TypeOK, Request
  <2>3. t' \in [Threads -> Thread] /\ \A v \in Threads : ThreadOK(t'[v])
    BY <1>a, <2>1, GoType
  <2> QED
    BY <1>8, <2>2, <2>3 DEF PutLocation, TypeInv, TypeOK, aafVars, mrVars, ctlVars
<1>9. CASE RemoveLocation(w)
  <2>1. layer' = [layer EXCEPT ![th.rq.loc] = Absent] /\ Go(w, Reply("success"))
    BY <1>9 DEF RemoveLocation, Success, th
  <2>2. layer' \in [Locs -> {Absent, "edge", "central"}]
    BY <1>0, <2>1 DEF TypeInv, TypeOK
  <2>3. t' \in [Threads -> Thread] /\ \A v \in Threads : ThreadOK(t'[v])
    BY <1>a, <2>1, GoType
  <2> QED
    BY <1>9, <2>2, <2>3 DEF RemoveLocation, TypeInv, TypeOK, aafVars, mrVars, ctlVars
<1> QED
  BY <1>1, <1>2, <1>3, <1>4, <1>5, <1>6, <1>7, <1>8, <1>9 DEF ClusterNext

(* A request starts at the first step of its resource method.              *)
LEMMA StartType ==
  ASSUME TypeInv, NEW w \in Threads, Start(w)
  PROVE  TypeInv'
<1> DEFINE u(r) == [Idle EXCEPT !.pc = FirstStep(r), !.rq = r, !.fqtn = r.fqtn,
                      !.repl = r.repl, !.todo = r.clients, !.dels = {r.id}]
<1>1. PICK r \in Requests : Go(w, u(r))
  BY DEF Start
<1>2. r \in Request
  BY ConstantsAssumption
<1>3. /\ FirstStep(r) \in {"review", "exists", "list", "cluster", "lookup", "find",
                           "central", "clusterGet", "locGet", "locRemove"}
      /\ FirstStep(r) = "cluster" => r.op = "postClient"
      /\ FirstStep(r) = "lookup" => r.op = "putClient"
  BY DEF FirstStep
<1>4. u(r) \in Thread /\ u(r).pc = FirstStep(r) /\ u(r).rq = r
  <2>1. /\ r.fqtn \in Topics /\ r.repl \in ReplCases /\ r.clients \in Seq(ClientSpec)
        /\ r.id \in Nat
    BY <1>2 DEF Request
  <2>2. PICK q \in {"review", "exists", "list", "cluster", "lookup", "find",
                    "central", "clusterGet", "locGet", "locRemove"} : q = FirstStep(r)
    BY <1>3
  <2>3. LET v == [Idle EXCEPT !.pc = q, !.rq = r, !.fqtn = r.fqtn,
                    !.repl = r.repl, !.todo = r.clients, !.dels = {r.id}]
        IN  v \in Thread /\ v.pc = q /\ v.rq = r
    BY ZenonT(60), <2>1, IdleType DEF Thread
  <2> QED
    BY <2>2, <2>3
<1>5. ThreadOK(u(r))
  <2> HIDE DEF u
  <2> QED
    BY <1>3, <1>4 DEF ThreadOK
<1>6. t' \in [Threads -> Thread] /\ \A v \in Threads : ThreadOK(t'[v])
  <2> HIDE DEF u
  <2> QED
    BY <1>1, <1>4, <1>5, GoType
<1>7. served' \in 0..MaxRequests
  BY ConstantsAssumption DEF Start, TypeInv, TypeOK
<1> QED
  BY <1>6, <1>7 DEF Start, TypeInv, TypeOK, aafVars, mrVars

LEMMA InitType == Init => TypeInv
<1> SUFFICES ASSUME Init PROVE TypeInv
  OBVIOUS
<1>1. \A w \in Threads : t[w] = Idle
  BY DEF Init
<1>2. t \in [Threads -> Thread] /\ \A w \in Threads : ThreadOK(t[w])
  BY <1>1, IdleType DEF Init
<1>3. mirrors = <<>> /\ agent = <<>> /\ DOMAIN <<>> = {}
  BY DEF Init
<1>4. /\ DOMAIN mirrors \subseteq Bridges /\ mirrors \in [DOMAIN mirrors -> Seq(Topics)]
      /\ DOMAIN agent \subseteq Bridges /\ agent \in [DOMAIN agent -> Seq(Topics)]
  BY <1>3
<1>5. /\ layer \in [Locs -> {Absent, "edge", "central"}]
      /\ clusters \in [Locs -> Statuses \cup {Absent}]
      /\ topics \in [Topics -> ReplCases \cup {Absent}]
      /\ served \in 0..MaxRequests /\ exits \in 0..MaxExits
      /\ clients \subseteq Client /\ perms = {} /\ grants = {} /\ created = {} /\ nextId = 1
  BY ConstantsAssumption DEF Init, Statuses
<1> QED
  BY <1>2, <1>4, <1>5 DEF TypeInv, TypeOK

LEMMA NextType == TypeInv /\ [Next]_vars => TypeInv'
<1> SUFFICES ASSUME TypeInv, [Next]_vars PROVE TypeInv'
  OBVIOUS
<1>1. CASE \E w \in Threads : Start(w) \/ Serve(w)
  BY <1>1, StartType, TopicNextType, ClientNextType, BridgeNextType, ClusterNextType DEF Serve
<1>2. CASE ExitProcess
  <2>1. t' \in [Threads -> Thread] /\ \A w \in Threads : ThreadOK(t'[w])
    BY <1>2, IdleType DEF ExitProcess
  <2>2. exits' \in 0..MaxExits
    BY <1>2, ConstantsAssumption DEF ExitProcess, TypeInv, TypeOK
  <2> QED
    BY <1>2, <2>1, <2>2 DEF ExitProcess, TypeInv, TypeOK, aafVars, mrVars
<1>3. CASE Finished \/ UNCHANGED vars
  BY <1>3 DEF Finished, vars, TypeInv, TypeOK
<1> QED
  BY <1>1, <1>2, <1>3 DEF Next

(* Every variable and every thread record keeps its type, and a thread at  *)
(* a step of one operation serves a request for it (the null dereferences  *)
(* of the code are steps of the model, none of them is left undefined).    *)
THEOREM TypeCorrect == Spec => []TypeOK
<1>1. TypeInv => TypeOK
  BY DEF TypeInv
<1> QED
  BY <1>1, InitType, NextType, PTL DEF Spec
=============================================================================
