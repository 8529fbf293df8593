---------------------------- MODULE MrAafProofs ----------------------------
(***************************************************************************)
(* What AAF holds once a topic or a client is stored, for every value of   *)
(* the constants: any number of threads, any requests, failed AAF calls    *)
(* and process exits at any point.  Both theorems have the same argument:  *)
(* a thread that is past the AAF calls of a topic (of a client) has made   *)
(* them all, and nothing takes permissions (grants) away.                  *)
(***************************************************************************)
EXTENDS MrProvisioningProofs

-----------------------------------------------------------------------------
(* Permissions.  Working: the steps between a topic's last addPerm (or the *)
(* read of a stored topic) and the put of the topic.                       *)
Working == {"next", "grant", "centrals", "post", "reread", "bridge", "loc", "plan",
            "mmCreate", "mmWhitelist", "mmPut", "putTopic"}

PermsHeld(th, P) ==
  /\ th.pc = "perm" => {th.fqtn} \X (Actions \ th.left) \subseteq P
  /\ th.pc \in Working => {th.fqtn} \X Actions \subseteq P

PermsInv == TopicHasPerms /\ \A w \in Threads : PermsHeld(t[w], perms)

(* From one step of a request to the next, a topic stays the same.         *)
Continues(th, u) == u.pc \in Working => th.pc \in Working /\ u.fqtn = th.fqtn

LEMMA ReturnsPc ==
  ASSUME NEW th \in Thread, NEW x
  PROVE  /\ AddClientFails(th).pc \in {"idle", "clusterInvalid"}
         /\ AddTopicReturns(th, x).pc \in {"idle", "clusterInvalid"}
         /\ BridgeReturns(th, x).pc \in {"idle", "clusterInvalid", "putTopic", "revoke"}
         /\ BridgeReturns(th, x).pc = "putTopic" => BridgeReturns(th, x).fqtn = th.fqtn
         /\ RemoveClientReturns(th).pc \in {"idle", "dropTopic", "find"}
<1>1. \A code : Reply(code).pc = "idle"
  BY DEF Reply, Idle
<1>2. \A q : LET u == [th EXCEPT !.pc = q] IN u.pc = q /\ u.fqtn = th.fqtn
  BY DEF Thread
<1>3. AddTopicReturns(th, x).pc \in {"idle", "clusterInvalid"}
      /\ AddTopicReturns(th, FALSE).pc \in {"idle", "clusterInvalid"}
  BY <1>1, <1>2 DEF AddTopicReturns, ClusterAnswer, Success
<1>4. /\ BridgeReturns(th, x).pc \in {"idle", "clusterInvalid", "putTopic", "revoke"}
      /\ BridgeReturns(th, x).pc = "putTopic" => BridgeReturns(th, x).fqtn = th.fqtn
  BY <1>1, <1>2, <1>3 DEF BridgeReturns, Success
<1>5. RemoveClientReturns(th).pc \in {"idle", "dropTopic", "find"}
  BY RemoveClientReturnsType
<1>6. AddClientFails(th).pc \in {"idle", "clusterInvalid"}
  BY <1>1, <1>3 DEF AddClientFails
<1> QED
  BY <1>3, <1>4, <1>5, <1>6

(* A step that only carries a topic on, and neither stores a topic nor     *)
(* takes a permission away.                                                *)
LEMMA CarriesOn ==
  ASSUME TypeInv, PermsInv, NEW w \in Threads, NEW u, Go(w, u),
         u.pc # "perm", Continues(t[w], u), perms \subseteq perms',
         \A f \in Topics : topics'[f] # Absent => topics[f] # Absent
  PROVE  PermsInv'
<1>1. TopicHasPerms'
  BY DEF PermsInv, TopicHasPerms
<1>2. \A v \in Threads : t'[v] = IF v = w THEN u ELSE t[v]
  BY DEF Go, TypeInv, TypeOK
<1>3. PermsHeld(u, perms')
  BY DEF PermsInv, PermsHeld, Continues, TypeInv, TypeOK
<1>4. \A v \in Threads : PermsHeld(t[v], perms')
  BY DEF PermsInv, PermsHeld
<1> QED
  BY <1>1, <1>2, <1>3, <1>4 DEF PermsInv

LEMMA TopicNextPerms ==
  ASSUME TypeInv, PermsInv, NEW w \in Threads, TopicNext(w)
  PROVE  PermsInv'
<1> DEFINE th == t[w]
<1>0. th \in Thread /\ PermsHeld(th, perms)
  BY DEF TypeInv, TypeOK, PermsInv
<1> HIDE DEF th
<1>1. CASE Review(w)
  <2>1. PICK r : Go(w, [th EXCEPT !.repl = r, !.pc = "exists"])
    BY <1>1 DEF Review, th
  <2>2. LET u == [th EXCEPT !.repl = r, !.pc = "exists"] IN u.pc = "exists"
    BY <1>0 DEF Thread
  <2> QED
    BY <1>1, <2>1, <2>2, CarriesOn DEF Review, aafVars, Continues, Working
<1>2. CASE Exists(w)
  <2> DEFINE u == [th EXCEPT !.err = "notFound", !.left = Actions, !.pc = "perm"]
             v == AddTopicReturns([th EXCEPT !.err = "conflict"], FALSE)
  <2>1. /\ Go(w, u) \/ Go(w, v)
        /\ UNCHANGED <<topics, perms>>
    BY <1>2 DEF Exists, aafVars, th
  <2>2. u.pc = "perm" /\ u.fqtn = th.fqtn /\ u.left = Actions
    BY <1>0 DEF Thread
  <2>3. v.pc \in {"idle", "clusterInvalid"}
    <3>1. [th EXCEPT !.err = "conflict"] \in Thread
      BY <1>0 DEF Thread, Codes
    <3> QED
      BY <3>1, ReturnsPc
  <2> HIDE DEF u, v
  <2>4. CASE Go(w, u)
    <3>1. \A x \in Threads : t'[x] = IF x = w THEN u ELSE t[x]
      BY <2>4 DEF Go, TypeInv, TypeOK
    <3>2. PermsHeld(u, perms')
      BY <2>2 DEF PermsHeld, Working
    <3> QED
      BY <2>1, <3>1, <3>2 DEF PermsInv, TopicHasPerms
  <2>5. CASE Go(w, v)
    BY <2>1, <2>3, <2>5, CarriesOn DEF Continues, Working
  <2> QED
    BY <2>1, <2>4, <2>5
<1>3. CASE AddPerm(w)
  <2> DEFINE u(a) == [th EXCEPT !.left = th.left \ {a},
                                !.pc = IF th.left = {a} THEN "next" ELSE "perm"]
             v == AddTopicReturns([th EXCEPT !.err = "fail"], FALSE)
  <2>1. PICK a \in th.left :
          \/ perms' = perms \cup {<<th.fqtn, a>>} /\ Go(w, u(a))
          \/ perms' \in {perms, perms \cup {<<th.fqtn, a>>}} /\ Go(w, v)
    BY <1>3 DEF AddPerm, th
  <2>2. th.pc = "perm" /\ topics' = topics
    BY <1>3 DEF AddPerm, th
  <2>3. /\ u(a).pc = IF th.left = {a} THEN "next" ELSE "perm"
        /\ u(a).fqtn = th.fqtn /\ u(a).left = th.left \ {a}
    BY <1>0 DEF Thread
  <2>4. v.pc \in {"idle", "clusterInvalid"}
    <3>1. [th EXCEPT !.err = "fail"] \in Thread
      BY <1>0 DEF Thread, Codes
    <3> QED
      BY <3>1, ReturnsPc
  <2> HIDE DEF u, v
  <2>5. CASE perms' = perms \cup {<<th.fqtn, a>>} /\ Go(w, u(a))
    <3>1. \A x \in Threads : t'[x] = IF x = w THEN u(a) ELSE t[x]
      BY <2>5 DEF Go, TypeInv, TypeOK
    <3>2. {th.fqtn} \X (Actions \ (th.left \ {a})) \subseteq perms'
      BY <1>0, <2>2, <2>5 DEF PermsHeld
    <3>3. PermsHeld(u(a), perms')
      <4>1. CASE th.left = {a}
        BY <2>3, <3>2, <4>1 DEF PermsHeld, Working
      <4>2. CASE th.left # {a}
        BY <2>3, <3>2, <4>2 DEF PermsHeld, Working
      <4> QED
        BY <4>1, <4>2
    <3>4. \A x \in Threads : PermsHeld(t[x], perms')
      BY <2>5 DEF PermsInv, PermsHeld
    <3> QED
      BY <2>2, <2>5, <3>1, <3>3, <3>4 DEF PermsInv, TopicHasPerms
  <2>6. CASE perms' \in {perms, perms \cup {<<th.fqtn, a>>}} /\ Go(w, v)
    BY <2>2, <2>4, <2>6, CarriesOn DEF Continues, Working
  <2> QED
    BY <2>1, <2>5, <2>6
<1>4. CASE NextClient(w)
  <2> DEFINE rest == [th EXCEPT !.todo = Tail(th.todo)]
  <2>1. CASE th.todo = <<>>
    <3> DEFINE u == [th EXCEPT !.pc = "bridge"]
    <3>1. Go(w, u) /\ th.pc = "next"
      BY <1>4, <2>1 DEF NextClient, th
    <3>2. u.pc = "bridge" /\ u.fqtn = th.fqtn
      BY <1>0 DEF Thread
    <3> HIDE DEF u
    <3> QED
      BY <1>4, <3>1, <3>2, CarriesOn DEF NextClient, aafVars, Continues, Working, th
  <2>2. CASE th.todo # <<>>
    <3>1. th.pc = "next" /\ UNCHANGED <<topics, perms>>
      BY <1>4 DEF NextClient, aafVars, th
    <3>2. \/ \E c, as : Go(w, [rest EXCEPT !.pc = "grant", !.left = as, !.cur = c])
          \/ \E V : Go(w, [rest EXCEPT !.view = V])
          \/ Go(w, AddTopicReturns(rest, FALSE))
      BY <1>4, <2>2 DEF NextClient, th
    <3>3. rest \in Thread /\ rest.pc = "next" /\ rest.fqtn = th.fqtn
      <4>1. Tail(th.todo) \in Seq(ClientSpec)
        BY <1>0, <2>2 DEF Thread
      <4>2. LET r == [th EXCEPT !.todo = Tail(th.todo)]
            IN  r.pc = th.pc /\ r.fqtn = th.fqtn
        BY <1>0 DEF Thread
      <4>3. rest \in Thread
        BY <1>0, <4>1 DEF Thread
      <4> QED
        BY <3>1, <4>2, <4>3
    <3> HIDE DEF rest
    <3>4. PICK u : Go(w, u) /\ u.pc # "perm" /\ Continues(th, u)
      <4>1. \A c, as : LET u == [rest EXCEPT !.pc = "grant", !.left = as, !.cur = c]
                       IN  u.pc = "grant" /\ u.fqtn = th.fqtn
        BY <3>3 DEF Thread
      <4>2. \A V : LET u == [rest EXCEPT !.view = V] IN u.pc = "next" /\ u.fqtn = th.fqtn
        BY <3>3 DEF Thread
      <4>3. AddTopicReturns(rest, FALSE).pc \in {"idle", "clusterInvalid"}
        BY <3>3, ReturnsPc
      <4> DEFINE Fine(u) == Go(w, u) /\ u.pc # "perm" /\ Continues(th, u)
      <4>4. ASSUME NEW c, NEW as,
                   Go(w, [rest EXCEPT !.pc = "grant", !.left = as, !.cur = c])
            PROVE  Fine([rest EXCEPT !.pc = "grant", !.left = as, !.cur = c])
        BY <3>1, <4>1, <4>4 DEF Continues, Working
      <4>5. ASSUME NEW V, Go(w, [rest EXCEPT !.view = V])
            PROVE  Fine([rest EXCEPT !.view = V])
        BY <3>1, <4>2, <4>5 DEF Continues, Working
      <4>6. Go(w, AddTopicReturns(rest, FALSE)) => Fine(AddTopicReturns(rest, FALSE))
        BY <4>3 DEF Continues, Working
      <4> HIDE DEF Fine
      <4>7. \E u : Fine(u)
        BY <3>2, <4>4, <4>5, <4>6
      <4> QED
        BY <4>7 DEF Fine
    <3> QED
      BY <3>1, <3>4, CarriesOn DEF th
  <2> QED
    BY <2>1, <2>2
<1>5. CASE PutTopic(w)
  <2> DEFINE ok == [th EXCEPT !.err = "ok"]
             u  == [ok EXCEPT !.pc = "revoke"]
             v  == AddTopicReturns(ok, TRUE)
  <2>1. th.pc = "putTopic" /\ perms' = perms /\ topics' = [topics EXCEPT ![th.fqtn] = th.repl]
    BY <1>0, <1>5 DEF PutTopic, aafVars, Thread, th
  <2>2. ok \in Thread
    BY <1>0 DEF Thread, Codes
  <2>3. PICK y : Go(w, y) /\ y.pc \in {"revoke", "idle", "clusterInvalid"}
    <3>1. Go(w, u) \/ Go(w, v)
      BY <1>5 DEF PutTopic, th
    <3>2. u.pc = "revoke"
      BY <2>2 DEF Thread
    <3>3. v.pc \in {"idle", "clusterInvalid"}
      BY <2>2, ReturnsPc
    <3> QED
      BY <3>1, <3>2, <3>3
  <2>4. {th.fqtn} \X Actions \subseteq perms
    BY <1>0, <2>1 DEF PermsHeld, Working
  <2>5. TopicHasPerms'
    <3> SUFFICES ASSUME NEW f \in Topics, topics'[f] # Absent
                 PROVE  {f} \X Actions \subseteq perms
      BY <2>1 DEF TopicHasPerms
    <3>1. CASE f = th.fqtn
      BY <2>4, <3>1
    <3>2. CASE f # th.fqtn
      BY <2>1, <3>2 DEF PermsInv, TopicHasPerms, TypeInv, TypeOK
    <3> QED
      BY <3>1, <3>2
  <2>6. \A x \in Threads : t'[x] = IF x = w THEN y ELSE t[x]
    BY <2>3 DEF Go, TypeInv, TypeOK
  <2>7. PermsHeld(y, perms)
    BY <2>3 DEF PermsHeld, Working
  <2> QED
    BY <2>1, <2>5, <2>6, <2>7 DEF PermsInv
<1>6. CASE ListClients(w)
  <2>1. \E ids : \/ Go(w, Reply("notFound"))
                 \/ Go(w, [th EXCEPT !.dels = ids, !.err = "ok", !.pc = "dropTopic"])
                 \/ Go(w, [th EXCEPT !.dels = ids, !.err = "ok", !.pc = "find"])
    BY <1>6 DEF ListClients, th
  <2>2. PICK u : Go(w, u) /\ u.pc \in {"idle", "dropTopic", "find"}
    <3>1. \A ids : \A q : [th EXCEPT !.dels = ids, !.err = "ok", !.pc = q].pc = q
      BY <1>0 DEF Thread
    <3>2. Reply("notFound").pc = "idle"
      BY DEF Reply, Idle
    <3> QED
      BY <2>1, <3>1, <3>2
  <2> QED
    BY <1>6, <2>2, CarriesOn DEF ListClients, aafVars, Continues, Working
<1>7. CASE DropTopic(w)
  <2>1. Go(w, Success) /\ Success.pc = "idle" /\ perms' = perms
    BY <1>7 DEF DropTopic, aafVars, Success, Reply, Idle
  <2>2. \A f \in Topics : topics'[f] # Absent => topics[f] # Absent
    BY <1>7 DEF DropTopic, TypeInv, TypeOK
  <2> QED
    BY <2>1, <2>2, CarriesOn DEF Continues, Working
<1> QED
  BY <1>1, <1>2, <1>3, <1>4, <1>5, <1>6, <1>7 DEF TopicNext

(* A step that begins to work on a stored topic.                           *)
LEMMA TakesUp ==
  ASSUME TypeInv, PermsInv, NEW w \in Threads, NEW u, Go(w, u),
         u.pc # "perm", u.fqtn \in Topics, topics[u.fqtn] # Absent,
         UNCHANGED <<topics, perms>>
  PROVE  PermsInv'
<1>1. \A v \in Threads : t'[v] = IF v = w THEN u ELSE t[v]
  BY DEF Go, TypeInv, TypeOK
<1>2. PermsHeld(u, perms)
  BY DEF PermsInv, PermsHeld, TopicHasPerms
<1> QED
  BY <1>1, <1>2 DEF PermsInv, TopicHasPerms

LEMMA ClientNextPerms ==
  ASSUME TypeInv, PermsInv, NEW w \in Threads, ClientNext(w)
  PROVE  PermsInv'
<1> DEFINE th == t[w]
           Fine(u) == Go(w, u) /\ u.pc # "perm" /\ Continues(th, u)
<1>0. th \in Thread /\ UNCHANGED <<topics, perms>>
  BY DEF TypeInv, TypeOK, ClientNext, FindCluster, FindTopic, Grant, Place, ListCentrals,
     PostToCluster, StoreClient, Reread, LookupClient, OverwriteClient, FindClient,
     ViewTopic, RevokeGrant, DropClient, aafVars
<1>a. \A u : Fine(u) => PermsInv'
  BY <1>0, CarriesOn
<1>b. \A u : Go(w, u) /\ u.pc \notin Working \cup {"perm"} => PermsInv'
  BY <1>a DEF Continues
<1>c. \A code : Reply(code).pc = "idle" /\ ~("idle" \in Working \cup {"perm"})
  BY DEF Reply, Idle, Working
<1>d. \A code : Go(w, Reply(code)) => PermsInv'
  BY <1>b, <1>c
<1>e. \A v \in Thread : Go(w, AddClientFails(v)) => PermsInv'
  <2>1. \A v \in Thread : AddClientFails(v).pc \in {"idle", "clusterInvalid"}
    BY ReturnsPc
  <2> QED
    BY <1>b, <2>1 DEF Working
<1>f. \A v \in Thread : Go(w, RemoveClientReturns(v)) => PermsInv'
  <2>1. \A v \in Thread : RemoveClientReturns(v).pc \in {"idle", "dropTopic", "find"}
    BY ReturnsPc
  <2> QED
    BY <1>b, <2>1 DEF Working
<1>g. [th EXCEPT !.err = "fail"] \in Thread
  BY <1>0 DEF Thread, Codes
<1> HIDE DEF th, Fine
<1>1. CASE FindCluster(w)
  <2>1. [th EXCEPT !.err = "ok", !.pc = "topic"].pc = "topic"
    BY <1>0 DEF Thread
  <2>2. Go(w, Reply("bad")) \/ Go(w, [th EXCEPT !.err = "ok", !.pc = "topic"])
    BY <1>1 DEF FindCluster, th
  <2> QED
    BY <1>b, <1>d, <2>1, <2>2 DEF Working
<1>2. CASE FindTopic(w)
  <2>1. \/ Go(w, Reply("notFound"))
        \/ topics[th.fqtn] # Absent /\
           \E as, c : Go(w, [th EXCEPT !.err = "ok", !.pc = "grant", !.left = as, !.cur = c])
    BY <1>2 DEF FindTopic, th
  <2>2. ASSUME NEW as, NEW c, topics[th.fqtn] # Absent,
               Go(w, [th EXCEPT !.err = "ok", !.pc = "grant", !.left = as, !.cur = c])
        PROVE  PermsInv'
    <3> DEFINE u == [th EXCEPT !.err = "ok", !.pc = "grant", !.left = as, !.cur = c]
    <3>1. u.pc = "grant" /\ u.fqtn = th.fqtn /\ th.fqtn \in Topics
      BY <1>0 DEF Thread
    <3>2. Go(w, u)
      BY <2>2
    <3> HIDE DEF u
    <3> QED
      BY <1>0, <2>2, <3>1, <3>2, TakesUp
  <2> QED
    BY <1>d, <2>1, <2>2
<1>3. CASE Grant(w)
  <2>1. th.pc = "grant"
        /\ \E a : \/ Go(w, [th EXCEPT !.left = th.left \ {a}])
                  \/ Go(w, AddClientFails([th EXCEPT !.err = "fail"]))
                  \/ Go(w, AddClientNull(th))
    BY <1>3 DEF Grant, th
  <2>2. \A a : LET u == [th EXCEPT !.left = th.left \ {a}]
               IN  u.pc = th.pc /\ u.fqtn = th.fqtn
    BY <1>0 DEF Thread
  <2>3. ASSUME NEW a, Go(w, [th EXCEPT !.left = th.left \ {a}])
        PROVE  PermsInv'
    <3> DEFINE u == [th EXCEPT !.left = th.left \ {a}]
    <3>1. Fine(u)
      BY <2>1, <2>2, <2>3 DEF Fine, Continues, Working
    <3> QED
      BY <1>a, <3>1
  <2>4. CASE Go(w, AddClientNull(th))
    <3>1. AddClientNull(th).pc \in {"reread", "next"} /\ AddClientNull(th).fqtn = th.fqtn
      BY <1>0, AddClientNullType
    <3>2. Fine(AddClientNull(th))
      BY <2>1, <2>4, <3>1 DEF Fine, Continues, Working
    <3> QED
      BY <1>a, <3>2
  <2> QED
    BY <1>e, <1>g, <2>1, <2>3, <2>4
<1>4. CASE Place(w)
  <2> DEFINE u1 == [th EXCEPT !.cur.status = "STAGED", !.posts = {}, !.pc = "post"]
             u2 == [th EXCEPT !.pc = "centrals"]
             u3 == [th EXCEPT !.posts = {th.cur.loc}, !.pc = "post"]
  <2>1. th.pc = "grant" /\ (Go(w, u1) \/ Go(w, u2) \/ Go(w, u3))
    BY <1>4 DEF Place, th
  <2>2. /\ u1.pc = "post" /\ u1.fqtn = th.fqtn
        /\ u2.pc = "centrals" /\ u2.fqtn = th.fqtn
        /\ u3.pc = "post" /\ u3.fqtn = th.fqtn
    BY <1>0 DEF Thread, Client
  <2> HIDE DEF u1, u2, u3
  <2>3. Fine(u1) \/ Fine(u2) \/ Fine(u3)
    BY <2>1, <2>2 DEF Fine, Continues, Working
  <2> QED
    BY <1>a, <2>3
<1>5. CASE ListCentrals(w)
  <2> DEFINE u == [th EXCEPT !.posts = Centrals, !.pc = "post"]
  <2>1. th.pc = "centrals" /\ (Go(w, u) \/ Go(w, Reply("fail")))
    BY <1>5 DEF ListCentrals, ServerError, th
  <2>2. u.pc = "post" /\ u.fqtn = th.fqtn
    BY <1>0 DEF Thread
  <2> HIDE DEF u
  <2>3. Go(w, u) => Fine(u)
    BY <2>1, <2>2 DEF Fine, Continues, Working
  <2> QED
    BY <1>a, <1>d, <2>1, <2>3
<1>6. CASE PostToCluster(w)
  <2> DEFINE more(l) == [th EXCEPT !.posts = th.posts \ {l}, !.cur.status = "VALID"]
             done(l) == [more(l) EXCEPT !.err = "ok"]
             none(l) == [more(l) EXCEPT !.cur.status = "INVALID"]
  <2>1. /\ th.pc = "post"
        /\ \E l : \/ Go(w, done(l)) \/ Go(w, more(l)) \/ Go(w, none(l))
                  \/ Go(w, AddClientFails([th EXCEPT !.err = "fail"]))
                  \/ Go(w, AddClientFails(th))
    BY <1>6 DEF PostToCluster, th
  <2>2. \A l : /\ more(l).pc = th.pc /\ more(l).fqtn = th.fqtn
               /\ done(l).pc = th.pc /\ done(l).fqtn = th.fqtn
               /\ none(l).pc = th.pc /\ none(l).fqtn = th.fqtn
    BY <1>0 DEF Thread, Client
  <2> HIDE DEF more, done, none
  <2>3. \A l : \A u \in {more(l), done(l), none(l)} : Go(w, u) => Fine(u)
    BY <2>1, <2>2 DEF Fine, Continues, Working
  <2> QED
    BY <1>0, <1>a, <1>e, <1>g, <2>1, <2>3
<1>7. CASE StoreClient(w)
  <2> DEFINE ok == [th EXCEPT !.err = "ok"]
             p  == [ok EXCEPT !.pc = "reread"]
             n  == [ok EXCEPT !.view = ok.view \cup {ok.cur}, !.pc = "next"]
  <2>1. th.pc = "post" /\ (Go(w, p) \/ Go(w, n))
    BY <1>0, <1>7 DEF StoreClient, Thread, th
  <2>2. p.pc = "reread" /\ p.fqtn = th.fqtn /\ n.pc = "next" /\ n.fqtn = th.fqtn
    BY <1>0 DEF Thread
  <2> HIDE DEF p, n
  <2>3. (Go(w, p) => Fine(p)) /\ (Go(w, n) => Fine(n))
    BY <2>1, <2>2 DEF Fine, Continues, Working
  <2> QED
    BY <1>a, <2>1, <2>3
<1>8. CASE Reread(w)
  <2> DEFINE u == [th EXCEPT !.repl = topics[th.fqtn], !.view = ClientsOf(th.fqtn),
                             !.pc = "bridge"]
  <2>1. th.pc = "reread" /\ (Go(w, u) \/ Go(w, Reply("fail")))
    BY <1>8 DEF Reread, ServerError, th
  <2>2. u.pc = "bridge" /\ u.fqtn = th.fqtn
    BY <1>0 DEF Thread
  <2> HIDE DEF u
  <2>3. Go(w, u) => Fine(u)
    BY <2>1, <2>2 DEF Fine, Continues, Working
  <2> QED
    BY <1>a, <1>d, <2>1, <2>3
<1>9. CASE LookupClient(w)
  <2>1. \A code : [th EXCEPT !.pc = "overwrite", !.err = code].pc = "overwrite"
    BY <1>0 DEF Thread
  <2>2. \E code : Go(w, [th EXCEPT !.pc = "overwrite", !.err = code])
    BY <1>9 DEF LookupClient, th
  <2> QED
    BY <1>b, <2>1, <2>2 DEF Working
<1>10. CASE OverwriteClient(w)
  <2>1. Go(w, Reply("success")) \/ Go(w, Reply(th.err))
    BY <1>10 DEF OverwriteClient, Success, th
  <2> QED
    BY <1>d, <2>1
<1>11. CASE FindClient(w)
  <2>1. \/ Go(w, Reply("notFound"))
        \/ \E c, as : \E q \in {"view", "revoke"} :
             Go(w, [th EXCEPT !.cur = c, !.left = as, !.err = "ok", !.pc = q])
    BY <1>11 DEF FindClient, th
  <2>2. \A c, as, q : [th EXCEPT !.cur = c, !.left = as, !.err = "ok", !.pc = q].pc = q
    BY <1>0 DEF Thread
  <2>3. ASSUME NEW c, NEW as, NEW q \in {"view", "revoke"},
               Go(w, [th EXCEPT !.cur = c, !.left = as, !.err = "ok", !.pc = q])
        PROVE  PermsInv'
    <3>1. q \notin Working \cup {"perm"}
      BY DEF Working
    <3> QED
      BY <1>b, <2>2, <2>3, <3>1
  <2> QED
    BY <1>d, <2>1, <2>3
<1>12. CASE ViewTopic(w)
  <2> DEFINE f  == th.cur.fqtn
             u1 == [th EXCEPT !.err = "notFound", !.pc = "revoke"]
             u2 == [th EXCEPT !.fqtn = f, !.repl = topics[f], !.err = "ok",
                              !.view = {c \in ClientsOf(f) : c.id # th.cur.id},
                              !.pc = "bridge"]
  <2>1. Go(w, u1) \/ (topics[f] # Absent /\ Go(w, u2))
    BY <1>12 DEF ViewTopic, th
  <2>2. u1.pc = "revoke" /\ u2.pc = "bridge" /\ u2.fqtn = f /\ f \in Topics
    BY <1>0 DEF Thread, Client
  <2> HIDE DEF u1, u2, f
  <2>3. CASE Go(w, u1)
    BY <1>b, <2>2, <2>3 DEF Working
  <2>4. CASE topics[f] # Absent /\ Go(w, u2)
    BY <1>0, <2>2, <2>4, TakesUp
  <2> QED
    BY <2>1, <2>3, <2>4
<1>13. CASE RevokeGrant(w)
  <2>1. /\ th.pc = "revoke"
        /\ \E a : \/ Go(w, [th EXCEPT !.left = th.left \ {a}])
                  \/ Go(w, RemoveClientReturns([th EXCEPT !.err = "fail"]))
                  \/ Go(w, [th EXCEPT !.err = "ok", !.pc = "drop"])
    BY <1>13 DEF RevokeGrant, th
  <2>2. /\ \A a : [th EXCEPT !.left = th.left \ {a}].pc = th.pc
        /\ [th EXCEPT !.err = "ok", !.pc = "drop"].pc = "drop"
    BY <1>0 DEF Thread
  <2> QED
    BY <1>b, <1>f, <1>g, <2>1, <2>2 DEF Working
<1>14. CASE DropClient(w)
  BY <1>0, <1>14, <1>f DEF DropClient, th
<1> QED
  BY <1>1, <1>2, <1>3, <1>4, <1>5, <1>6, <1>7, <1>8, <1>9, <1>10, <1>11, <1>12,
     <1>13, <1>14
  DEF ClientNext

(* Where checkForBridge takes a thread: on with the same topic, or back.   *)
BridgePcs == {"loc", "plan", "mmCreate", "mmWhitelist", "mmPut", "putTopic"}
BridgeStep(w, u) ==
  /\ Go(w, u)
  /\ u.pc \in BridgePcs \cup {"idle", "clusterInvalid", "revoke"}
  /\ u.pc \in BridgePcs => u.fqtn = t[w].fqtn

LEMMA BridgeNextSteps ==
  ASSUME TypeInv, NEW w \in Threads, BridgeNext(w)
  PROVE  \E u : BridgeStep(w, u)
<1> DEFINE th == t[w]
           Goal == \E u : BridgeStep(w, u)
<1>0. th \in Thread
  BY DEF TypeInv, TypeOK
<1>c. \A u : Go(w, u) /\ u.pc \in BridgePcs /\ u.fqtn = th.fqtn => Goal
  BY DEF BridgeStep
<1>d. Go(w, Reply("fail")) => Goal
  <2>1. Reply("fail").pc = "idle"
    BY DEF Reply, Idle
  <2> QED
    BY <2>1 DEF BridgeStep, BridgePcs
<1>e. \A x : Go(w, BridgeReturns(th, x)) => Goal
  <2>1. \A x : /\ BridgeReturns(th, x).pc \in {"idle", "clusterInvalid", "putTopic", "revoke"}
               /\ BridgeReturns(th, x).pc = "putTopic" => BridgeReturns(th, x).fqtn = th.fqtn
    BY <1>0, ReturnsPc
  <2>2. \A x : Go(w, BridgeReturns(th, x)) => BridgeStep(w, BridgeReturns(th, x))
    BY <2>1 DEF BridgeStep, BridgePcs
  <2> QED
    BY <2>2
<1> SUFFICES Goal
  OBVIOUS
<1> HIDE DEF th, Goal
<1>1. CASE StartBridge(w)
  <2> DEFINE u(g, c) == [th EXCEPT !.locs = g, !.hub = c, !.wrong = FALSE, !.pc = "loc"]
  <2>1. \/ Go(w, BridgeReturns(th, TRUE)) \/ Go(w, Reply("fail"))
        \/ \E g, c : Go(w, u(g, c))
    BY <1>1 DEF StartBridge, ServerError, th
  <2>2. \A g, c : u(g, c).pc = "loc" /\ u(g, c).fqtn = th.fqtn
    BY <1>0 DEF Thread
  <2> HIDE DEF u
  <2>3. \A g, c : Go(w, u(g, c)) => Goal
    BY <1>c, <2>2 DEF BridgePcs
  <2> QED
    BY <1>d, <1>e, <2>1, <2>3
<1>2. CASE VisitLoc(w)
  <2> DEFINE rest(l) == [th EXCEPT !.locs = th.locs \ {l}]
             u(l)    == [rest(l) EXCEPT !.wrong = TRUE]
             p(l, s) == [rest(l) EXCEPT !.pc = "plan", !.plan = s]
  <2>1. th.pc = "loc" /\ \E l : Go(w, u(l)) \/ \E s : Go(w, p(l, s))
    BY <1>2 DEF VisitLoc, th
  <2>2. \A l : /\ u(l).pc = th.pc /\ u(l).fqtn = th.fqtn
               /\ \A s : p(l, s).pc = "plan" /\ p(l, s).fqtn = th.fqtn
    BY <1>0 DEF Thread
  <2> HIDE DEF u, p, rest
  <2>3. \A l : (Go(w, u(l)) => Goal) /\ \A s : Go(w, p(l, s)) => Goal
    BY <1>c, <2>1, <2>2 DEF BridgePcs
  <2> QED
    BY <2>1, <2>3
<1>3. CASE EndBridge(w)
  BY <1>3, <1>e DEF EndBridge, th
<1>4. CASE ReadMm(w)
  <2> DEFINE p == [th EXCEPT !.pc = "loc"]
             u(m) == [th EXCEPT !.pc = "mmCreate", !.mm = m]
  <2>1. Go(w, p) \/ Go(w, Reply("fail")) \/ \E m : Go(w, u(m))
    BY <1>4 DEF ReadMm, ServerError, th
  <2>2. p.pc = "loc" /\ p.fqtn = th.fqtn /\ \A m : u(m).pc = "mmCreate" /\ u(m).fqtn = th.fqtn
    BY <1>0 DEF Thread
  <2> HIDE DEF u, p
  <2>3. (Go(w, p) => Goal) /\ \A m : Go(w, u(m)) => Goal
    BY <1>c, <2>2 DEF BridgePcs
  <2> QED
    BY <1>d, <2>1, <2>3
<1>5. CASE SendCreate(w)
  <2> DEFINE u1 == [th EXCEPT !.err = "fail", !.wrong = TRUE, !.locs = {}, !.plan = <<>>,
                              !.pc = "loc"]
             u2 == [th EXCEPT !.pc = "mmPut"]
             u3 == [th EXCEPT !.pc = "mmWhitelist"]
  <2>1. Go(w, u1) \/ Go(w, u2) \/ Go(w, u3)
    BY <1>5 DEF SendCreate, th
  <2>2. /\ u1.pc = "loc" /\ u1.fqtn = th.fqtn
        /\ u2.pc = "mmPut" /\ u2.fqtn = th.fqtn
        /\ u3.pc = "mmWhitelist" /\ u3.fqtn = th.fqtn
    BY <1>0 DEF Thread
  <2> HIDE DEF u1, u2, u3
  <2> QED
    BY <1>c, <2>1, <2>2 DEF BridgePcs
<1>6. CASE SendWhitelist(w)
  <2> DEFINE u == [th EXCEPT !.pc = "mmPut"]
  <2>1. Go(w, u)
    BY <1>6 DEF SendWhitelist, th
  <2>2. u.pc = "mmPut" /\ u.fqtn = th.fqtn
    BY <1>0 DEF Thread
  <2> HIDE DEF u
  <2> QED
    BY <1>c, <2>1, <2>2 DEF BridgePcs
<1>7. CASE PutMm(w)
  <2> DEFINE u == [th EXCEPT !.plan = Tail(th.plan), !.pc = "plan"]
  <2>1. Go(w, u)
    BY <1>7 DEF PutMm, th
  <2>2. u.pc = "plan" /\ u.fqtn = th.fqtn
    BY <1>0 DEF Thread
  <2> HIDE DEF u
  <2> QED
    BY <1>c, <2>1, <2>2 DEF BridgePcs
<1> QED
  BY <1>1, <1>2, <1>3, <1>4, <1>5, <1>6, <1>7 DEF BridgeNext

LEMMA BridgeNextPerms ==
  ASSUME TypeInv, PermsInv, NEW w \in Threads, BridgeNext(w)
  PROVE  PermsInv'
<1>1. PICK u : BridgeStep(w, u)
  BY BridgeNextSteps
<1>2. t[w].pc \in Working /\ UNCHANGED <<topics, perms>>
  BY DEF BridgeNext, StartBridge, VisitLoc, EndBridge, ReadMm, SendCreate,
     SendWhitelist, PutMm, Working, aafVars
<1>3. Continues(t[w], u) /\ u.pc # "perm"
  BY <1>1, <1>2 DEF BridgeStep, BridgePcs, Continues, Working
<1> QED
  BY <1>1, <1>2, <1>3, CarriesOn DEF BridgeStep

(* Where the cluster and location operations take a thread.                *)
Early == {"idle", "exists", "clusterPut", "clusterRemove", "clusterLoc", "locPut"}

LEMMA ClusterNextSteps ==
  ASSUME TypeInv, NEW w \in Threads, ClusterNext(w)
  PROVE  \E u : Go(w, u) /\ u.pc \in Early
<1> DEFINE th == t[w]
           at(q) == [th EXCEPT !.pc = q]
<1>0. th \in Thread
  BY DEF TypeInv, TypeOK
<1>1. \A code : Reply(code).pc \in Early
  BY DEF Reply, Idle, Early
<1>2. \A st : ClusterAnswer(st).pc \in Early
  BY <1>1 DEF ClusterAnswer, Success
<1>3. \A q \in Early : at(q).pc \in Early
  BY <1>0 DEF Thread, Early
<1>4. \A l : AddAdminTopic(th, l).pc \in Early
  BY <1>0 DEF AddAdminTopic, Thread, Early
<1>5. \/ \E q \in Early : Go(w, at(q))
      \/ \E code : Go(w, Reply(code))
      \/ \E st : Go(w, ClusterAnswer(st))
      \/ \E l : Go(w, AddAdminTopic(th, l))
  <2> HIDE DEF at
  <2>1. CASE GetCluster(w)
    BY <2>1 DEF GetCluster, at, Early
  <2>2. CASE PutCluster(w)
    BY <2>2 DEF PutCluster, at, Early
  <2>3. CASE ClusterLocation(w)
    BY <2>3 DEF ClusterLocation, ServerError
  <2>4. CASE InvalidateCluster(w)
    BY <2>4 DEF InvalidateCluster
  <2>5. CASE RemoveCluster(w)
    BY <2>5 DEF RemoveCluster, Success
  <2>6. CASE CentralLocation(w)
    BY <2>6 DEF CentralLocation
  <2>7. CASE GetLocation(w)
    BY <2>7 DEF GetLocation, at, Early
  <2>8. CASE PutLocation(w)
    BY <2>8 DEF PutLocation, Success
  <2>9. CASE RemoveLocation(w)
    BY <2>9 DEF RemoveLocation, Success
  <2> QED
    BY <2>1, <2>2, <2>3, <2>4, <2>5, <2>6, <2>7, <2>8, <2>9 DEF ClusterNext
<1> HIDE DEF at
<1> QED
  BY <1>1, <1>2, <1>3, <1>4, <1>5

LEMMA ClusterNextPerms ==
  ASSUME TypeInv, PermsInv, NEW w \in Threads, ClusterNext(w)
  PROVE  PermsInv'
<1>1. PICK u : Go(w, u) /\ u.pc \in Early
  BY ClusterNextSteps
<1>2. UNCHANGED <<topics, perms>>
  BY DEF ClusterNext, GetCluster, PutCluster, ClusterLocation, InvalidateCluster,
     RemoveCluster, CentralLocation, GetLocation, PutLocation, RemoveLocation, aafVars
<1>3. u.pc # "perm" /\ Continues(t[w], u)
  BY <1>1 DEF Continues, Working, Early
<1> QED
  BY <1>1, <1>2, <1>3, CarriesOn

LEMMA StartPerms ==
  ASSUME TypeInv, PermsInv, NEW w \in Threads, Start(w)
  PROVE  PermsInv'
<1> DEFINE u(r) == [Idle EXCEPT !.pc = FirstStep(r), !.rq = r, !.fqtn = r.fqtn,
                      !.repl = r.repl, !.todo = r.clients, !.dels = {r.id}]
<1>1. PICK r \in Requests : Go(w, u(r))
  BY DEF Start
<1>2. u(r).pc = FirstStep(r)
  BY DEF Idle
<1>3. FirstStep(r) \notin Working \cup {"perm"}
  BY DEF FirstStep, Working
<1> HIDE DEF u
<1> QED
  BY <1>1, <1>2, <1>3, CarriesOn DEF Start, aafVars, Continues

(* A stored topic has its three AAF permissions, for any set of threads     *)
(* and requests, whatever calls fail and wherever the process exits.       *)
THEOREM TopicPerms == Spec => []TopicHasPerms
<1>1. Init => PermsInv
  BY DEF Init, PermsInv, TopicHasPerms, PermsHeld, Idle, Working
<1>2. TypeInv /\ PermsInv /\ [Next]_vars => PermsInv'
  <2> SUFFICES ASSUME TypeInv, PermsInv, [Next]_vars PROVE PermsInv'
    OBVIOUS
  <2>1. CASE \E w \in Threads : Start(w) \/ Serve(w)
    BY <2>1, StartPerms, TopicNextPerms, ClientNextPerms, BridgeNextPerms, ClusterNextPerms
    DEF Serve
  <2>2. CASE ExitProcess
    BY <2>2 DEF ExitProcess, PermsInv, TopicHasPerms, PermsHeld, Idle, Working, aafVars
  <2>3. CASE Finished \/ UNCHANGED vars
    BY <2>3 DEF Finished, vars, PermsInv, TopicHasPerms, PermsHeld
  <2> QED
    BY <2>1, <2>2, <2>3 DEF Next
<1>3. PermsInv => TopicHasPerms
  BY DEF PermsInv
<1> QED
  BY <1>1, <1>2, <1>3, InitType, NextType, PTL DEF Spec

-----------------------------------------------------------------------------
(* Grants, where nothing revokes them and no PUT rewrites a client.        *)
NoRevoke == DeleteLevel < 2 /\ ~Runs("putClient")

GrantsHeld(th, G) ==
  /\ th.pc = "grant" => \A a \in th.cur.acts \ th.left : <<th.cur.fqtn, th.cur.role, a>> \in G
  /\ th.pc \in {"centrals", "post"} => GrantsOf(th.cur) \subseteq G

GrantsInv ==
  /\ \A c \in clients : GrantsOf(c) \subseteq grants
  /\ \A w \in Threads : GrantsHeld(t[w], grants)

(* A step after which its thread holds the grants it made, and every client *)
(* row that it wrote too.                                                  *)
LEMMA HoldsOn ==
  ASSUME TypeInv, GrantsInv, NEW w \in Threads, NEW u, Go(w, u),
         GrantsHeld(u, grants'), grants \subseteq grants',
         \A c \in clients' : c \in clients \/ GrantsOf(c) \subseteq grants'
  PROVE  GrantsInv'
<1>1. \A v \in Threads : t'[v] = IF v = w THEN u ELSE t[v]
  BY DEF Go, TypeInv, TypeOK
<1>2. \A v \in Threads : GrantsHeld(t[v], grants')
  BY DEF GrantsInv, GrantsHeld
<1>3. \A c \in clients' : GrantsOf(c) \subseteq grants'
  BY DEF GrantsInv
<1>4. (\A c \in clients : GrantsOf(c) \subseteq grants)'
  BY <1>3 DEF GrantsOf
<1> QED
  BY <1>1, <1>2, <1>4 DEF GrantsInv

LEMMA TopicNextGrants ==
  ASSUME TypeInv, GrantsInv, NEW w \in Threads, TopicNext(w)
  PROVE  GrantsInv'
<1> DEFINE th == t[w]
           Placing == {"grant", "centrals", "post"}
<1>0. th \in Thread /\ UNCHANGED <<clients, grants>>
  BY DEF TypeInv, TypeOK, TopicNext, Review, Exists, AddPerm, NextClient, PutTopic,
     ListClients, DropTopic, aafVars
<1>a. \A u : Go(w, u) /\ GrantsHeld(u, grants') => GrantsInv'
  BY <1>0, HoldsOn
<1>b. \A u : Go(w, u) /\ u.pc \notin Placing => GrantsInv'
  BY <1>a DEF GrantsHeld
<1>c. \A v \in Thread : \A x : Go(w, AddTopicReturns(v, x)) => GrantsInv'
  <2>1. \A v \in Thread : \A x : AddTopicReturns(v, x).pc \notin Placing
    BY ReturnsPc
  <2> QED
    BY <1>b, <2>1
<1>d. \A code : Go(w, Reply(code)) => GrantsInv'
  BY <1>b DEF Reply, Idle
<1>e. \A e \in {"conflict", "fail", "ok"} : [th EXCEPT !.err = e] \in Thread
  BY <1>0 DEF Thread, Codes
<1> HIDE DEF th
<1>1. CASE Review(w)
  <2>1. PICK r : Go(w, [th EXCEPT !.repl = r, !.pc = "exists"])
    BY <1>1 DEF Review, th
  <2>2. [th EXCEPT !.repl = r, !.pc = "exists"].pc = "exists"
    BY <1>0 DEF Thread
  <2> QED
    BY <1>b, <2>1, <2>2
<1>2. CASE Exists(w)
  <2> DEFINE u == [th EXCEPT !.err = "notFound", !.left = Actions, !.pc = "perm"]
  <2>1. Go(w, u) \/ Go(w, AddTopicReturns([th EXCEPT !.err = "conflict"], FALSE))
    BY <1>2 DEF Exists, th
  <2>2. u.pc = "perm"
    BY <1>0 DEF Thread
  <2> QED
    BY <1>b, <1>c, <1>e, <2>1, <2>2
<1>3. CASE AddPerm(w)
  <2> DEFINE u(a, q) == [th EXCEPT !.left = th.left \ {a}, !.pc = q]
  <2>1. \/ Go(w, AddTopicReturns([th EXCEPT !.err = "fail"], FALSE))
        \/ \E a : \E q \in {"next", "perm"} : Go(w, u(a, q))
    BY <1>3 DEF AddPerm, th
  <2>2. \A a, q : u(a, q).pc = q
    BY <1>0 DEF Thread
  <2> HIDE DEF u
  <2>3. \A a : \A q \in {"next", "perm"} : Go(w, u(a, q)) => GrantsInv'
    BY <1>b, <2>2
  <2> QED
    BY <1>c, <1>e, <2>1, <2>3
<1>4. CASE NextClient(w)
  <2> DEFINE s == Head(th.todo)
             rest == [th EXCEPT !.todo = Tail(th.todo)]
             c == [id |-> nextId, fqtn |-> th.fqtn, loc |-> s.loc,
                   role |-> s.role, acts |-> s.acts, status |-> "VALID"]
             b == [th EXCEPT !.pc = "bridge"]
             g == [rest EXCEPT !.pc = "grant", !.left = s.acts, !.cur = c]
             n == [rest EXCEPT !.view = rest.view \cup {Null}]
  <2>1. th.pc = "next" /\ (\/ Go(w, b)
                           \/ th.todo # <<>> /\ (\/ Go(w, g) \/ Go(w, n)
                                                 \/ Go(w, AddTopicReturns(rest, FALSE))))
    BY <1>4 DEF NextClient, th
  <2>2. b.pc = "bridge"
    BY <1>0 DEF Thread
  <2>3. th.todo # <<>> => rest \in Thread
    <3>1. th.todo # <<>> => Tail(th.todo) \in Seq(ClientSpec)
      BY <1>0 DEF Thread
    <3> QED
      BY <1>0, <3>1 DEF Thread
  <2>4. n.pc = th.pc
    BY <1>0 DEF Thread
  <2>5. c.acts = s.acts
    OBVIOUS
  <2>6. g.pc = "grant" /\ g.left = s.acts /\ g.cur = c
    <3> HIDE DEF c, s
    <3> QED
      BY <1>0 DEF Thread
  <2> HIDE DEF s, rest, c, b, g, n
  <2>7. GrantsHeld(g, grants')
    BY <2>5, <2>6 DEF GrantsHeld
  <2> QED
    BY <1>a, <1>b, <1>c, <2>1, <2>2, <2>3, <2>4, <2>7
<1>5. CASE PutTopic(w)
  <2> DEFINE ok == [th EXCEPT !.err = "ok"]
             u  == [ok EXCEPT !.pc = "revoke"]
  <2>1. Go(w, u) \/ Go(w, AddTopicReturns(ok, TRUE))
    BY <1>5 DEF PutTopic, th
  <2>2. u.pc = "revoke"
    BY <1>0 DEF Thread
  <2> QED
    BY <1>b, <1>c, <1>e, <2>1, <2>2
<1>6. CASE ListClients(w)
  <2> DEFINE u(ids, q) == [th EXCEPT !.dels = ids, !.err = "ok", !.pc = q]
  <2>1. \/ Go(w, Reply("notFound"))
        \/ \E ids : \E q \in {"dropTopic", "find"} : Go(w, u(ids, q))
    BY <1>6 DEF ListClients, th
  <2>2. \A ids, q : u(ids, q).pc = q
    BY <1>0 DEF Thread
  <2> HIDE DEF u
  <2>3. \A ids : \A q \in {"dropTopic", "find"} : Go(w, u(ids, q)) => GrantsInv'
    BY <1>b, <2>2
  <2> QED
    BY <1>d, <2>1, <2>3
<1>7. CASE DropTopic(w)
  BY <1>7, <1>d DEF DropTopic, Success
<1> QED
  BY <1>1, <1>2, <1>3, <1>4, <1>5, <1>6, <1>7 DEF TopicNext

LEMMA ClientNextGrants ==
  ASSUME ~Runs("putClient"), TypeInv, GrantsInv, NEW w \in Threads, ClientNext(w),
         ~RevokeGrant(w)
  PROVE  GrantsInv'
<1> DEFINE th == t[w]
           Placing == {"grant", "centrals", "post"}
           Quiet == clients' \subseteq clients /\ grants \subseteq grants'
<1>0. th \in Thread /\ ThreadOK(th) /\ GrantsHeld(th, grants)
  BY DEF TypeInv, TypeOK, GrantsInv
<1>a. \A u : Go(w, u) /\ GrantsHeld(u, grants') /\ Quiet => GrantsInv'
  BY HoldsOn
<1>b. \A u : Go(w, u) /\ u.pc \notin Placing /\ Quiet => GrantsInv'
  BY <1>a DEF GrantsHeld
<1>c. \A code : Go(w, Reply(code)) /\ Quiet => GrantsInv'
  BY <1>b DEF Reply, Idle
<1>d. \A v \in Thread : Go(w, AddClientFails(v)) /\ Quiet => GrantsInv'
  <2>1. \A v \in Thread : AddClientFails(v).pc \notin Placing
    BY ReturnsPc
  <2> QED
    BY <1>b, <2>1
<1>e. \A v \in Thread : Go(w, RemoveClientReturns(v)) /\ Quiet => GrantsInv'
  <2>1. \A v \in Thread : RemoveClientReturns(v).pc \notin Placing
    BY ReturnsPc
  <2> QED
    BY <1>b, <2>1
<1>f. [th EXCEPT !.err = "fail"] \in Thread /\ [th EXCEPT !.err = "ok"] \in Thread
  BY <1>0 DEF Thread, Codes
<1> HIDE DEF th, Quiet
<1>1. CASE FindCluster(w)
  <2> DEFINE u == [th EXCEPT !.err = "ok", !.pc = "topic"]
  <2>1. (Go(w, Reply("bad")) \/ Go(w, u)) /\ Quiet
    BY <1>1 DEF FindCluster, aafVars, Quiet, th
  <2>2. u.pc = "topic"
    BY <1>0 DEF Thread
  <2> QED
    BY <1>b, <1>c, <2>1, <2>2
<1>2. CASE FindTopic(w)
  <2> DEFINE s == Head(th.rq.clients)
             c == [id |-> IF th.rq.id = 0 THEN nextId ELSE th.rq.id, fqtn |-> th.fqtn,
                   loc |-> s.loc, role |-> s.role, acts |-> s.acts, status |-> "VALID"]
             u == [th EXCEPT !.err = "ok", !.pc = "grant", !.left = s.acts, !.cur = c]
  <2>1. (Go(w, Reply("notFound")) \/ Go(w, u)) /\ Quiet
    BY <1>2 DEF FindTopic, aafVars, Quiet, th
  <2>2. c.acts = s.acts
    OBVIOUS
  <2>3. u.pc = "grant" /\ u.left = s.acts /\ u.cur = c
    <3> HIDE DEF c, s
    <3> QED
      BY <1>0 DEF Thread
  <2> HIDE DEF s, c, u
  <2>4. GrantsHeld(u, grants')
    BY <2>2, <2>3 DEF GrantsHeld
  <2> QED
    BY <1>a, <1>c, <2>1, <2>4
<1>3. CASE Grant(w)
  <2> DEFINE g(a) == <<th.cur.fqtn, th.cur.role, a>>
             u(a) == [th EXCEPT !.left = th.left \ {a}]
  <2>1. PICK a \in th.left :
          \/ grants' = grants \cup {g(a)} /\ Go(w, u(a))
          \/ Go(w, AddClientFails([th EXCEPT !.err = "fail"]))
          \/ Go(w, AddClientNull(th))
    BY <1>3 DEF Grant, th
  <2>2. Quiet /\ th.pc = "grant"
    BY <1>3 DEF Grant, Quiet, th
  <2>3. u(a).pc = th.pc /\ u(a).left = th.left \ {a} /\ u(a).cur = th.cur
    BY <1>0 DEF Thread
  <2>4. CASE grants' = grants \cup {g(a)} /\ Go(w, u(a))
    <3> HIDE DEF u
    <3>1. GrantsHeld(u(a), grants')
      BY <1>0, <2>2, <2>3, <2>4 DEF GrantsHeld
    <3> QED
      BY <1>a, <2>2, <2>4, <3>1
  <2>5. AddClientNull(th).pc \notin Placing
    BY <1>0, AddClientNullType
  <2> QED
    BY <1>b, <1>d, <1>f, <2>1, <2>2, <2>4, <2>5
<1>4. CASE Place(w)
  <2> DEFINE u1 == [th EXCEPT !.cur.status = "STAGED", !.posts = {}, !.pc = "post"]
             u2 == [th EXCEPT !.pc = "centrals"]
             u3 == [th EXCEPT !.posts = {th.cur.loc}, !.pc = "post"]
  <2>1. /\ th.pc = "grant" /\ th.left = {} /\ Quiet
        /\ Go(w, u1) \/ Go(w, u2) \/ Go(w, u3)
    BY <1>4 DEF Place, aafVars, Quiet, th
  <2>2. GrantsOf(th.cur) \subseteq grants'
    BY <1>0, <2>1 DEF GrantsHeld, GrantsOf, Quiet
  <2>3. u2.pc = "centrals" /\ u2.cur = th.cur /\ u3.pc = "post" /\ u3.cur = th.cur
    BY <1>0 DEF Thread
  <2>4. /\ u1.pc = "post"
        /\ u1.cur.fqtn = th.cur.fqtn /\ u1.cur.role = th.cur.role /\ u1.cur.acts = th.cur.acts
    BY <1>0 DEF Thread, Client
  <2> HIDE DEF u1, u2, u3
  <2>5. GrantsHeld(u1, grants') /\ GrantsHeld(u2, grants') /\ GrantsHeld(u3, grants')
    BY <2>2, <2>3, <2>4 DEF GrantsHeld, GrantsOf
  <2> QED
    BY <1>a, <2>1, <2>5
<1>5. CASE ListCentrals(w)
  <2> DEFINE u == [th EXCEPT !.posts = Centrals, !.pc = "post"]
  <2>1. th.pc = "centrals" /\ Quiet /\ (Go(w, u) \/ Go(w, Reply("fail")))
    BY <1>5 DEF ListCentrals, ServerError, aafVars, Quiet, th
  <2>2. u.pc = "post" /\ u.cur = th.cur
    BY <1>0 DEF Thread
  <2> HIDE DEF u
  <2>3. GrantsHeld(u, grants')
    BY <1>0, <2>1, <2>2 DEF GrantsHeld, Quiet
  <2> QED
    BY <1>a, <1>c, <2>1, <2>3
<1>6. CASE PostToCluster(w)
  <2> DEFINE more(l) == [th EXCEPT !.posts = th.posts \ {l}, !.cur.status = "VALID"]
             done(l) == [more(l) EXCEPT !.err = "ok"]
             none(l) == [more(l) EXCEPT !.cur.status = "INVALID"]
  <2>1. /\ th.pc = "post" /\ Quiet
        /\ \E l : \/ Go(w, done(l)) \/ Go(w, more(l)) \/ Go(w, none(l))
                  \/ Go(w, AddClientFails([th EXCEPT !.err = "fail"]))
                  \/ Go(w, AddClientFails(th))
    BY <1>6 DEF PostToCluster, aafVars, Quiet, th
  <2> DEFINE Same(u) ==
               /\ u.pc = th.pc
               /\ u.cur.fqtn = th.cur.fqtn /\ u.cur.role = th.cur.role /\ u.cur.acts = th.cur.acts
  <2>2. \A l : \A u \in {more(l), done(l), none(l)} : Same(u)
    <3>1. \A l : Same(more(l)) /\ Same(none(l))
      BY <1>0 DEF Thread, Client
    <3>2. \A l : done(l).pc = more(l).pc /\ done(l).cur = more(l).cur
      BY <1>0 DEF Thread
    <3> HIDE DEF more, done, none
    <3>3. \A l : Same(done(l))
      BY <3>1, <3>2
    <3> HIDE DEF Same
    <3> QED
      BY <3>1, <3>3
  <2> HIDE DEF more, done, none
  <2>3. \A l : \A u \in {more(l), done(l), none(l)} : GrantsHeld(u, grants')
    BY <1>0, <2>1, <2>2 DEF GrantsHeld, GrantsOf, Quiet
  <2> QED
    BY <1>0, <1>a, <1>d, <1>f, <2>1, <2>3
<1>7. CASE StoreClient(w)
  <2> DEFINE ok == [th EXCEPT !.err = "ok"]
             p  == [ok EXCEPT !.pc = "reread"]
             n  == [ok EXCEPT !.view = ok.view \cup {ok.cur}, !.pc = "next"]
  <2>1. /\ th.pc = "post" /\ grants' = grants
        /\ clients' = Put(ok.cur)
        /\ Go(w, p) \/ Go(w, n)
    BY <1>7 DEF StoreClient, aafVars, th
  <2>2. p.pc = "reread" /\ n.pc = "next" /\ ok.cur = th.cur
    BY <1>0 DEF Thread
  <2> HIDE DEF p, n, ok
  <2>3. \A c \in clients' : c \in clients \/ GrantsOf(c) \subseteq grants'
    BY <1>0, <2>1, <2>2 DEF GrantsHeld, Put
  <2>4. GrantsHeld(p, grants') /\ GrantsHeld(n, grants')
    BY <2>2 DEF GrantsHeld
  <2> QED
    BY <2>1, <2>3, <2>4, HoldsOn
<1>8. CASE Reread(w)
  <2> DEFINE u == [th EXCEPT !.repl = topics[th.fqtn], !.view = ClientsOf(th.fqtn),
                             !.pc = "bridge"]
  <2>1. Quiet /\ (Go(w, u) \/ Go(w, Reply("fail")))
    BY <1>8 DEF Reread, ServerError, aafVars, Quiet, th
  <2>2. u.pc = "bridge"
    BY <1>0 DEF Thread
  <2> QED
    BY <1>b, <1>c, <2>1, <2>2
<1>9. CASE LookupClient(w) \/ OverwriteClient(w)
  <2>1. th.rq \in Requests /\ th.rq.op = "putClient"
    BY <1>0, <1>9 DEF LookupClient, OverwriteClient, ThreadOK, Thread, th
  <2> QED
    BY <2>1 DEF Runs
<1>10. CASE FindClient(w)
  <2> DEFINE u(c, as, q) == [th EXCEPT !.cur = c, !.left = as, !.err = "ok", !.pc = q]
  <2>1. /\ Quiet
        /\ \/ Go(w, Reply("notFound"))
           \/ \E c, as : \E q \in {"view", "revoke"} : Go(w, u(c, as, q))
    BY <1>10 DEF FindClient, aafVars, Quiet, th
  <2>2. \A c, as, q : u(c, as, q).pc = q
    BY <1>0 DEF Thread
  <2> HIDE DEF u
  <2>3. \A c, as : \A q \in {"view", "revoke"} : Go(w, u(c, as, q)) => GrantsInv'
    BY <1>b, <2>1, <2>2
  <2> QED
    BY <1>c, <2>1, <2>3
<1>11. CASE ViewTopic(w)
  <2> DEFINE u(q, e, f, r, V) == [th EXCEPT !.fqtn = f, !.repl = r, !.err = e,
                                          !.view = V, !.pc = q]
             u1 == [th EXCEPT !.err = "notFound", !.pc = "revoke"]
             u2 == [th EXCEPT !.fqtn = th.cur.fqtn, !.repl = topics[th.cur.fqtn], !.err = "ok",
                              !.view = {c \in ClientsOf(th.cur.fqtn) : c.id # th.cur.id},
                              !.pc = "bridge"]
  <2>1. Quiet /\ (Go(w, u1) \/ Go(w, u2))
    BY <1>11 DEF ViewTopic, aafVars, Quiet, th
  <2>2. u1.pc = "revoke" /\ u2.pc = "bridge"
    BY <1>0 DEF Thread
  <2> HIDE DEF u1, u2
  <2> QED
    BY <1>b, <2>1, <2>2
<1>12. CASE RevokeGrant(w)
  BY <1>12
<1>13. CASE DropClient(w)
  <2>1. Quiet /\ Go(w, RemoveClientReturns(th))
    BY <1>13 DEF DropClient, aafVars, Quiet, th
  <2> QED
    BY <1>0, <1>e, <2>1
<1> QED
  BY <1>1, <1>2, <1>3, <1>4, <1>5, <1>6, <1>7, <1>8, <1>9, <1>10, <1>11, <1>12, <1>13
  DEF ClientNext

LEMMA InitGrants == Init => GrantsInv
  BY DEF Init, GrantsInv, GrantsHeld, Idle

LEMMA GrantsNext ==
  ASSUME ~Runs("putClient"), \A w \in Threads : ~RevokeGrant(w),
         TypeInv, GrantsInv, [Next]_vars
  PROVE  GrantsInv'
<1>1. ASSUME NEW w \in Threads, BridgeNext(w) PROVE GrantsInv'
  <2>1. PICK u : BridgeStep(w, u)
    BY <1>1, BridgeNextSteps
  <2>2. UNCHANGED <<clients, grants>>
    BY <1>1 DEF BridgeNext, StartBridge, VisitLoc, EndBridge, ReadMm, SendCreate,
       SendWhitelist, PutMm, aafVars
  <2> QED
    BY <2>1, <2>2, HoldsOn DEF BridgeStep, BridgePcs, GrantsHeld
<1>2. ASSUME NEW w \in Threads, ClusterNext(w) PROVE GrantsInv'
  <2>1. PICK u : Go(w, u) /\ u.pc \in Early
    BY <1>2, ClusterNextSteps
  <2>2. UNCHANGED <<clients, grants>>
    BY <1>2 DEF ClusterNext, GetCluster, PutCluster, ClusterLocation, InvalidateCluster,
       RemoveCluster, CentralLocation, GetLocation, PutLocation, RemoveLocation, aafVars
  <2> QED
    BY <2>1, <2>2, HoldsOn DEF Early, GrantsHeld
<1>3. ASSUME NEW w \in Threads, Start(w) PROVE GrantsInv'
  <2> DEFINE u(r) == [Idle EXCEPT !.pc = FirstStep(r), !.rq = r, !.fqtn = r.fqtn,
                        !.repl = r.repl, !.todo = r.clients, !.dels = {r.id}]
  <2>1. PICK r \in Requests : Go(w, u(r))
    BY <1>3 DEF Start
  <2>2. u(r).pc = FirstStep(r)
    BY DEF Idle
  <2>3. FirstStep(r) \notin {"grant", "centrals", "post"}
    BY DEF FirstStep
  <2>4. UNCHANGED <<clients, grants>>
    BY <1>3 DEF Start, aafVars
  <2> HIDE DEF u
  <2> QED
    BY <2>1, <2>2, <2>3, <2>4, HoldsOn DEF GrantsHeld
<1>4. CASE \E w \in Threads : Start(w) \/ Serve(w)
  BY <1>1, <1>2, <1>3, <1>4, TopicNextGrants, ClientNextGrants DEF Serve
<1>5. CASE ExitProcess
  BY <1>5 DEF ExitProcess, GrantsInv, GrantsOf, GrantsHeld, Idle, aafVars
<1>6. CASE Finished \/ UNCHANGED vars
  BY <1>6 DEF Finished, vars, GrantsInv, GrantsOf, GrantsHeld
<1> QED
  BY <1>4, <1>5, <1>6 DEF Next

(* A stored client's role holds its actions in AAF, for any set of threads  *)
(* and requests, whatever calls fail and wherever the process exits, as     *)
(* long as the configuration revokes nothing and no PUT rewrites a row.     *)
THEOREM ClientGrants == Spec => []ClientHasGrants
<1>1. NoRevoke /\ TypeInv /\ GrantsInv /\ [Next]_vars => GrantsInv'
  <2>1. NoRevoke => \A w \in Threads : ~RevokeGrant(w)
    BY ConstantsAssumption DEF NoRevoke, RevokeGrant
  <2> QED
    BY <2>1, GrantsNext DEF NoRevoke
<1>2. NoRevoke /\ GrantsInv => ClientHasGrants
  BY DEF GrantsInv, ClientHasGrants
<1>3. ~NoRevoke => ClientHasGrants
  BY DEF NoRevoke, ClientHasGrants
<1> QED
  <2>1. CASE NoRevoke
    <3>1. TypeInv /\ GrantsInv /\ [Next]_vars => GrantsInv'
      BY <1>1, <2>1
    <3>2. GrantsInv => ClientHasGrants
      BY <1>2, <2>1
    <3> QED
      BY InitGrants, <3>1, <3>2, InitType, NextType, PTL DEF Spec
  <2>2. CASE ~NoRevoke
    <3>1. ClientHasGrants
      BY <1>3, <2>2
    <3> QED
      BY <3>1, PTL
  <2> QED
    BY <2>1, <2>2
=============================================================================
