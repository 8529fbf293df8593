-------------------------- MODULE MR_ClientService --------------------------
(***************************************************************************)
(* MR_ClientService: addMr_Client (for addTopic and for POST mr_clients),  *)
(* updateMr_Client and removeMr_Client (for DELETE topics and for DELETE   *)
(* mr_clients).  A client is granted its actions in AAF, its topic is      *)
(* created on the cluster of its location (on every central cluster for a  *)
(* central location), and then its row is stored.                          *)
(***************************************************************************)
EXTENDS Dbc

-----------------------------------------------------------------------------
(* POST mr_clients: the cluster of the client's location, ...              *)
FindCluster(w) ==
  LET th == t[w] IN
  /\ th.pc = "cluster"
  /\ Go(w, IF \E l \in ClusterLocs : l = Head(th.rq.clients).loc
           THEN [th EXCEPT !.err = "ok", !.pc = "topic"]
           ELSE Reply("bad"))
  /\ UNCHANGED <<layer, clusters, topics, clients, mirrors, aafVars, mrVars, ctlVars>>

(* ... its topic, and then addMr_Client.  The row's id is a fresh one      *)
(* unless the body carries its own.                                        *)
FindTopic(w) ==
  LET th == t[w]
      s  == Head(th.rq.clients)
      id == IF th.rq.id = 0 THEN nextId ELSE th.rq.id
  IN /\ th.pc = "topic"
     /\ nextId' = nextId + 1
     /\ Go(w, IF topics[th.fqtn] = Absent THEN Reply("notFound")
              ELSE [th EXCEPT !.err = "ok", !.pc = "grant", !.left = s.acts,
                      !.cur = [id |-> id, fqtn |-> th.fqtn, loc |-> s.loc,
                               role |-> s.role, acts |-> s.acts, status |-> "VALID"]])
     /\ UNCHANGED <<layer, clusters, topics, clients, mirrors, aafVars, mrVars, served, exits>>

-----------------------------------------------------------------------------
(* Mutant: a failed grant does not end addMr_Client.                       *)
GrantIgnored(w) ==
  LET th == t[w] IN
  /\ th.pc = "grant"
  /\ \E a \in th.left :
       /\ Go(w, [th EXCEPT !.left = @ \ {a}])
       /\ grants' \in {grants \cup {<<th.cur.fqtn, th.cur.role, a>>}}
                        \cup (IF "aaf" \in Faults THEN {grants} ELSE {})
  /\ UNCHANGED <<layer, clusters, topics, clients, mirrors, perms, mrVars, ctlVars>>

(* grantClientPerms: one AAF grant.  Any other answer than 201 and 409 ends *)
(* it with that answer as the error code, which the callers compare with    *)
(* 2xx: an unexpected 2xx lets them go on without the client.               *)
Grant(w) ==
  LET th == t[w] IN
  /\ th.pc = "grant"
  /\ \E a \in th.left :
       LET g == <<th.cur.fqtn, th.cur.role, a>> IN
       \/ /\ grants' = grants \cup {g}
          /\ Go(w, [th EXCEPT !.left = @ \ {a}])
       \/ /\ "aaf" \in Faults
          /\ grants' \in {grants, grants \cup {g}}
          /\ Go(w, AddClientFails([th EXCEPT !.err = "fail"]))
       \/ /\ "aaf2xx" \in Faults
          /\ grants' \in {grants, grants \cup {g}}
          /\ Go(w, AddClientNull(th))
  /\ UNCHANGED <<layer, clusters, topics, clients, mirrors, perms, mrVars, ctlVars>>

(* Granted: look up the location and its cluster.                          *)
Place(w) ==
  LET th == t[w]
      l  == th.cur.loc
  IN /\ th.pc = "grant" /\ th.left = {}
     /\ Go(w, IF l \notin ClusterLocs
              THEN [th EXCEPT !.cur.status = "STAGED", !.posts = {}, !.pc = "post"]
              ELSE IF layer[l] = "central" THEN [th EXCEPT !.pc = "centrals"]
              ELSE [th EXCEPT !.posts = {l}, !.pc = "post"])
     /\ UNCHANGED <<layer, clusters, topics, clients, mirrors, aafVars, mrVars, ctlVars>>

(* A central client: its topic goes to every central cluster.              *)
ListCentrals(w) ==
  LET th == t[w] IN
  /\ th.pc = "centrals"
  /\ Go(w, IF CentralsNpe THEN ServerError
           ELSE [th EXCEPT !.posts = Centrals, !.pc = "post"])
  /\ UNCHANGED <<layer, clusters, topics, clients, mirrors, aafVars, mrVars, ctlVars>>

(* Mutant: the error code of addTopicToCluster is not tested.              *)
PostToClusterUntested(w) ==
  LET th == t[w] IN
  /\ th.pc = "post"
  /\ \E l \in th.posts :
       /\ Go(w, [th EXCEPT !.posts = @ \ {l}, !.cur.status = "VALID"])
       /\ created' \in {created \cup {<<l, th.cur.fqtn>>}}
                        \cup (IF "mrHttp" \in Faults THEN {created} ELSE {})
  /\ UNCHANGED <<layer, clusters, topics, clients, mirrors, aafVars, agent, ctlVars>>

(* addTopicToCluster and the test of its error code.  A cluster that does  *)
(* not answer, or whose URL opens no HTTPS connection, leaves the code of   *)
(* the call before it.                                                      *)
PostToCluster(w) ==
  LET th == t[w] IN
  /\ th.pc = "post"
  /\ \E l \in th.posts :
       LET more == [th EXCEPT !.posts = @ \ {l}, !.cur.status = "VALID"] IN
       \/ /\ created' = created \cup {<<l, th.cur.fqtn>>}     \* 2xx or 409
          /\ Go(w, [more EXCEPT !.err = "ok"])
       \/ /\ "mrHttp" \in Faults                              \* another code
          /\ created' \in {created, created \cup {<<l, th.cur.fqtn>>}}
          /\ Go(w, AddClientFails([th EXCEPT !.err = "fail"]))
       \/ /\ "mrConn" \in Faults                              \* no answer
          /\ created' \in {created, created \cup {<<l, th.cur.fqtn>>}}
          /\ Go(w, IF th.err = "ok" THEN more ELSE AddClientFails(th))
       \/ /\ "mrUrl" \in Faults                               \* no connection
          /\ UNCHANGED created
          /\ Go(w, IF th.err = "ok" THEN [more EXCEPT !.cur.status = "INVALID"]
                   ELSE AddClientFails(th))
  /\ UNCHANGED <<layer, clusters, topics, clients, mirrors, aafVars, agent, ctlVars>>

(* mr_clients.put, the last step of addMr_Client.                          *)
StoreClient(w) ==
  LET th == [t[w] EXCEPT !.err = "ok"] IN
  /\ th.pc = "post" /\ th.posts = {}
  /\ clients' = Put(th.cur)
  /\ Go(w, IF th.rq.op = "postClient" THEN [th EXCEPT !.pc = "reread"]
           ELSE [th EXCEPT !.view = @ \cup {th.cur}, !.pc = "next"])
  /\ UNCHANGED <<layer, clusters, topics, mirrors, aafVars, mrVars, ctlVars>>

(* POST mr_clients reads the topic again for checkForBridge, which a null  *)
(* topic makes throw.                                                      *)
Reread(w) ==
  LET th == t[w] IN
  /\ th.pc = "reread"
  /\ Go(w, IF topics[th.fqtn] = Absent THEN ServerError
           ELSE [th EXCEPT !.repl = topics[th.fqtn], !.view = ClientsOf(th.fqtn),
                           !.pc = "bridge"])
  /\ UNCHANGED <<layer, clusters, topics, clients, mirrors, aafVars, mrVars, ctlVars>>

-----------------------------------------------------------------------------
(* PUT mr_clients: the row is looked up, and put whether found or not.     *)
LookupClient(w) ==
  LET th == t[w] IN
  /\ th.pc = "lookup"
  /\ Go(w, [th EXCEPT !.pc = "overwrite",
              !.err = IF \E c \in clients : c.id = th.rq.id THEN "ok" ELSE "notFound"])
  /\ UNCHANGED <<layer, clusters, topics, clients, mirrors, aafVars, mrVars, ctlVars>>

OverwriteClient(w) ==
  LET th == t[w]
      s  == Head(th.rq.clients)
  IN /\ th.pc = "overwrite"
     /\ clients' = Put([id |-> th.rq.id, fqtn |-> th.rq.fqtn, loc |-> s.loc,
                        role |-> s.role, acts |-> s.acts, status |-> th.rq.status])
     /\ Go(w, IF th.err = "ok" THEN Success ELSE Reply(th.err))
     /\ UNCHANGED <<layer, clusters, topics, mirrors, aafVars, mrVars, ctlVars>>

-----------------------------------------------------------------------------
(* removeMr_Client: the row, ...                                           *)
FindClient(w) ==
  LET th == t[w] IN
  /\ th.pc = "find"
  /\ \E id \in th.dels :
       \/ /\ \A c \in clients : c.id # id
          /\ Go(w, Reply("notFound"))
       \/ \E c \in clients :
            /\ c.id = id
            /\ Go(w, [th EXCEPT !.cur = c, !.left = c.acts, !.err = "ok",
                        !.pc = IF th.rq.op = "deleteClient" THEN "view" ELSE "revoke"])
  /\ UNCHANGED <<layer, clusters, topics, clients, mirrors, aafVars, mrVars, ctlVars>>

(* Mutant: updateTopic stores the topic under the request's name.          *)
ViewTopicUnnamed(w) ==
  LET th == t[w]
      f  == th.cur.fqtn
  IN /\ th.pc = "view"
     /\ Go(w, IF topics[f] = Absent THEN [th EXCEPT !.err = "notFound", !.pc = "revoke"]
              ELSE [th EXCEPT !.repl = topics[f], !.err = "ok", !.pc = "bridge",
                              !.view = {c \in ClientsOf(f) : c.id # th.cur.id}])
     /\ UNCHANGED <<layer, clusters, topics, clients, mirrors, aafVars, mrVars, ctlVars>>

(* ... for DELETE mr_clients the topic as it is without the client, which  *)
(* updateTopic bridges and stores again, ...                               *)
ViewTopic(w) ==
  LET th == t[w]
      f  == th.cur.fqtn
  IN /\ th.pc = "view"
     /\ Go(w, IF topics[f] = Absent THEN [th EXCEPT !.err = "notFound", !.pc = "revoke"]
              ELSE [th EXCEPT !.fqtn = f, !.repl = topics[f], !.err = "ok",
                              !.view = {c \in ClientsOf(f) : c.id # th.cur.id},
                              !.pc = "bridge"])
     /\ UNCHANGED <<layer, clusters, topics, clients, mirrors, aafVars, mrVars, ctlVars>>

(* removeMr_Client returns to DELETE mr_clients, or to the next client of  *)
(* removeTopic.                                                            *)
RemoveClientReturns(th) ==
  LET rest == th.dels \ {th.cur.id} IN
  IF th.rq.op = "deleteClient" THEN (IF th.err = "ok" THEN Success ELSE Reply(th.err))
  ELSE IF th.err # "ok" THEN Reply(th.err)
  ELSE [th EXCEPT !.dels = rest, !.pc = IF rest = {} THEN "dropTopic" ELSE "find"]

(* ... its grants at delete level 2: any other answer than 200 and 404 ends *)
(* revokeClientPerms with that answer as the error code, and an unexpected  *)
(* 2xx lets removeMr_Client go on to the row with grants left, ...          *)
RevokeGrant(w) ==
  LET th == t[w] IN
  /\ th.pc = "revoke" /\ DeleteLevel >= 2
  /\ \E a \in th.left :
       LET g == <<th.cur.fqtn, th.cur.role, a>> IN
       \/ /\ grants' = grants \ {g}
          /\ Go(w, [th EXCEPT !.left = @ \ {a}])
       \/ /\ "aaf" \in Faults
          /\ grants' \in {grants, grants \ {g}}
          /\ Go(w, RemoveClientReturns([th EXCEPT !.err = "fail"]))
       \/ /\ "aaf2xx" \in Faults
          /\ grants' \in {grants, grants \ {g}}
          /\ Go(w, [th EXCEPT !.err = "ok", !.pc = "drop"])
  /\ UNCHANGED <<layer, clusters, topics, clients, mirrors, perms, mrVars, ctlVars>>

(* Mutants: the row is dropped above delete level 1 only; the row is       *)
(* dropped before the grants are revoked.                                  *)
DropClientAbove1(w) ==
  LET th   == t[w]
      drop == DeleteLevel > 1 /\ th.err = "ok"
  IN /\ th.pc = "revoke"
     /\ DeleteLevel >= 2 => th.left = {}
     /\ clients' = IF drop THEN {c \in clients : c.id # th.cur.id} ELSE clients
     /\ Go(w, RemoveClientReturns(th))
     /\ UNCHANGED <<layer, clusters, topics, mirrors, aafVars, mrVars, ctlVars>>

DropClientFirst(w) ==
  LET th == t[w] IN
  /\ th.pc \in {"revoke", "drop"}
  /\ clients' = {c \in clients : c.id # th.cur.id}
  /\ Go(w, RemoveClientReturns(th))
  /\ UNCHANGED <<layer, clusters, topics, mirrors, aafVars, mrVars, ctlVars>>

(* ... and the row at delete level 1.  At level 2 an error left by         *)
(* updateTopic keeps the row.                                              *)
DropClient(w) ==
  LET th   == t[w]
      drop == DeleteLevel = 1 \/ (DeleteLevel >= 2 /\ th.err = "ok")
  IN /\ \/ th.pc = "revoke" /\ (DeleteLevel >= 2 => th.left = {})
        \/ th.pc = "drop"
     /\ clients' = IF drop THEN {c \in clients : c.id # th.cur.id} ELSE clients
     /\ Go(w, RemoveClientReturns(th))
     /\ UNCHANGED <<layer, clusters, topics, mirrors, aafVars, mrVars, ctlVars>>

ClientNext(w) ==
  \/ FindCluster(w) \/ FindTopic(w) \/ Grant(w) \/ Place(w) \/ ListCentrals(w)
  \/ PostToCluster(w) \/ StoreClient(w) \/ Reread(w) \/ LookupClient(w)
  \/ OverwriteClient(w) \/ FindClient(w) \/ ViewTopic(w) \/ RevokeGrant(w)
  \/ DropClient(w)
=============================================================================
