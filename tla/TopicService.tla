---------------------------- MODULE TopicService ----------------------------
(***************************************************************************)
(* TopicService: addTopic, updateTopic and removeTopic as POST topics,     *)
(* DELETE topics, the cluster resources and createMmaTopic run them.       *)
(* addTopic makes three AAF permissions, adds each client (see             *)
(* MR_ClientService), makes the bridges (see MirrorMakerService) and       *)
(* stores the topic last.                                                  *)
(***************************************************************************)
EXTENDS Dbc

(* POST topics without a replication case: reviewTopic reads the clusters  *)
(* and locations.                                                          *)
Review(w) ==
  LET th == t[w]
      cs == {[loc |-> s.loc, acts |-> s.acts, status |-> "NEW"] :
               s \in {th.todo[i] : i \in DOMAIN th.todo}}
      g  == GraphOf(cs, FALSE, layer)
  IN /\ th.pc = "review"
     /\ \E c \in CentralChoices(g, layer, NoLoc) :
          Go(w, [th EXCEPT !.repl = ReviewTopic(Len(th.todo), g, c, clusters),
                           !.pc = "exists"])
     /\ UNCHANGED <<layer, clusters, topics, clients, mirrors, aafVars, mrVars, ctlVars>>

(* addTopic begins: the check that the topic does not exist.               *)
Exists(w) ==
  LET th == t[w] IN
  /\ th.pc = "exists"
  /\ Go(w, IF topics[th.fqtn] # Absent
           THEN AddTopicReturns([th EXCEPT !.err = "conflict"], FALSE)
           ELSE [th EXCEPT !.err = "notFound", !.left = Actions, !.pc = "perm"])
  /\ UNCHANGED <<layer, clusters, topics, clients, mirrors, aafVars, mrVars, ctlVars>>

(* Mutant: the result of addPerm is ignored.                               *)
AddPermIgnored(w) ==
  LET th == t[w] IN
  /\ th.pc = "perm"
  /\ \E a \in th.left :
       /\ Go(w, [th EXCEPT !.left = @ \ {a},
                           !.pc = IF th.left = {a} THEN "next" ELSE "perm"])
       /\ perms' \in {perms \cup {<<th.fqtn, a>>}} \cup (IF "aaf" \in Faults THEN {perms} ELSE {})
  /\ UNCHANGED <<layer, clusters, topics, clients, mirrors, grants, mrVars, ctlVars>>

(* One AAF permission of the topic.  A failed call may have taken effect.  *)
AddPerm(w) ==
  LET th == t[w] IN
  /\ th.pc = "perm"
  /\ \E a \in th.left :
       \/ /\ perms' = perms \cup {<<th.fqtn, a>>}
          /\ Go(w, [th EXCEPT !.left = @ \ {a},
                              !.pc = IF th.left = {a} THEN "next" ELSE "perm"])
       \/ /\ "aaf" \in Faults
          /\ perms' \in {perms, perms \cup {<<th.fqtn, a>>}}
          /\ Go(w, AddTopicReturns([th EXCEPT !.err = "fail"], FALSE))
  /\ UNCHANGED <<layer, clusters, topics, clients, mirrors, grants, mrVars, ctlVars>>

(* The clients loop of addTopic.  A client without a location comes back   *)
(* as null with the error code left as it was.                             *)
NextClient(w) ==
  LET th == t[w]
      s  == Head(th.todo)
      rest == [th EXCEPT !.todo = Tail(@)]
  IN /\ th.pc = "next"
     /\ \/ /\ th.todo = <<>>
           /\ Go(w, [th EXCEPT !.pc = "bridge"])
           /\ UNCHANGED nextId
        \/ /\ th.todo # <<>>
           /\ nextId' = nextId + 1
           /\ Go(w, IF s.loc # NoLoc
                    THEN [rest EXCEPT !.pc = "grant", !.left = s.acts,
                            !.cur = [id |-> nextId, fqtn |-> th.fqtn, loc |-> s.loc,
                                     role |-> s.role, acts |-> s.acts, status |-> "VALID"]]
                    ELSE IF th.err = "ok" THEN [rest EXCEPT !.view = @ \cup {Null}]
                    ELSE AddTopicReturns(rest, FALSE))
     /\ UNCHANGED <<layer, clusters, topics, clients, mirrors, aafVars, mrVars, served, exits>>

(* The last step of addTopic and of updateTopic: mr_topics.put.            *)
PutTopic(w) ==
  LET th == [t[w] EXCEPT !.err = "ok"] IN
  /\ th.pc = "putTopic"
  /\ topics' = [topics EXCEPT ![th.fqtn] = th.repl]
  /\ Go(w, IF th.rq.op = "deleteClient" THEN [th EXCEPT !.pc = "revoke"]
           ELSE AddTopicReturns(th, TRUE))
  /\ UNCHANGED <<layer, clusters, clients, mirrors, aafVars, mrVars, ctlVars>>

-----------------------------------------------------------------------------
(* Mutant: removeTopic drops the topic before its clients.                 *)
ListClientsNone(w) ==
  LET th == t[w] IN
  /\ th.pc = "list"
  /\ Go(w, IF topics[th.fqtn] = Absent THEN Reply("notFound")
           ELSE [th EXCEPT !.dels = {}, !.err = "ok", !.pc = "dropTopic"])
  /\ UNCHANGED <<layer, clusters, topics, clients, mirrors, aafVars, mrVars, ctlVars>>

(* DELETE topics: removeTopic reads the topic and its clients, ...         *)
ListClients(w) ==
  LET th  == t[w]
      ids == {c.id : c \in ClientsOf(th.fqtn)}
  IN /\ th.pc = "list"
     /\ Go(w, IF topics[th.fqtn] = Absent THEN Reply("notFound")
              ELSE [th EXCEPT !.dels = ids, !.err = "ok",
                              !.pc = IF ids = {} THEN "dropTopic" ELSE "find"])
     /\ UNCHANGED <<layer, clusters, topics, clients, mirrors, aafVars, mrVars, ctlVars>>

(* Mutant: the row keeps the key of the topic with no replication case.    *)
DropTopicKeepsRow(w) ==
  /\ t[w].pc = "dropTopic"
  /\ topics' = [topics EXCEPT ![t[w].fqtn] = "null"]
  /\ Go(w, Success)
  /\ UNCHANGED <<layer, clusters, clients, mirrors, aafVars, mrVars, ctlVars>>

(* ... removes each client (see MR_ClientService), and then the topic.     *)
DropTopic(w) ==
  LET th == t[w] IN
  /\ th.pc = "dropTopic"
  /\ topics' = [topics EXCEPT ![th.fqtn] = Absent]
  /\ Go(w, Success)
  /\ UNCHANGED <<layer, clusters, clients, mirrors, aafVars, mrVars, ctlVars>>

TopicNext(w) ==
  \/ Review(w) \/ Exists(w) \/ AddPerm(w) \/ NextClient(w) \/ PutTopic(w)
  \/ ListClients(w) \/ DropTopic(w)
=============================================================================
