--------------------------- MODULE DR_NodeService ---------------------------
(***************************************************************************)
(* DR_NodeService with its resource and its inner class DrProv: a node is  *)
(* entered in NODES, and in STATIC_ROUTING_NODES when its location is an   *)
(* edge, before its row is stored, and taken out of both before its row is *)
(* removed.  The lists are read, changed and written back as a whole.      *)
(***************************************************************************)
EXTENDS DrDbc

Contains(list, n) == list[n] > 0

(* Mutant: the name replaces the list it is added to.                      *)
AddToListAlone(list, n) == Only(n)

(* addNode and addStaticNode; removeFromList, which keeps no empty name.   *)
AddToList(list, n) == [list EXCEPT ![n] = @ + 1]
RemoveFromList(list, n) ==
  [x \in Names |->
     IF x \notin {n, Blank} THEN list[x]
     ELSE IF x = Blank /\ (\A y \in Names \ {n, Blank} : list[y] = 0) THEN 1 ELSE 0]

(* doGetNodes and doPutNodes: the code after a call.  A lost answer leaves *)
(* the code as it was.                                                     *)
CodeAfter(code, o) == IF o.answer = "lost" THEN code ELSE o.answer

Adds(th)    == th.rq.op = "postNode"
Change(th)  == IF Adds(th) THEN AddToList(th.list, th.rq.node)
                           ELSE RemoveFromList(th.list, th.rq.node)

(* Mutant: DELETE does not test the row for null.                          *)
GetNodeUntested(w) ==
  LET th == t[w]
      n  == th.rq.node
  IN /\ th.pc = "nodeGet"
     /\ Go(w, CASE th.rq.op = "postNode" /\ nodes[n] # Absent -> Reply("conflict")
                [] th.rq.op = "putNode" -> Reply("notFound")
                [] OTHER -> [th EXCEPT !.pc = "nodesGet",
                               !.loc = IF Adds(th) THEN th.rq.loc ELSE nodes[n]])
     /\ UNCHANGED <<tables, server, statics, ctl>>

(* The row: POST wants none, DELETE wants one; PUT looks it up by the      *)
(* object instead of the key and never finds it.                           *)
GetNode(w) ==
  LET th == t[w]
      n  == th.rq.node
  IN /\ th.pc = "nodeGet"
     /\ Go(w, CASE th.rq.op = "postNode" ->
                     IF nodes[n] # Absent THEN Reply("conflict")
                     ELSE [th EXCEPT !.pc = "nodesGet", !.loc = th.rq.loc]
                [] th.rq.op = "putNode" -> Reply("notFound")
                [] OTHER ->
                     IF nodes[n] = Absent THEN Reply("notFound")
                     ELSE [th EXCEPT !.pc = "nodesGet", !.loc = nodes[n]])
     /\ UNCHANGED <<tables, server, statics, ctl>>

(* Mutant: POST appends without looking for the name.                      *)
GetNodesUnsearched(w) ==
  LET th     == t[w]
      wanted == Adds(th) \/ Contains(drNodes, th.rq.node)
  IN /\ th.pc = "nodesGet"
     /\ \E o \in Outcomes :
          LET err == CodeAfter(th.err, o) IN
          Go(w, IF o.answer = "ok"
                THEN [th EXCEPT !.err = "ok", !.list = drNodes,
                        !.pc = IF wanted THEN "nodesPut" ELSE "nodeLocation"]
                ELSE IF Adds(th) THEN Reply(err)
                ELSE [th EXCEPT !.err = err, !.pc = "nodeLocation"])
     /\ UNCHANGED <<tables, server, statics, ctl>>

(* containsNode: GET NODES.  POST gives up without an answer, DELETE goes  *)
(* on.                                                                     *)
GetNodes(w) ==
  LET th     == t[w]
      wanted == Contains(drNodes, th.rq.node) # Adds(th)  \* the list is to be changed
  IN /\ th.pc = "nodesGet"
     /\ \E o \in Outcomes :
          LET err == CodeAfter(th.err, o) IN
          Go(w, IF o.answer = "ok"
                THEN [th EXCEPT !.err = "ok", !.list = drNodes,
                        !.pc = IF wanted THEN "nodesPut" ELSE "nodeLocation"]
                ELSE IF Adds(th) THEN Reply(err)
                ELSE [th EXCEPT !.err = err, !.pc = "nodeLocation"])
     /\ UNCHANGED <<tables, server, statics, ctl>>

(* setX: PUT NODES with the changed copy.  A lost answer leaves the 200 of *)
(* the GET.                                                                *)
PutNodes(w) ==
  LET th == t[w] IN
  /\ th.pc = "nodesPut"
  /\ \E o \in Outcomes :
       /\ drNodes' = IF o.effect THEN Change(th) ELSE drNodes
       /\ Go(w, IF o.answer = "fail" /\ Adds(th) THEN Reply("fail")
                ELSE [th EXCEPT !.pc = "nodeLocation",
                                   !.err = CodeAfter(@, o)])
  /\ UNCHANGED <<tables, drFeeds, drUsers, drSubs, ingress, egress, drStatic, statics, ctl>>

(* isEdgeLocation dereferences the row of the location.                    *)
NodeLocation(w) ==
  LET th == t[w] IN
  /\ th.pc = "nodeLocation"
  /\ Go(w, CASE Layer[th.loc] = Absent -> ServerError
             [] Layer[th.loc] = "edge" -> [th EXCEPT !.pc = "staticGet"]
             [] OTHER -> [th EXCEPT !.pc = "nodeStore"])
  /\ UNCHANGED <<tables, server, statics, ctl>>

(* containsStaticNode: GET STATIC_ROUTING_NODES.  When the answer is lost, *)
(* the list is null and the code is that of the calls before: POST then    *)
(* appends to "null".                                                      *)
GetStatic(w) ==
  LET th     == t[w]
      wanted == Contains(drStatic, th.rq.node) # Adds(th)
      lost   == Adds(th) /\ th.err = "ok"
  IN /\ th.pc = "staticGet"
     /\ \E o \in Outcomes :
          Go(w, CASE o.answer = "ok" ->
                       [th EXCEPT !.err = "ok", !.list = drStatic,
                          !.pc = IF wanted THEN "staticPut" ELSE "nodeStore"]
                  [] o.answer = "lost" ->
                       [th EXCEPT !.list = Only(NullName),
                          !.pc = IF lost THEN "staticPut" ELSE "nodeStore"]
                  [] OTHER -> IF Adds(th) THEN Reply("fail")
                              ELSE [th EXCEPT !.err = "fail", !.pc = "nodeStore"])
     /\ UNCHANGED <<tables, server, statics, ctl>>

(* Mutant: POST does not test the answer of the last PUT.                  *)
PutStaticUntested(w) ==
  LET th == t[w] IN
  /\ th.pc = "staticPut"
  /\ \E o \in Outcomes :
       /\ drStatic' = IF o.effect THEN Change(th) ELSE drStatic
       /\ Go(w, [th EXCEPT !.pc = "nodeStore"])
  /\ UNCHANGED <<tables, drFeeds, drUsers, drSubs, ingress, egress, drNodes, statics, ctl>>

(* setX: PUT STATIC_ROUTING_NODES with the changed copy.                   *)
PutStatic(w) ==
  LET th == t[w] IN
  /\ th.pc = "staticPut"
  /\ \E o \in Outcomes :
       /\ drStatic' = IF o.effect THEN Change(th) ELSE drStatic
       /\ Go(w, IF o.answer = "fail" /\ Adds(th) THEN Reply("fail")
                ELSE [th EXCEPT !.pc = "nodeStore"])
  /\ UNCHANGED <<tables, drFeeds, drUsers, drSubs, ingress, egress, drNodes, statics, ctl>>

(* The row last; DELETE removes it whatever became of the lists.           *)
StoreNode(w) ==
  LET th == t[w] IN
  /\ th.pc = "nodeStore"
  /\ nodes' = [nodes EXCEPT ![th.rq.node] = IF Adds(th) THEN th.loc ELSE Absent]
  /\ Go(w, Success)
  /\ UNCHANGED <<feeds, pubs, subs, server, statics, ctl>>

NodeNext(w) ==
  \/ GetNode(w) \/ GetNodes(w) \/ PutNodes(w) \/ NodeLocation(w) \/ GetStatic(w)
  \/ PutStatic(w) \/ StoreNode(w)
=============================================================================
