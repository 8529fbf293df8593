-------------------------- MODULE MR_ClusterService --------------------------
(***************************************************************************)
(* MR_ClusterService and DcaeLocationService with their resources, and     *)
(* DmaapService.createMmaTopic: the operations around the clusters and the *)
(* locations topics are placed on.  A cluster that appears at a central    *)
(* location gets the bridge admin topic and its two clients through        *)
(* addTopic (setBridgeClientPerms).                                        *)
(***************************************************************************)
EXTENDS Dbc

(* addTopic of the bridge admin topic with the two MirrorMaker roles at l. *)
(* new Topic() has the replication case NOT_SPECIFIED.                     *)
AddAdminTopic(th, l) ==
  LET Spec(role) == [loc |-> l, role |-> role, acts |-> Actions] IN
  [th EXCEPT !.fqtn = AdminTopic, !.repl = NotSpecified, !.pc = "exists",
             !.todo = <<Spec(ProvRole), Spec(AgentRole)>>]

(* POST, PUT and DELETE mr_clusters: the row, ...                          *)
GetCluster(w) ==
  LET th      == t[w]
      present == th.rq.loc \in ClusterLocs
  IN /\ th.pc = "clusterGet"
     /\ Go(w, CASE th.rq.op = "postCluster" ->
                     IF present THEN Reply("conflict") ELSE [th EXCEPT !.pc = "clusterPut"]
                [] th.rq.op = "putCluster" ->
                     IF present THEN [th EXCEPT !.pc = "clusterPut"] ELSE Reply("notFound")
                [] OTHER ->
                     IF present THEN [th EXCEPT !.pc = "clusterRemove"] ELSE Reply("notFound"))
     /\ UNCHANGED <<layer, clusters, topics, clients, mirrors, aafVars, mrVars, ctlVars>>

(* ... its new value (PUT keeps the status of the body), ...               *)
PutCluster(w) ==
  LET th == t[w] IN
  /\ th.pc = "clusterPut"
  /\ clusters' = [clusters EXCEPT ![th.rq.loc] = ClusterStatus(th)]
  /\ Go(w, [th EXCEPT !.pc = "clusterLoc"])
  /\ UNCHANGED <<layer, topics, clients, mirrors, aafVars, mrVars, ctlVars>>

(* ... and the location: null is tested by POST and dereferenced by PUT.   *)
ClusterLocation(w) ==
  LET th == t[w] IN
  /\ th.pc = "clusterLoc"
  /\ Go(w, IF layer[th.rq.loc] = "central" THEN AddAdminTopic(th, th.rq.loc)
           ELSE IF layer[th.rq.loc] = Absent /\ th.rq.op = "putCluster" THEN ServerError
           ELSE ClusterAnswer(ClusterStatus(th)))
  /\ UNCHANGED <<layer, clusters, topics, clients, mirrors, aafVars, mrVars, ctlVars>>

(* setBridgeClientPerms failed: the row is put again as INVALID, and       *)
(* error() is sent with the code 200 set last.                             *)
InvalidateCluster(w) ==
  LET th == t[w] IN
  /\ th.pc = "clusterInvalid"
  /\ clusters' = [clusters EXCEPT ![th.rq.loc] = "INVALID"]
  /\ Go(w, ClusterAnswer("INVALID"))
  /\ UNCHANGED <<layer, topics, clients, mirrors, aafVars, mrVars, ctlVars>>

RemoveCluster(w) ==
  LET th == t[w] IN
  /\ th.pc = "clusterRemove"
  /\ clusters' = [clusters EXCEPT ![th.rq.loc] = Absent]
  /\ Go(w, Success)
  /\ UNCHANGED <<layer, topics, clients, mirrors, aafVars, mrVars, ctlVars>>

-----------------------------------------------------------------------------
(* createMmaTopic (POST and PUT dmaap): the first central location, or a   *)
(* name that no location has.                                              *)
CentralLocation(w) ==
  LET th == t[w] IN
  /\ th.pc = "central"
  /\ \E l \in CentralChoices(Locs, layer, DefaultCentral) : Go(w, AddAdminTopic(th, l))
  /\ UNCHANGED <<layer, clusters, topics, clients, mirrors, aafVars, mrVars, ctlVars>>

-----------------------------------------------------------------------------
(* POST and PUT dcaeLocations: the test of the row, ...                    *)
GetLocation(w) ==
  LET th == t[w]
      known == layer[th.rq.loc] # Absent
  IN /\ th.pc = "locGet"
     /\ Go(w, IF th.rq.op = "postLocation" /\ known THEN Reply("conflict")
              ELSE IF th.rq.op = "putLocation" /\ ~known THEN Reply("notFound")
              ELSE [th EXCEPT !.pc = "locPut"])
     /\ UNCHANGED <<layer, clusters, topics, clients, mirrors, aafVars, mrVars, ctlVars>>

(* ... and its new value.                                                  *)
PutLocation(w) ==
  LET th == t[w] IN
  /\ th.pc = "locPut"
  /\ layer' = [layer EXCEPT ![th.rq.loc] = th.rq.layer]
  /\ Go(w, Success)
  /\ UNCHANGED <<clusters, topics, clients, mirrors, aafVars, mrVars, ctlVars>>

RemoveLocation(w) ==
  LET th == t[w] IN
  /\ th.pc = "locRemove"
  /\ layer' = [layer EXCEPT ![th.rq.loc] = Absent]
  /\ Go(w, Success)
  /\ UNCHANGED <<clusters, topics, clients, mirrors, aafVars, mrVars, ctlVars>>

ClusterNext(w) ==
  \/ GetCluster(w) \/ PutCluster(w) \/ ClusterLocation(w) \/ InvalidateCluster(w)
  \/ RemoveCluster(w) \/ CentralLocation(w) \/ GetLocation(w) \/ PutLocation(w)
  \/ RemoveLocation(w)
=============================================================================
