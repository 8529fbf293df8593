--------------------------- MODULE MrProvisioning ---------------------------
(***************************************************************************)
(* Message-router provisioning as a whole: Jetty threads serve topic,      *)
(* client, cluster and location requests at the same time, with no lock    *)
(* and no transaction around their steps, against AAF, the MR clusters and *)
(* the MirrorMaker agent.  The process may exit (AafService calls          *)
(* System.exit on a 401 or 403) and is started again on the same database. *)
(***************************************************************************)
EXTENDS TopicService, MR_ClientService, MirrorMakerService, MR_ClusterService, FiniteSets

(* The first step of each resource method.                                 *)
FirstStep(r) ==
  CASE r.op = "postTopic"      -> IF r.repl = NotSpecified THEN "review" ELSE "exists"
    [] r.op = "deleteTopic"    -> "list"
    [] r.op = "postClient"     -> "cluster"
    [] r.op = "putClient"      -> "lookup"
    [] r.op = "deleteClient"   -> "find"
    [] r.op = "createMmaTopic" -> "central"
    [] r.op \in {"postCluster", "putCluster", "deleteCluster"} -> "clusterGet"
    [] r.op \in {"postLocation", "putLocation"} -> "locGet"
    [] OTHER                   -> "locRemove"

(* An idle thread receives a request.                                      *)
Start(w) ==
  /\ t[w].pc = "idle"
  /\ served < MaxRequests
  /\ served' = served + 1
  /\ \E r \in Requests :
       Go(w, [Idle EXCEPT !.pc = FirstStep(r), !.rq = r, !.fqtn = r.fqtn,
                !.repl = r.repl, !.todo = r.clients, !.dels = {r.id}])
  /\ UNCHANGED <<layer, clusters, topics, clients, mirrors, aafVars, mrVars,
                 nextId, exits>>

(* The process exits: AAF refuses the credentials of a call, or the        *)
(* process is killed.  Requests are lost, the tables are not.              *)
CallsAaf(th) == \/ th.pc \in {"perm", "grant"} /\ th.left # {}
                \/ th.pc = "revoke" /\ DeleteLevel >= 2 /\ th.left # {}

ExitProcess ==
  /\ exits < MaxExits
  /\ \/ "denied" \in Faults /\ \E w \in Threads : CallsAaf(t[w])
     \/ "kill" \in Faults /\ \E w \in Threads : t[w].pc # "idle"
  /\ exits' = exits + 1
  /\ t' = [w \in Threads |-> Idle]
  /\ UNCHANGED <<layer, clusters, topics, clients, mirrors, aafVars, mrVars,
                 nextId, served>>

(* All MaxRequests requests are served (the bound of the model).           *)
Finished ==
  /\ served = MaxRequests
  /\ \A w \in Threads : t[w].pc = "idle"
  /\ UNCHANGED vars

Serve(w) == TopicNext(w) \/ ClientNext(w) \/ BridgeNext(w) \/ ClusterNext(w)

Next == (\E w \in Threads : Start(w) \/ Serve(w)) \/ ExitProcess \/ Finished

Spec == Init /\ [][Next]_vars

(* The operating system runs every thread that can run, but no connection   *)
(* of the bus controller has a time-out: nothing makes a step that waits    *)
(* for AAF, for a cluster or for the MirrorMaker agent happen.              *)
CallsServer(th) == \/ CallsAaf(th)
                   \/ th.pc = "post" /\ th.posts # {}
                   \/ th.pc = "mmCreate" /\ Centrals # {} /\ ~CentralsNpe
                   \/ th.pc = "mmWhitelist"

FairSpec == Spec /\ \A w \in Threads : WF_vars(Serve(w) /\ ~CallsServer(t[w]))

-----------------------------------------------------------------------------
(* What the properties are about.                                          *)
Answers(w, code) == t[w].pc # "idle" /\ t'[w].pc = "idle" /\ t'[w].reply = code
Runs(op) == \E r \in Requests : r.op = op
Adding(w, f) == t[w].pc # "idle" /\ t[w].fqtn = f
                /\ t[w].rq.op \in {"postTopic", "createMmaTopic", "postCluster", "putCluster"}
GrantsOf(c) == {<<c.fqtn, c.role, a>> : a \in c.acts}
Elements(s) == {s[i] : i \in DOMAIN s}

(* A stored topic has its three AAF permissions, whatever failed, was      *)
(* interleaved or was cut short by an exit before it was stored            *)
(* (TopicService.addTopic stores the topic after addPerm's results).       *)
TopicHasPerms ==
  \A f \in Topics : topics[f] # Absent => {f} \X Actions \subseteq perms

(* A stored client's role holds every action of the client on its topic,   *)
(* as long as nothing revokes grants (delete level below 2) and no PUT     *)
(* mr_clients rewrites a row (MR_ClientService.grantClientPerms).          *)
ClientHasGrants ==
  DeleteLevel < 2 /\ ~Runs("putClient") => \A c \in clients : GrantsOf(c) \subseteq grants

(* A client stored as VALID has its topic on an MR cluster, and on that of *)
(* its own location when that is not central (MR_ClientService             *)
(* .addTopicToCluster returns VALID).                                      *)
ClientProvisioned ==
  \A c \in clients : c.status = "VALID" =>
    /\ \E l \in Locs : <<l, c.fqtn>> \in created
    /\ c.loc \in Locs /\ layer[c.loc] = "edge" => <<c.loc, c.fqtn>> \in created

(* Every stored client belongs to a stored topic, or to one that a request *)
(* still adds, as long as no addTopic fails after its first client         *)
(* (TopicService.addTopic, removeTopic).                                   *)
NoOrphanClients ==
  \A c \in clients : topics[c.fqtn] # Absent \/ \E w \in Threads : Adding(w, c.fqtn)

(* Only addTopic makes a topic appear: one that DELETE topics removed      *)
(* stays away until it is added again (TopicService.updateTopic).          *)
OnlyAddCreates ==
  [][\A f \in Topics : topics[f] = Absent /\ topics'[f] # Absent
       => \E w \in Threads : t[w].pc = "putTopic" /\ Adding(w, f)]_vars

(* POST topics answers success only when the topic is provisioned as the    *)
(* answer says: its row, and for each client with a location the row and    *)
(* the grants, or a null in the client's place in the answer, and that only *)
(* if AAF answered one of its grants with an unexpected 2xx (TopicService   *)
(* .addTopic, MR_ClientService.grantClientPerms).                           *)
CreatedIsComplete ==
  [][\A w \in Threads : t[w].rq.op = "postTopic" /\ Answers(w, "success") =>
       /\ topics'[t[w].rq.fqtn] # Absent
       /\ \A s \in Elements(t[w].rq.clients) : s.loc # NoLoc =>
            \/ \E c \in clients' : /\ c.fqtn = t[w].rq.fqtn
                                   /\ <<c.loc, c.role, c.acts>> = <<s.loc, s.role, s.acts>>
                                   /\ GrantsOf(c) \subseteq grants'
            \/ /\ "aaf2xx" \in Faults
               /\ \E c \in t[w].view :
                    IsNull(c) /\ <<c.loc, c.role, c.acts>> = <<s.loc, s.role, s.acts>>]_vars

(* At delete level 2 a client's row is dropped only when none of its        *)
(* grants is left, so that a removal that failed or was cut short by an     *)
(* exit can be asked for again; the exception is a removal of that client   *)
(* that AAF gave an unexpected 2xx (MR_ClientService.removeMr_Client).      *)
RowOutlivesGrants ==
  [][DeleteLevel >= 2 => \A c \in clients :
       \/ c \in clients'
       \/ GrantsOf(c) \cap grants' = {}
       \/ "aaf2xx" \in Faults /\ \E w \in Threads : t[w].pc = "drop" /\ t[w].cur = c]_vars

(* A client that DELETE mr_clients removed with success is not stored      *)
(* (MR_ClientService.removeMr_Client).                                     *)
DeletedClientIsGone ==
  [][\A w \in Threads : t[w].rq.op = "deleteClient" /\ Answers(w, "success")
       => \A c \in clients' : c.id # t[w].rq.id]_vars

(* The bridges a topic wants, location by location of its graph: the       *)
(* chain that its replication case names.                                  *)
Wanted(repl, c, l) ==
  LET Has(cases) == repl \in cases IN
  {b \in {<<l, Central>>, <<Central, Global>>, <<Global, Central>>, <<Central, l>>} :
     \/ b = <<l, Central>> /\ l # c /\ Has({"e2c", "e2cg"})
     \/ b = <<Central, Global>> /\ Has({"c2g", "e2cg"})
     \/ b = <<Global, Central>> /\ Has({"g2c", "g2ce"})
     \/ b = <<Central, l>> /\ l # c /\ Has({"c2e", "g2ce"})}

(* When addTopic stores a topic that has a valid central client, every     *)
(* bridge its replication case names lists the topic (TopicService         *)
(* .checkForBridge).                                                       *)
BridgesMade ==
  \A w \in Threads :
    LET th == t[w] IN
    th.pc = "putTopic" /\ th.rq.op = "postTopic" /\ th.repl # None /\ th.hub # NoLoc =>
      \A l \in GraphOf(th.view, TRUE, layer) : \A b \in Wanted(th.repl, th.hub, l) :
        b \in DOMAIN mirrors /\ th.fqtn \in Elements(mirrors[b])

(* While no update is under way, the agent's whitelist of a bridge is the  *)
(* list of topics stored for it, or what that was before the agent missed  *)
(* messages: it never has a topic, or an order, that the row does not      *)
(* (MirrorMakerService.updateMirrorMaker).                                 *)
AgentInSync ==
  (\A w \in Threads : t[w].pc # "mmPut") =>
    \A b \in DOMAIN agent : /\ b \in DOMAIN mirrors
                            /\ agent[b] = SubSeq(mirrors[b], 1, Len(agent[b]))

(* POST and PUT mr_clusters at a central location answer success only when *)
(* both MirrorMaker roles hold every action on the bridge admin topic, also *)
(* when AAF answers a grant with an unexpected 2xx: the null client then    *)
(* makes Graph throw, since new Topic() has no replication case, and the    *)
(* topic is not stored (TopicService.setBridgeClientPerms, checkForBridge). *)
AdminRolesGranted ==
  [][\A w \in Threads :
       t[w].rq.op \in {"postCluster", "putCluster"} /\ t[w].pc # "clusterLoc"
         /\ Answers(w, "success")
       => {AdminTopic} \X {ProvRole, AgentRole} \X Actions \subseteq grants']_vars

(* The hypothesis of a theorem, not a property of the code: addTopic leaves *)
(* no half of its work in the tables.  It does when it fails or is cut      *)
(* short after its first client (TopicService.addTopic, which returns at    *)
(* the first failure).                                                      *)
AddsWhole ==
  [][\A w \in Threads, f \in Topics : Adding(w, f) /\ ~Adding(w, f)' =>
       topics'[f] # Absent \/ \A c \in clients' : c.fqtn # f]_vars

(* The whitelists as Whitelist sees them: a topic is on the list of a      *)
(* bridge from the step on that sends the last message of the update; the  *)
(* row follows with mirrors.put.                                           *)
Putting == {w \in Threads : t[w].pc = "mmPut"}
ListsToBe ==
  IF Putting = {} THEN mirrors
  ELSE LET th == t[CHOOSE w \in Putting : TRUE] IN Set(mirrors, Head(th.plan), th.mm)

Whitelists == INSTANCE Whitelist WITH list <- ListsToBe, heard <- agent

(* MirrorMakerService implements Whitelist: an update loses or moves no    *)
(* topic of a list, adds one at its end, touches no other bridge, and tells *)
(* the agent the new list or nothing (MirrorMakerService.updateMirrorMaker, *)
(* MirrorMaker.addTopic).                                                   *)
ListsOnlyGrow == Whitelists!Spec

(* What is left of a request: the stages still to come, the rounds of the  *)
(* loop in this stage, the steps of this round and the calls in this step. *)
Stage(th) ==
  CASE th.pc = "idle" -> 0
    [] th.pc \in {"dropTopic", "clusterInvalid"} -> 1
    [] th.pc \in {"revoke", "drop"} \/ (th.pc = "find" /\ th.rq.op = "deleteTopic") -> 2
    [] th.pc \in {"list", "putTopic"} -> 3
    [] th.pc \in {"loc", "plan", "mmCreate", "mmWhitelist", "mmPut"} -> 4
    [] th.pc = "bridge" -> 5
    [] th.pc \in {"view", "reread"} -> 6
    [] \/ th.pc \in {"next", "grant", "centrals", "post"}
       \/ th.pc = "find" /\ th.rq.op # "deleteTopic" -> 7
    [] th.pc \in {"perm", "topic"} -> 8
    [] th.pc \in {"exists", "cluster"} -> 9
    [] th.pc \in {"review", "central", "clusterLoc"} -> 10
    [] th.pc \in {"clusterPut", "clusterRemove", "locPut", "locRemove", "overwrite"} -> 11
    [] th.pc \in {"clusterGet", "locGet", "lookup"} -> 12

Rounds(th) ==
  CASE Stage(th) = 2 -> Cardinality(th.dels)
    [] Stage(th) = 4 -> Cardinality(th.locs)
    [] Stage(th) = 7 -> Len(th.todo)
    [] Stage(th) \notin {2, 4, 7} -> 0

Steps(th) ==
  CASE th.pc \in {"plan", "mmCreate", "mmWhitelist", "mmPut"} -> 1 + Len(th.plan)
    [] th.pc = "grant" -> 3
    [] th.pc = "centrals" -> 2
    [] th.pc \in {"post", "find"} -> 1
    [] OTHER -> 0

Calls(th) ==
  CASE th.pc \in {"perm", "grant", "revoke"} -> Cardinality(th.left)
    [] th.pc = "post" -> Cardinality(th.posts)
    [] th.pc = "plan" -> 3
    [] th.pc = "mmCreate" -> 2
    [] th.pc = "mmWhitelist" -> 1
    [] OTHER -> 0

Remaining(th) == <<Stage(th), Rounds(th), Steps(th), Calls(th)>>
Shorter(m, n) == \E i \in 1..4 : m[i] < n[i] /\ \A j \in 1..(i - 1) : m[j] = n[j]

(* Every step of a request shortens what is left of it, whatever the       *)
(* answers of the other systems and the steps of other requests: no loop   *)
(* over clients, locations, bridges, clusters or calls goes round without  *)
(* getting nearer to its end, although removeTopic returns to an earlier   *)
(* place for each client and checkForBridge for each location              *)
(* (TopicService.removeTopic, addTopic, checkForBridge).                   *)
StepsShorten ==
  [][\A w \in Threads : Serve(w) => Shorter(Remaining(t'[w]), Remaining(t[w]))]_vars

(* Every request is answered, unless the process exits or another server    *)
(* never answers one of its calls.                                          *)
EveryRequestAnswered ==
  \A w \in Threads : []<>(t[w].pc = "idle") \/ <>[]CallsServer(t[w])
=============================================================================
