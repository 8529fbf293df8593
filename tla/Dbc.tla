-------------------------------- MODULE Dbc --------------------------------
(***************************************************************************)
(* State shared by every message-router service of the bus controller: the *)
(* tables of DatabaseClass (PostgreSQL mode: a get returns a copy, a put   *)
(* writes the whole row), what AAF, the MR clusters and the MirrorMaker    *)
(* agent hold, and one record per Jetty thread for the request it serves.  *)
(* A step of a request is the code up to its next access to shared state;  *)
(* reads that follow each other with nothing in between are one step.      *)
(***************************************************************************)
EXTENDS Replication

CONSTANTS Threads,       \* Jetty threads
          Topics,        \* fully qualified topic names
          Locs,          \* dcaeLocation names
          Roles,         \* AAF roles of MR clients
          AdminTopic,    \* Dmaap.bridgeAdminTopic
          ProvRole,      \* property MM.ProvRole
          AgentRole,     \* property MM.AgentRole
          DefaultCentral,\* "aCentralLocation"
          DeleteLevel,   \* property MR.ClientDeleteLevel
          Requests,      \* the REST requests clients send
          Faults,        \* the failures the environment may show: "aaf", "aaf2xx",
                         \* "mrUrl", "mrHttp", "mrConn", "mm", "denied", "kill"
          MaxRequests,   \* bound: requests served
          MaxExits,      \* bound: process exits
          InitLayer,     \* locations registered before the run
          InitClusters   \* clusters registered before the run

Actions  == {"pub", "sub", "view"}
Statuses == {"EMPTY", "NEW", "STAGED", "VALID", "INVALID", "DELETED"}
(* Answer codes: "ok" is any 2xx, "fail" any code with no name of its own.  *)
Codes    == {"none", "ok", "bad", "notFound", "conflict", "fail"}
NoLoc    == ""
Absent   == "absent"
Bridges  == (Locs \cup Hubs) \X (Locs \cup Hubs)

Ops == {"postTopic", "deleteTopic", "postClient", "putClient", "deleteClient",
        "postCluster", "putCluster", "deleteCluster", "createMmaTopic",
        "postLocation", "putLocation", "deleteLocation"}

ClientSpec == [loc : Locs \cup {NoLoc}, role : Roles, acts : SUBSET Actions]
Client     == [id : Nat, fqtn : Topics, loc : Locs \cup {NoLoc}, role : Roles,
               acts : SUBSET Actions, status : Statuses]
Request == [op : Ops, fqtn : Topics, repl : ReplCases, clients : Seq(ClientSpec),
            loc : Locs, layer : {"edge", "central"}, id : Nat, status : Statuses]

ASSUME ConstantsAssumption ==
  /\ AdminTopic \in Topics
  /\ {ProvRole, AgentRole} \subseteq Roles
  /\ DefaultCentral \in Locs
  /\ Locs \cap Hubs = {}
  /\ DeleteLevel \in Nat
  /\ Requests # {}
  /\ Requests \subseteq Request
  /\ \A r \in Requests : r.op \in {"postClient", "putClient"} => r.clients # <<>>
  /\ \A r \in Requests : r.op = "putClient" => r.id # 0
  /\ MaxRequests \in Nat
  /\ MaxExits \in Nat
  /\ InitLayer \in [Locs -> {Absent, "edge", "central"}]
  /\ InitClusters \in [Locs -> {Absent, "VALID"}]

VARIABLES
  layer,     \* dcae_location: dcaeLayer by location, or Absent
  clusters,  \* mr_cluster: status by location, or Absent
  topics,    \* topic: replication case by fqtn, or Absent
  clients,   \* mr_client: the rows
  mirrors,   \* mirror_maker: topics by bridge (its table has no column for the status)
  perms,     \* AAF: permissions <<fqtn, action>>
  grants,    \* AAF: grants <<fqtn, role, action>>
  created,   \* MR: topics created on clusters, <<location, fqtn>>
  agent,     \* MirrorMaker agent: last whitelist received by bridge
  t,         \* the request each thread serves
  nextId,    \* next client id
  served,    \* requests received
  exits      \* process exits

vars == <<layer, clusters, topics, clients, mirrors, perms, grants, created,
          agent, t, nextId, served, exits>>
aafVars == <<perms, grants>>
mrVars  == <<created, agent>>
ctlVars == <<nextId, served, exits>>

(* A null in the client list of a topic: that of a client without a         *)
(* location, and that of a client c; ids of rows start at 1.                *)
Null == [id |-> 0, fqtn |-> AdminTopic, loc |-> NoLoc, role |-> ProvRole,
         acts |-> {}, status |-> "EMPTY"]
NullOf(c) == [c EXCEPT !.id = 0, !.status = "EMPTY"]
IsNull(c) == c.id = 0

Thread == [
  pc    : {"idle", "review", "exists", "perm", "next", "grant", "centrals",
           "post", "reread", "bridge", "loc", "plan", "mmCreate",
           "mmWhitelist", "mmPut", "putTopic", "list", "find", "view", "revoke",
           "drop", "dropTopic", "cluster", "topic", "lookup", "overwrite", "clusterGet",
           "clusterPut", "clusterLoc", "clusterInvalid", "clusterRemove",
           "central", "locGet", "locPut", "locRemove"},
  rq    : Requests,
  err   : Codes,                          \* ApiError.code of the request
  fqtn  : Topics,                         \* the topic worked on
  repl  : ReplCases,                      \* its replication case
  todo  : Seq(ClientSpec),                \* clients still to add
  view  : SUBSET Client,                  \* the topic's client list in memory
  cur   : Client,                         \* the client worked on
  left  : SUBSET Actions,                 \* AAF calls still to make for it
  posts : SUBSET Locs,                    \* clusters still to post the topic to
  locs  : SUBSET Locs,                    \* graph locations still to visit
  hub   : Locs \cup {NoLoc},              \* the graph's central location
  plan  : Seq(Bridges \cup {Npe}),        \* bridges still to make there
  mm    : Seq(Topics),                    \* copy of the mirror_maker row
  wrong : BOOLEAN,                        \* anythingWrong
  dels  : SUBSET Nat,                     \* ids of the clients still to remove
  reply : {"-", "success"} \cup Codes]    \* last answer: success() or error()

Idle == [pc |-> "idle", rq |-> CHOOSE r \in Requests : TRUE, err |-> "none",
         fqtn |-> AdminTopic, repl |-> None, todo |-> <<>>, view |-> {},
         cur |-> Null, left |-> {}, posts |-> {}, locs |-> {}, hub |-> NoLoc,
         plan |-> <<>>, mm |-> <<>>, wrong |-> FALSE, dels |-> {}, reply |-> "-"]

TypeOK ==
  /\ layer \in [Locs -> {Absent, "edge", "central"}]
  /\ clusters \in [Locs -> Statuses \cup {Absent}]
  /\ topics \in [Topics -> ReplCases \cup {Absent}]
  /\ clients \subseteq Client
  /\ DOMAIN mirrors \subseteq Bridges /\ mirrors \in [DOMAIN mirrors -> Seq(Topics)]
  /\ perms \subseteq Topics \X Actions
  /\ grants \subseteq Topics \X Roles \X Actions
  /\ created \subseteq Locs \X Topics
  /\ DOMAIN agent \subseteq Bridges /\ agent \in [DOMAIN agent -> Seq(Topics)]
  /\ t \in [Threads -> Thread]
  /\ nextId \in Nat \ {0}
  /\ served \in 0..MaxRequests
  /\ exits \in 0..MaxExits

(* Clusters may be registered before their locations are, in which case     *)
(* addMr_Cluster provisions nothing else: any InitLayer goes with any       *)
(* InitClusters.                                                            *)
Init ==
  /\ layer = InitLayer
  /\ clusters = InitClusters
  /\ topics = [f \in Topics |-> Absent]
  /\ clients = {}
  /\ mirrors = <<>> /\ agent = <<>>
  /\ perms = {} /\ grants = {} /\ created = {}
  /\ t = [w \in Threads |-> Idle]
  /\ nextId = 1 /\ served = 0 /\ exits = 0

-----------------------------------------------------------------------------
(* Queries.                                                                *)
ClientsOf(f)  == {c \in clients : c.fqtn = f}                \* getAllMrClients
ClusterLocs   == {l \in Locs : clusters[l] # Absent}
Centrals      == {l \in ClusterLocs : layer[l] = "central"}  \* getCentralClusters
CentralsNpe   == \E l \in ClusterLocs : layer[l] = Absent    \* its null dereference
Set(f, x, v)  == [y \in DOMAIN f \cup {x} |-> IF y = x THEN v ELSE f[y]]
Put(c)        == {d \in clients : d.id # c.id} \cup {c}      \* mr_clients.put

(* A thread takes a step: its record becomes th.                           *)
Go(w, th) == t' = [t EXCEPT ![w] = th]
Reply(code) == [Idle EXCEPT !.reply = code]
Success == Reply("success")
ServerError == Reply("fail")   \* an exception leaves the resource: Jersey's 500

-----------------------------------------------------------------------------
(* Returns: what the caller of a service method does with its result.      *)

(* The answer of POST and PUT mr_clusters: error() is sent with code 200   *)
(* when the cluster is not VALID.                                          *)
ClusterAnswer(status) == IF status = "VALID" THEN Success ELSE Reply("ok")
ClusterStatus(th) == IF th.rq.op = "postCluster" THEN "VALID" ELSE th.rq.status

(* Mutant: setBridgeClientPerms forgets to test the error code.            *)
AddTopicReturnsUntested(th, stored) ==
  CASE th.rq.op = "postTopic" -> IF stored THEN Success ELSE Reply(th.err)
    [] th.rq.op = "createMmaTopic" ->
         IF th.err \in {"ok", "conflict"} THEN Success ELSE Reply("fail")
    [] OTHER -> ClusterAnswer(ClusterStatus(th))

(* addTopic returns the topic (stored) or null; setBridgeClientPerms and   *)
(* createMmaTopic look at the error code only.                             *)
AddTopicReturns(th, stored) ==
  CASE th.rq.op = "postTopic" -> IF stored THEN Success ELSE Reply(th.err)
    [] th.rq.op = "createMmaTopic" ->
         IF th.err \in {"ok", "conflict"} THEN Success ELSE Reply("fail")
    [] OTHER -> IF th.err \in {"ok", "conflict"}
                THEN ClusterAnswer(ClusterStatus(th))
                ELSE [th EXCEPT !.pc = "clusterInvalid"]

(* Mutant: addTopic goes on with the next client after a null.             *)
AddClientFailsIgnored(th) ==
  IF th.rq.op = "postClient" THEN Reply(th.err) ELSE [th EXCEPT !.pc = "next"]

(* addMr_Client returns null after an error.                               *)
AddClientFails(th) ==
  IF th.rq.op = "postClient" THEN Reply(th.err) ELSE AddTopicReturns(th, FALSE)

(* addMr_Client returns null with a 2xx in the error code: addTopic puts    *)
(* the null on the topic's list, POST mr_clients goes on to checkForBridge. *)
AddClientNull(th) ==
  LET more == [th EXCEPT !.err = "ok", !.left = {}] IN
  IF th.rq.op = "postClient" THEN [more EXCEPT !.pc = "reread"]
  ELSE [more EXCEPT !.view = @ \cup {NullOf(th.cur)}, !.pc = "next"]

(* checkForBridge returns the topic or null.  POST mr_clients ignores the  *)
(* result; updateTopic returns null to removeMr_Client, which goes on.     *)
BridgeReturns(th, valid) ==
  CASE th.rq.op = "postClient" -> Success
    [] th.rq.op = "deleteClient" ->
         [th EXCEPT !.pc = IF valid THEN "putTopic" ELSE "revoke"]
    [] OTHER -> IF valid THEN [th EXCEPT !.pc = "putTopic"]
                ELSE AddTopicReturns(th, FALSE)
=============================================================================
