# Verification of the DMaaP Bus Controller

The bus controller (`src/src/main/java/org/openecomp/dmaapbc`) is a REST
service that provisions a data bus: message-router (MR) topics, clients and
clusters, MirrorMaker bridges between clusters, and data-router (DR) feeds,
publishers, subscribers and nodes.  It keeps rows in PostgreSQL and, for every
request, calls other systems: AAF (permissions and grants), the MR clusters,
the MirrorMaker agent, the DR provisioning server.  Jetty serves requests on
several threads; there is no lock and no transaction around the steps of a
request, a failed request undoes nothing, and `AafService` ends the process
when AAF refuses its credentials.  The modules here ask what is still true of
the rows and of the other systems under those conditions.

Paths below are relative to `src/src/main/java/org/openecomp/dmaapbc`.

## Inventory

| component | state | operations | interacts with |
|---|---|---|---|
| topics (`resources/TopicResource`, `service/TopicService`) | table `topic` | POST, DELETE; `addTopic`, `updateTopic`, `removeTopic`, `setBridgeClientPerms`, `reviewTopic`, `checkForBridge` | AAF, MR clients, MirrorMakers; called by clusters, `createMmaTopic` and MR clients |
| MR clients (`MR_ClientResource`, `MR_ClientService`) | table `mr_client` | POST, PUT, DELETE; `addMr_Client`, `removeMr_Client`, `grantClientPerms`, `revokeClientPerms`, `addTopicToCluster` | AAF, MR clusters, topics |
| MirrorMakers (`MirrorMakerService`, `MirrorMaker`, `Graph`, `ReplicationType`) | table `mirror_maker`; the agent's whitelists | `updateMirrorMaker` (create message, whitelist message, put) | the MirrorMaker agent through the bridge admin topic |
| MR clusters (`MR_ClusterResource`, `MR_ClusterService`) | table `mr_cluster` | POST, PUT, DELETE | `setBridgeClientPerms`, locations |
| locations (`DcaeLocationResource`, `DcaeLocationService`) | table `dcae_location` | POST, PUT, DELETE, `getCentralLocation` | read by everything above |
| dmaap instance (`DmaapResource`, `DmaapService`, `DBSingleton`) | one row `dmaap`, one object of the process that every read fills | GET, POST, PUT: `setEnvMap`, `setTopicMgtPerms`, `createMmaTopic` | AAF, topics, locations |
| AAF client (`aaf/*`) | permissions and grants (in AAF) | `addPerm`, `addGrant`, `delGrant`; 401/403 is `System.exit(1)` | AAF |
| MR connections (`client/MrProvConnection`, `client/MrTopicConnection`) | topics on clusters, messages | `doPostTopic`, `doPostMessage` | MR clusters |
| DR feeds, publishers, subscribers (`FeedService`, `DR_PubService`, `DR_SubService`) | tables `feed`, `dr_pub`, `dr_sub` | POST, PUT, DELETE of each | DR provisioning server, nodes, locations |
| DR nodes (`DR_NodeService`) | table `dr_node`; lists NODES and STATIC_ROUTING_NODES on the server | POST, PUT, DELETE | DR provisioning server |
| tables and pool (`DBMap`, `ConnWrapper`, `ConnectionFactory`) | the tables, an array of idle connections | `get`, `put`, `remove`, each tried a second time on a fresh connection | PostgreSQL |
| schema (`LoadSchema`, `schema_*.sql`, `TableHandler`, `DatabaseClass`) | the schema version, the tables' columns, initial settings | `upgrade`, opening the tables, `dmaap.init`, `getNextClientId` | PostgreSQL; before any request |
| authorization (`authentication/*`, `AuthorizationFilter`, `ApiService`) | map of API permissions | `ApiPerms.setEnvMap`, check per request | dmaap row |
| bootstrap, logging, decryption, bridge queries, web console | none that provisioning reads | | |

What is hard in this code: two requests in the middle of the same topic, client
or bridge; calls that fail after taking effect; a process exit between two
calls; error codes that are shared by a chain of calls and left over from an
earlier one; rows written back long after they were read; loops over the
locations of a topic whose `continue` and `break` decide which bridges exist.
`PROJECT.json` lists these hazards at their lines, with the property that
covers each.

What makes each component correct:

- topics: a stored topic has its permissions; success means a complete topic;
  only POST makes a topic appear.
- MR clients: a stored client has its grants; a client stored VALID has its
  topic on a cluster; every client has a topic; a row is not forgotten before
  its grants are revoked; a deleted client is gone.
- MirrorMakers: the bridges of a replication case are made; the agent's
  whitelist is the stored list.
- clusters: success at a central location means the MirrorMaker roles are
  granted.
- feeds: what is stored exists on the DR server; rows and server agree on a
  feed's state and publishers; a feed keeps a publisher; PUT feeds leaves
  publishers and subscribers alone.
- publishers: a publisher stored VALID has its ingress route.
- nodes: a stored node is in the lists of the server, each name once.
- tables: `DBMap` is an atomic map; a connection has one user, none is lost,
  and one failure of the database is not seen by any caller.
- schema and settings: the version tells what the tables are, from version
  1 on an upgrade and a start lose no rows, and the server comes to serve.
- dmaap instance: a name whose row is VALID is provisioned; API permissions are
  made for the name of the request.
- everything: each request is answered, if the servers it calls answer.

## Modules

| module | models | lines it stands for |
|---|---|---|
| `Replication` | the pure part: the locations a client list touches, the replication case of a topic without one, the bridges of a case at a location | `util/Graph`, `TopicService.reviewTopic`, the two `switch` statements of `checkForBridge` |
| `Dbc` | constants, tables, AAF, clusters and agent, the record of a request under way, its initial state; what a caller does with the result of a service method | `model/*`, `database/*`, returns of `addTopic`, `addMr_Client`, `checkForBridge` |
| `TopicService` | `addTopic`, `updateTopic`, `removeTopic` | `TopicService`, `TopicResource` |
| `MR_ClientService` | `addMr_Client`, `updateMr_Client`, `removeMr_Client` | `MR_ClientService`, `MR_ClientResource` |
| `MirrorMakerService` | `checkForBridge` and `updateMirrorMaker` | `TopicService` 234-376, `MirrorMakerService` |
| `MR_ClusterService` | clusters, locations, `createMmaTopic` | `MR_ClusterService`, `DcaeLocationService`, `DmaapService` 199-251 |
| `Whitelist` | what the bridges' lists of topics promise: each only grows, by one topic at its end, and the agent hears the whole list or nothing | (abstract) |
| `MrProvisioning` | the composition: requests arrive, threads step, the process exits; all properties | |
| `MCMrProvisioning` | instances for TLC | |
| `MrProvisioningProofs` | type correctness | |
| `MrAafProofs` | what is stored is backed by AAF | |
| `MrRequestProofs` | what requests achieve and may not do: topics, clients, bridges, clusters; `MirrorMakerService` implements `Whitelist` | |
| `DrDbc` | data-router constants, tables, the DR server, the static connections, the record of a request under way, its initial state, how a call to the server ends | `model/*`, `database/*`, `DrProvConnection` |
| `DR_NodeService` | nodes and the two lists of the server | `DR_NodeService`, `DR_NodeResource` |
| `DR_PubService` | saving, changing and removing publishers | `DR_PubService`, `DR_PubResource`, `FeedService.savePubs` |
| `DR_SubService` | saving, changing and removing subscribers | `DR_SubService`, `DR_SubResource`, `FeedService.saveSubs` |
| `NodeRegistry` | what the node lists promise: they change like sets, by one node, entered before it is stored and withdrawn while it is | (abstract) |
| `FeedService` | `addFeed`, `getFeed`, `updateFeed`, `removeFeed` | `FeedService`, `FeedResource`, `DR_PubResource.addDr_Pub`, `deleteDr_Pub` |
| `DrProvisioning` | the composition and all properties of the data-router side | |
| `MCDrProvisioning` | instances for TLC | |
| `DrTypeProofs` | type correctness of `DrProvisioning`; where each step goes on | |
| `DrNodeProofs` | no node is twice in a list of the server; a stored node is in the lists; `DR_NodeService` implements `NodeRegistry` | |
| `DrServerProofs` | what is stored is on the DR server; a feed's rows and the server agree | |
| `AtomicMap` | what `DBMap` promises: calls that take effect at one instant, may be tried twice and may fail | (abstract) |
| `ConnectionFactory` | the pool: an array, how many slots are used, the sessions behind the connections | `ConnectionFactory` |
| `DBMap` | calls from several threads: the two attempts of `ConnWrapper.protect`, statements and their failures; its properties, `AtomicMap` among them | `DBMap`, `ConnWrapper` |
| `MCDBMap` | symmetry for TLC | |
| `DBMapProofs` | the pool is safe, one failure is hidden, and `DBMap` implements `AtomicMap` | |
| `LoadSchema` | the upgrade: version, scripts, statements and their failures; opening the tables | `LoadSchema`, `schema_0.sql` to `schema_7.sql`, `DatabaseClass` 190-213 |
| `DmaapService` | requests for the dmaap resource | `DmaapService`, `DmaapResource`, `DBSingleton`, `ApiPerms` |
| `DmaapInstance` | the composition: a process starts, upgrades, sets the initial data, serves, ends anywhere, and starts again | `DatabaseClass` 184-266, `Main` |
| `MCDmaapInstance` | instances for TLC | |
| `DmaapProofs` | a VALID name is provisioned, no start loses rows, the version tells the tables | |

The two sides share the database and the Jetty threads but no row that
provisioning writes: `dcae_location` is read by the data-router side only (to
tell edges), so that `MrProvisioning` and `DrProvisioning` are two systems.
Both take a `get` or `put` of a table for one atomic step that does not fail;
`DBMap` is the model of what is below such a step, and `AtomicSpec` says in
which sense it is one.  `DmaapInstance` is what happens before and around the
two: the same process with the rows that provisioning does not write.

### State and steps: message router

`t[w]` is the request thread `w` serves: `pc` names the place in the code, the
other fields are the local variables still needed (`err` is the shared
`ApiError`, `todo` the clients still to add, `view` the topic's client list in
memory, `cur` the client worked on, `left` the AAF calls still to make,
`posts` the clusters still to call, `locs`, `hub` and `plan` the loop of
`checkForBridge`, `mm` the copy of the mirror_maker row, `dels` the clients
still to remove, `reply` the last answer).  One action is the code up to its
next access to shared state.  Every table access, AAF call, cluster call and
message is a step of its own and interleaves with every other thread, except
reads that follow each other with nothing in between, which are one step.

A method that several callers use is written once; the `...Returns` operators
of `Dbc` (and `RemoveClientReturns`) are the return address: they say what the
caller does with the result and with the error code.

- `perms`, `grants`: what AAF holds.  201 and 409 are success of `addPerm` and
  `addGrant`, 200 and 404 of `delGrant`.  After any other code ("aaf") the call
  may or may not have taken effect.  `grantClientPerms` and `revokeClientPerms`
  copy such a code into the error code, of which their callers ask only whether
  it is a 2xx, so that an unexpected 2xx ("aaf2xx") is a case of its own:
  `addMr_Client` returns a null that `addTopic` puts on the topic's list
  (`AddClientNull`; a null in `view` is a record with id 0) and that makes `Graph`
  throw when the topic has a replication case; `removeMr_Client` goes on to drop
  the row ("drop").
- `created`: topics that exist on clusters.  A cluster may answer 2xx or 409,
  another code ("mrHttp"), or not at all ("mrConn"): `doPostTopic` then leaves
  the error code as it was.  A cluster whose URL opens no HTTPS connection
  ("mrUrl") is not called, and the client becomes INVALID.
- `agent`: the last whitelist the MirrorMaker agent received for a bridge.
- `ExitProcess`: a 401/403 ("denied") or a kill ("kill") ends every request
  where it is; the tables and the other systems stay.

### State and steps: data router

`t[w]` has the same role as above.  `feeds`, `pubs`, `subs` and `nodes` are the
tables; `drFeeds` and `drUsers` (the feed and the users that may publish to
it), `drSubs`, `ingress`, `egress`, `drNodes` and `drStatic` are what the DR
provisioning server holds.  Every table access and every call to the server is
a step, and so are the set-up and the use of a static connection:

- `pubProv` and `subProv` are the static fields `DR_PubService.prov` and
  `DR_SubService.prov`.  They say what the connection object is set up for and
  whether it can be used (`ready`).  Every `new DR_PubService()` replaces
  `pubProv`: every feed resource method makes one (through `FeedService`), every
  publisher resource method and POST and PUT of subscribers, reads included.
  A connection serves one call: used again, it sends nothing.
- `Outcomes` is how a call ends: done; refused with a code other than 2xx
  ("drHttp"); or with an answer that never arrives ("drLost"), the effect made
  or not.  What a lost answer leaves as the error code differs by method and is
  modelled where it is read.
- The lists NODES and STATIC_ROUTING_NODES are names separated by bars.  Their
  order is never used, so a list is a function that says how often a name is in
  it; `""` and `"null"` are names because `split` and string concatenation make
  them.
- `ExitProcess` ends every request and forgets the static fields.

### State and steps: tables and pool

`calls[w]` is the call thread `w` has under way: `pc` is "pop" or "open" in
`ConnectionFactory.get` (the monitor is held while the array is touched, the
connection is opened outside of it), "run" in the statement, "release" after
it; `fresh` tells the second attempt.  `opened` are the connections this
process has, `live` those whose session the database still knows: sessions end
at any time ("drop").  A statement may be refused ("statement"), be made
without an answer ("lost"), or be given up by a field handler with another
exception ("field"), which is not tried again.  Closing a result set after its
connection was released does nothing, and is left out.  `AtomicMap` sees of a
call whether it is in its first or second try or done, and nothing of pool and
connections.

### State and steps: the instance

`boot` is where the process is before it serves: down, reading the version, at
statement `i` of script `n`, opening the tables, at the initial settings, or
serving.  A statement is a step, since the connection commits each one.
`shape[t]` is the last script that made or altered a table; a statement fails
when it does not apply to the tables as they are.  Four of the ten tables stand
for all (the head of `LoadSchema` says which), since scripts treat the others
like one of them.  `rq` is the request for the dmaap resource under way, a step
for each access to the row and each AAF call; `obj` is the object
`DBSingleton.get` fills and returns to all.  `Down` ends the process at any
step: by a 401 or 403, because a table does not open, or from outside
(`Crash`); it then starts again on the same database.

### Abstractions

- PostgreSQL mode: `get` returns a copy and `put` writes the row.  In memory
  mode the maps hand out shared objects; that is not modelled.
- The set of actions of a client is a set, so that its AAF calls come in any
  order; the code's order is the order of the array.
- Client ids are fresh (`nextId`); `getNextClientId` uses the clock.
- Every cluster has an FQDN (the guard at `MR_ClientResource` 117-124 does not
  fire), `MR.CentralCname` is configured, the global MR has a name.
- Location names are different from the names of hubs (`central`, `global`).
- The table `mirror_maker` has no column for a status since script 4, so that a
  row is its list of topics.
- `createMmaTopic` is an operation of its own in `MrProvisioning`; in
  `DmaapService` it is one call that succeeds or fails (`MmaTopic`).
- `DmaapInstance` serves one request at a time.  The maps of `ApiPerms` are one
  permission for one role.  A call AAF refuses has no effect there: an effect
  without an answer would only add to `mgtGrants`.  The actions of the topic
  manager are a sequence given by a constant.
- The two alters of script 3, both on `mirror_maker` and both marked `@`, are
  one statement.
- A body's version is "0", "1" (any other text) or absent; its other fields
  are the name and the status.
- `DBMap.list` and the methods of `Map` that throw are left out.
- A feed's id stands for its name and version; the DR server gives a feed one
  id, refuses a name and version it has with 400, and answers with the feed and
  the publishers it was sent (`savePubs` compares their numbers).
- The publishers and subscribers of a request are sets, since nothing depends
  on their order except `deleteDr_Pub`, which removes from the list it iterates
  over: whether that throws depends on the order of a hash set, a choice in
  `WithoutPub`.  Ids made from random characters are fresh.
- `getFeed` reads the feed, its publishers and its subscribers in one step.
- `dcae_location` is constant on the data-router side.
- A handler's checks of required fields, formatting and logging are left out:
  requests carry their required fields.

## Runs

Runs whose names begin with `dr`, and `put_feed_pubs`, use `MCDrProvisioning`;
`pool` uses `MCDBMap`, `instance` and `settings_reset` `MCDmaapInstance`, the
others `MCMrProvisioning`.  Locations are `E1`, `E2` (edge), `C1` (central),
`D1` (the "aCentralLocation" that `getCentralLocation` returns when no location
is central) and `X1` (not registered).

| run | instance | shows |
|---|---|---|
| `concurrent` | 2 threads, 3 requests, 1 exit, level 1; AAF and clusters refuse, AAF answers an unexpected 2xx, clusters have no HTTPS URL, 401/403, kill | `TypeOK`, `TopicHasPerms`, `ClientHasGrants`, `ClientProvisioned` |
| `postings` | 2 threads, 3 requests, no deletions, 1 exit; AAF and clusters refuse, AAF answers an unexpected 2xx, clusters do not answer, kill | `CreatedIsComplete` |
| `lifecycle` | 1 thread, every sequence of 3 of 19 requests; agent messages fail | `NoOrphanClients`, `BridgesMade`, `AgentInSync`, `OnlyAddCreates`, `DeletedClientIsGone`, `ListsOnlyGrow` (refinement) |
| `clusters` | 2 threads, 2 requests of 14, every operation but `createMmaTopic`; AAF refuses or answers an unexpected 2xx; fairness | `AdminRolesGranted`, `StepsShorten`, `EveryRequestAnswered` |
| `revoke` | 1 thread, 4 requests of 7, level 2, 1 exit; AAF refuses or answers an unexpected 2xx, 401/403, kill | `RowOutlivesGrants` |
| `drSequential` | 1 thread, every sequence of 4 of 17 requests; the server refuses calls; fairness | `FeedInSync`, `FeedHasPub`, `NodeIsRouted`, `ValidPubIsRouted`, `PutFeedKeepsClients`, `NodesInOrder` (refinement), `EveryRequestAnswered` |
| `pool` | 3 threads, 4 calls on one row, a pool of 2, 5 connections; 2 failures of any kind | `TypeOK`, `OneUser`, `NoLeak`, `OneFailureHidden`, `AtomicSpec` (refinement) |
| `instance` | any database an older release left (no tables, an empty version table, version 0, 1, 2, 5, 7), 2 requests of 6 kinds, 2 names, 2 failures or exits, 1 crash; fairness | `TypeOK`, `SchemaOfVersion`, `ValidIsProvisioned`, `RowsKept`, `EnvMapForNewName`, `EventuallyServing` |
| `drConcurrent` | 2 threads, 3 requests of 18 kinds, 1 exit; the server refuses calls, answers are lost | `DrTypeOK`, `StoredIsOnServer`, `NodesUnique` |

Why these bounds: each property relates a request to one other request on the
same topic, client, bridge or cluster, plus one that sets the scene, so that two
threads and three requests contain each interleaving of two, and the third
request comes before, between or after them.  One exit is enough to cut
any request at any step; the state a second exit would find is one that a
single exit also leaves.  Topics have up to three clients, of which one may
have no location, so that the loops of `addTopic` run zero, one and several
times.  On the data-router side one feed is enough for properties that relate
a feed to its own rows; four requests in a row make a feed, add a publisher and
a subscriber, and remove or update one of them.

The properties of `drSequential` are checked for one thread and without lost
answers because with either they do not hold, and the code has no means to make
them hold: two threads lose an update of NODES, take the last two publishers of
a feed at once, or use each other's connection; an answer of the server that
is lost leaves the server changed and the rows not, or overwrites
STATIC_ROUTING_NODES with `null|node` (`GetStatic`).  `put_feed_pubs` shows the
one of these that contradicts a comment of the code.

In `pool` there are one thread more than slots, so that a connection has to be
closed, and as many connections as can be open (slots and threads); which
unused one a new connection is makes no difference, so `NewConn` chooses it.
One row is enough since a statement touches one.  Two failures are needed for a
call to fail (`OneFailureHidden` says that one is not enough).  In `instance`
two failures and a crash cut up to three starts short, and two requests are a
PUT and its repetition, or two names.

Three runs show where the code does not do what a comment in it says:

| run | property | in short |
|---|---|---|
| `lost_whitelist` | `AgentInSync` | two topics bridged at the same time: one disappears from the whitelist or from the row |
| `put_feed_pubs` | `PutFeedKeepsClients` | PUT feeds sends the publishers it read: one that was added meanwhile loses its access on the server |
| `settings_reset` | `ProvisionedKept` | settings put with version "0", which is what GET answers on a fresh install, are replaced by the properties file's at the next start |

Three more the model shows when an instance is widened; the runs leave them
out because one request is enough to meet them:

- With clusters that do not answer (`"mrConn"` in `Faults` of `concurrent`)
  `ClientProvisioned` fails: `addTopicToCluster` (`MR_ClientService` 176) tests
  the error code of an earlier step, and POST mr_clients answers success for a
  client stored VALID whose topic is on no cluster.
- A topic of the case "g2ce" with a central client gets no bridge to its edges:
  the `continue` at `TopicService` 291 ends the iteration, though the comment at
  338 announces the second bridge.  `ReqLifecycle` has "g2ce" without a central
  client only.
- `createMmaTopic` (`DmaapService` 199) reports success although the topic is
  never stored: its replication case is not specified, `checkForBridge` returns
  null, and the code looked at is that of the last client.

`lifecycle` has one thread because with two DELETE mr_clients stores the topic
it read even if the topic was deleted meanwhile, and `AgentInSync` fails;
`NoOrphanClients` also needs that no `addTopic` fails after its
first client, which leaves that client's row behind: each request of this run
gets past its bridges once the first client is added.  `clusters` uses the instance
in which the location of a cluster may be removed under a request: the null
that `getCentralClusters` then dereferences ends the request with a 500.

Fairness: the operating system runs a thread that can run, and JDBC calls are
assumed to return.  Nothing more is: no connection of the bus controller to AAF,
to a cluster, to the MirrorMaker agent or to the DR server has a connect or a
read time-out, nor do the JVM's flags set one, so that a server which accepts a
call and never answers it holds the thread for ever.  `FairSpec` is therefore
weak fairness of each thread's steps except those that wait for another server
(`CallsServer`), and `EveryRequestAnswered` says that each thread comes to be
idle again and again or waits for one server from some time on: a request is
answered if the servers it calls answer.  Whether a new request arrives, or the
process exits, is not subject to fairness.  In `DmaapInstance` it is weak
fairness of the start (`Boot`: the process runs, and whoever operates it starts
it again when it ended), except its two calls of AAF (`WaitsForAaf`);
`EventuallyServing` has the same exception.  Failures, exits and crashes are
bounded.  `EventuallyServing` needs both the order of the scripts' statements
and the marks `@`: without the drops of script 1 (mutant `MakeTablesOnce`) one
failure inside it keeps the server down for good.

What the instances show of answers that the code does not expect:

- After an unexpected 2xx of AAF to a grant, POST topics answers success with a
  null where the client should be, and POST mr_clients with no client stored.
  `CreatedIsComplete` allows the null in this case only, and `ClientHasGrants`
  holds since no row is put.  `AdminRolesGranted` needs no exception: the bridge
  admin topic is a `new Topic()`, whose replication case is not specified and
  not null, so that `checkForBridge` makes a `Graph` of the list, which throws
  on the null (`Graph` 55); the request ends with a 500 and the topic is not
  stored, so that a later PUT meets no conflict.
- After an unexpected 2xx of AAF to a revocation, `removeMr_Client` drops the
  row with grants left (`MR_ClientService` 270 asks for a 2xx only).
  `RowOutlivesGrants` names this as its exception.
- An upgrade that fails is logged and the server serves if every table is there.
  When only the last statement of script 1 fails, the version stays 0, and the
  next start's script 1 drops what the server has stored.  `RowsKept` begins at
  version 1 for this reason.

Deadlock is checked in every run; `Finished` is the stutter once the bound
(`MaxRequests`, `MaxCalls`) is used up.  The bounds in guards are
`MaxRequests`, `MaxExits`, `MaxCalls`, `MaxFailures` and `MaxCrashes`.

## Proofs

Every invariant, action property and refinement that a passing run checks is
proved too.  A theorem holds for every value
of the constants that satisfies the assumption of its component and the
hypotheses the theorem states.  The hypotheses say where the code keeps the
property and where it does not; the run that checks the property satisfies
them, so that none is empty:

| hypothesis | says | because otherwise |
|---|---|---|
| `OneThread` | one thread serves requests | two threads lose or overwrite each other's change: `lost_whitelist`, `put_feed_pubs`, and the cases listed under Runs |
| `AnswersArrive` | no answer of the DR server is lost | the server has changed, and the code takes the call for a failure |
| `MaxExits = 0` | the process is not ended between two steps of a request | nothing repairs rows and server after a restart |
| `ListedBefore` | the nodes stored at the start are listed, at registered locations | |
| `RowsAreSaved` | no PUT dr_pubs | it puts the row of the body, with a user and feed of its own, and does not tell the server |
| `AddsWhole` | no `addTopic` ends between its first client and its topic | `addTopic` returns at the first failure and leaves what it has put |
| `~Runs("putClient")` | no PUT mr_clients | it puts the row of the body, whatever topic that names |
| `DeleteLevel >= 1`, `DeleteLevel < 2` | whether DELETE removes rows, and grants | the deployment chooses; below 1 rows stay, at 2 grants go that other clients of the role rely on |
| `FreshIds` | ids of clients are given by the service | PUT mr_clients replaces any row |
| `ClustersAnswer` | clusters answer, be it with an error; no PUT mr_clients stores a status | an answer that does not come is taken for the last one that did (see Runs) |
| `PlacesStay` | no cluster is deleted, no location changed | a client's location may become an edge after it was placed |
| `NotKilled` | the process is not killed from outside | between the message to the agent and the put of the row |
| `NothingRemoved` | no DELETE of topics or clients | what POST topics added may be gone when it answers |
| `AdminReserved` | no POST topics under the bridge admin topic's name | it would be stored with the clients of the request instead |
| `NoEdgesFromGlobal` | a "g2ce" topic has clients of one location | the `continue` at `TopicService` 291 (see Runs) |
| `FiniteSystem` | there are finitely many locations | the loops over locations and central clusters would not end |
| `NoBodyIsValid` | no body for dmaap has the status VALID | the code stores the body's status before it provisions |

### Message router

`ConstantsAssumption` says that the admin topic, the MirrorMaker roles and the
default location are among the constants, locations are not hubs, requests
are well-formed, and a POST or PUT of a client carries one.

- `TypeCorrect` (`MrProvisioningProofs`): `Spec => []TypeOK`.  `TypeOK` is not
  inductive: `Head(th.todo)` has a type only when there is a client to add,
  `DOMAIN` of a plan must hold bridges, and so on.  `TypeInv` adds `ThreadOK`,
  what each place in the code knows of its local variables (for example that a
  thread working on a client request has one, that the client worked on in
  "mmPut" has a bridge to write).  One lemma per component's next-state
  relation.
- `TopicPerms` (`MrAafProofs`): `Spec => []TopicHasPerms`.  The inductive
  invariant `PermsInv` adds, for a thread in the middle of `addTopic`, that the
  permissions of its topic exist except for those still to be made (`left`),
  at every later place all of them, including the calls that come back from
  the bridges; and for `updateTopic` that the topic it read had them, which is
  why no deletion of a topic matters: permissions are never taken back.
- `ClientGrants` (`MrAafProofs`): `Spec => []ClientHasGrants`.  Under the
  hypothesis of the property (delete level below 2, no PUT of clients) grants
  only grow; `GrantsInv` says that the grants of the client worked on exist
  except for those in `left`.

`MrRequestProofs` holds the theorems about whole requests.  They share `OpInv`,
which ties each step to the operations that reach it (`checkForBridge`, for
example, is reached by `addTopic` and by `updateTopic`), and step lemmas that
say of a thread's record what a step keeps, so that each theorem below speaks
only of the fields it needs.

- `DeletedIsGone` (`DeleteLevel >= 1`; any number of threads): `DelInv` says
  that a DELETE mr_clients works on the client it was asked for at every step,
  through `updateTopic` and the bridges, so that the row it removes is that one.
- `OnlyAddTopicCreates` (`OneThread`): `UpdateInv`: the topic `updateTopic`
  works on is stored.
- `RowsOutliveGrants` (`OneThread`, `FreshIds`): `IdsInv` (ids of rows and of
  clients under way are different and below `nextId`), and `RemoveInv`: the
  client in memory is the stored row, and the grants no longer in `left` are
  not held.  With that, the row goes when `left` is empty or in "drop", which is
  reached by an unexpected 2xx only.
- `ValidMeansProvisioned` (`ClustersAnswer`, `PlacesStay`; any number of
  threads): `PostInv`: the topic of a client that is being placed is on a
  cluster or still to be posted to one (`posts`), and so it is for the cluster
  of its own edge location.
- `AgentFollowsRow` (`OneThread`, `NotKilled`): `SyncInv`: the list about to be
  sent begins with what the agent has, and what it has is a beginning of the
  row, except in "mmPut" for the row about to be put.
- `SuccessIsComplete` (`FreshIds`, `NothingRemoved`; any number of threads):
  `CompleteInv`: each client that was asked for is still in `todo`, is the one
  being added, is stored, or is a null on the list, which only an unexpected 2xx
  puts there; `GrantsInv` gives the grants.
- `ClusterRolesGranted` (`AdminReserved`, `DeleteLevel < 2`; any number of
  threads): `AdminInv`: a request that adds the admin topic works on that topic
  with both roles still to be given or given, and the topic is stored only when
  both are: a role that is not is a null on the topic's list, and with a
  replication case (`new Topic()` has one) no such topic gets past `checkForBridge`.
  That is why success by conflict is right: whoever stored the topic had granted
  everything.
- `AllBridgesMade` (`OneThread`, `NoEdgesFromGlobal`): `MadeInv`: for each
  location the loop of `checkForBridge` has left behind, every bridge of the
  case has the topic in its row or is still in the plan, or the check has
  failed; and the clients in memory are at the locations of the request.

- `OrphansComeFromAddTopic` (`OneThread`, no PUT of clients,
  `DeleteLevel >= 1`): `Spec /\ AddsWhole => []NoOrphanClients`.  `AddsWhole`
  is a hypothesis on behaviours, which the code does not guarantee and no run
  checks: it breaks whenever an `addTopic` fails after its first client.  What
  the theorem says is that nothing else makes an orphan.  `OrphanInv` says that a client without a topic is one of an
  `addTopic` under way, that the topic of a POST mr_clients is stored, and of a
  `removeTopic` that every client of its topic is still to be removed (`dels`),
  and none is left where the topic is dropped.
- `BridgesImplementWhitelist` (`OneThread`, `NotKilled`):
  `Spec => ListsOnlyGrow`.  The abstract list of a bridge changes where the
  last message of the update is sent; the refinement mapping (`ListsToBe`) takes
  the row about to be put for the row.  `GrowInv` says that the list which a
  thread is about to send or to put is the stored row with its topic appended.
- `RequestsComeToAnEnd` (`FiniteSystem`; any number of threads, requests,
  clients, failures and exits): `Spec => StepsShorten`, and that the order it
  names has no infinite descent (`Shortening` is well founded on four natural
  numbers, by the library's theorem on lexicographic products, and
  `Remaining(t[w])` is such a list in every reachable state).  `Remaining` counts,
  from the outer loop to the inner, the stages of the request, the rounds of the
  loop it is in (clients to add or to remove, locations to visit), the steps of
  a round (bridges to make at a location) and the calls of a step (actions to
  grant or revoke, clusters to post to).  `LoopInv` says that the table of
  clients and the set a `removeTopic` works through are finite, and that it
  removes a client of that set; each service has a lemma of its own
  (`TopicCloses`, `ClientCloses`, `BridgeCloses`, `ClusterCloses`).

### Data router

`ConstantsAssumption` of `DrDbc` says that the default location
and user are among the constants, no node is called `""` or `"null"`, a POST or
PUT of a publisher or subscriber carries one, and the server's lists start
without duplicates.

- `DrTypeCorrect` (`DrTypeProofs`): `Spec => []DrTypeOK`.  `DrTypeInv` adds
  `DrThreadOK`, the operation that each of five places in the code belongs to,
  so that the request has the body the step reads.
- `NodesAreUnique` (`DrNodeProofs`): `Spec => []NodesUnique`.  The lists are
  read and written back in two calls, so the invariant is not about the lists
  alone: `CopyOK` says that what a thread is about to change has every name at
  most once, and lacks the name it will append.  Two threads may still lose
  each other's change, but not double a name.
- `StoredNodesAreRouted` (`DrNodeProofs`; `OneThread`, `AnswersArrive`,
  `MaxExits = 0`, `ListedBefore`): `Spec => []NodeIsRouted`.  `RoutedInv` says
  that a stored node is listed or is being taken out by a DELETE past its
  lookup, and `NodeOK` that the copy about to be changed is the list as it is:
  exactly what two threads do not have.
- `NodeListsImplementRegistry` (`DrNodeProofs`; `OneThread`, `AnswersArrive`):
  `Spec => NodesInOrder`.  The mapping takes a list for the set of its names
  (`Members`).  `RegInv` adds to `InOrder`, that the lists have what a POST has
  passed, that the row of the node is as the request read it, and that a copy
  about to be changed has the node only if it is to be taken out, so that a
  write is the change of one name.  It needs neither `ListedBefore` nor
  `MaxExits = 0`: a request that is cut short leaves a beginning of the right
  order.
- `StoredIsAlwaysOnServer` (`DrServerProofs`): `Spec => []StoredIsOnServer`.
  `Confirmed` says that a request past the server's answer works on a feed,
  and holds a subscriber, that the server has; `SubIds` that ids of
  subscriptions are given once.  Each step is shown to satisfy `Kept` (the
  server forgets nothing it confirmed) and `RowsConfirmed` (a new row is of
  something confirmed before), from which `ServerStep` concludes for every
  other thread.
- `ValidPubsAreRouted` (`DrServerProofs`; `OneThread`, `AnswersArrive`):
  `RouteInv`: the static connection is set up for the publisher that is about
  to be posted, which another thread's `new DR_PubService()` would undo.
- `FeedsStayInSync`, `FeedsKeepAPub`, `PutFeedKeeps` (`DrServerProofs`;
  `OneThread`, `AnswersArrive`, `RowsAreSaved`, `MaxExits = 0`) rest on one
  invariant.  `FeedInv` says that ids of publishers are given once, that every
  stored feed is in step with the server but the one a request is working on,
  and of that one (`FeedOK`): the server has the state that will be stored; its
  users are those of the rows that stay and of the publishers still to be
  saved; every publisher in memory is a row that stays or is not yet saved; the
  subscribers in memory have their rows; and a DELETE dr_pubs works on the feed
  of its row.  The first two theorems are its instances between requests; the
  third follows since nothing is left to save for PUT feeds.

### Tables and pool

`PoolAssumption` and `DBMapAssumption` say that null is no connection and that
the answers of failed calls are no values.

- `MapTypeCorrect`, `PoolSafe` (`OneUser`) and `NothingLeaks` (`NoLeak`)
  (`DBMapProofs`).  The inductive invariant says in one piece where a
  connection is: slots below `cur` hold different open connections, calls past
  "open" hold open ones, different from each other and from those in slots, and
  no other is open.
- `OneFailureIsHidden` (`DBMapProofs`): `Spec => []OneFailureHidden`.
  `HiddenInv` says that before the first failure every open connection has its
  session, so that no first attempt fails; after it, what is left of first
  attempts may fail, and a second one runs on a session opened after the
  failure (`AttemptOK`).
- `DBMapIsAtomicMap` (`DBMapProofs`): `Spec => AtomicSpec`.  A statement that
  is made is `Apply`, one that is not, or whose answer is lost, is `Lose`, a
  field handler's exception is `GiveUp`; everything about connections is a
  stutter.

### Instance

`InstanceAssumption` says that the words the code writes itself are no names,
and that bodies, old versions and bounds are of their types.

- `InstanceTypeCorrect` (`DmaapProofs`): `Spec => []TypeOK`.  `TypeInv` adds
  that a process past `InitRow` has a row (`RowThere`), which `Check` relies on
  when it skips provisioning, and what each step of a request has (`RqOK`).
- `VersionTellsSchema` (`DmaapProofs`): `Spec => []SchemaOfVersion`.
  `ShapeInv` says what a script has done so far: `Between` that a table is as
  the version left it or, if the next script makes it, made or dropped by that
  script, which may have been cut short; `Done` that behind the statement that
  makes a table in this run, it is made.
- `RowsAreKept` (`DmaapProofs`): `Spec => RowsKept`, which is about versions
  above 0.  `VersionInv` says that the script which runs is the one after the
  stored version, and that script 0 runs on a version of 0 at most, so that from
  version 1 on a script drops a table only where the property allows it.
- `ProvisionedWhenValid` (`DmaapProofs`; `NoBodyIsValid`):
  `Spec => []ValidIsProvisioned`.  `RqInv` adds what a request
  has granted at each of its steps (`UpTo`).
- `EnvMapIsForNewName` (`DmaapProofs`): `Spec => EnvMapForNewName`, from
  `TypeInv`, for whatever bodies: between the two steps nothing else writes the
  row.

### Only model-checked

- Liveness (`EveryRequestAnswered`, `EventuallyServing`), which is out of the
  prover's reach, since it needs ENABLED.  For message-router requests the part
  that does not is proved: `RequestsComeToAnEnd` has the measure that every step
  makes smaller.  What TLC alone shows is that a request that is not over always
  has a next step.
- The three properties that the code does not have (`lost_whitelist`,
  `put_feed_pubs`, `settings_reset`).

## Not modelled

- Memory mode (`UsePGSQL` false), in which maps hand out shared objects.
- Reads (GET) that change nothing, `DBMap.list`, formatting, logging,
  decryption of passwords, parsing of properties, the servlet context.
- The check of a request by `ApiPolicy`, whose class is loaded by name and is
  not in this repository.
- The connection objects inside `AafConnection`, `MrProvConnection` and
  `DrProvConnection`: a call is what it does and the code it leaves.  That
  `MirrorMakerService.prov` is shared by threads shows as a message that fails.
- `DBFieldHandler` and the text of SQL statements.
- Two requests for the dmaap resource at once.
- `src/www`: a copy of Swagger UI and static pages, which only call the REST
  interface; it holds all the JavaScript of the repository and none of the
  program, which is the Java code under `src/src/main/java`.  The map covers
  that code and the schema scripts.

What could come next, most useful first: `getNextClientId` across restarts
and a clock that is set back; two requests for the dmaap resource at once.
