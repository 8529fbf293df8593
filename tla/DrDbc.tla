------------------------------- MODULE DrDbc -------------------------------
(***************************************************************************)
(* State shared by the data-router services of the bus controller: the     *)
(* tables feed, dr_pub, dr_sub and dr_node, what the DR provisioning       *)
(* server holds, the two connection objects that are static fields, and    *)
(* one record per Jetty thread for the request it serves.  A step of a     *)
(* request is the code up to its next access to shared state.              *)
(***************************************************************************)
EXTENDS Integers, FiniteSets

CONSTANTS Threads,       \* Jetty threads
          Feeds,         \* feed ids; the server gives one to each name and version
          Users,         \* publishers' user names
          Urls,          \* subscribers' delivery URLs
          Nodes,         \* fqdns of DR nodes
          Locs,          \* dcaeLocation names
          Layer,         \* dcae_location: dcaeLayer by location, or Absent
          DefaultCentral,\* "aCentralLocation"
          TmpUser,       \* the random user name of a default publisher
          Requests,      \* the REST requests clients send
          Faults,        \* the failures the environment may show
          MaxRequests,   \* bound: requests served
          MaxExits,      \* bound: process exits
          InitNodes,     \* dr_node before the run
          InitList,      \* NODES before the run
          InitStatic     \* STATIC_ROUTING_NODES before the run

Absent  == "absent"
Blank   == ""                           \* what split makes of an empty list
NullName == "null"                      \* what string concatenation makes of null
Codes   == {"none", "ok", "bad", "notFound", "conflict", "fail"}
States  == {"active", "suspended"}       \* of a feed
Statuses == {"EMPTY", "VALID", "INVALID"}

(* A list of names separated by bars, whose order nothing depends on: how  *)
(* often each name is in it.                                               *)
Names     == Nodes \cup {Blank, NullName}
NodeList  == [Names -> Nat]
Only(name) == [x \in Names |-> IF x = name THEN 1 ELSE 0]

Ops == {"postFeed", "putFeed", "deleteFeed", "getFeeds", "postPub", "putPub",
        "deletePub", "postSub", "putSub", "deleteSub", "postNode", "putNode",
        "deleteNode"}

PubSpec == [user : Users, loc : Locs]
SubSpec == [url : Urls, loc : Locs]
Pub     == [id : Nat, feed : Feeds, user : Users, loc : Locs, status : Statuses]
Sub     == [id : Nat, feed : Feeds, url : Urls, loc : Locs]
Request == [op : Ops, feed : Feeds, state : States, pubs : SUBSET PubSpec, subs : SUBSET SubSpec, id : Nat, node : Nodes, loc : Locs]

ASSUME ConstantsAssumption ==
  /\ DefaultCentral \in Locs /\ TmpUser \in Users /\ Urls # {}
  /\ Nodes \cap {Blank, NullName} = {}
  /\ Layer \in [Locs -> {Absent, "edge", "central"}]
  /\ Requests # {} /\ Requests \subseteq Request
  /\ \A r \in Requests : /\ r.op \in {"postPub", "putPub"} => r.pubs # {}
                         /\ r.op \in {"postSub", "putSub"} => r.subs # {}
  /\ MaxRequests \in Nat /\ MaxExits \in Nat
  /\ InitNodes \in [Nodes -> Locs \cup {Absent}]
  /\ InitList \in NodeList /\ InitStatic \in NodeList
  /\ \A x \in Names : InitList[x] <= 1 /\ InitStatic[x] <= 1

VARIABLES
  feeds,    \* feed: state by feed id, or Absent
  pubs,     \* dr_pub: the rows
  subs,     \* dr_sub: the rows
  nodes,    \* dr_node: location by fqdn, or Absent
  drFeeds,  \* DR server: state of a feed by id, or Absent
  drUsers,  \* DR server: users who may publish to it
  drSubs,   \* DR server: subscriptions
  ingress,  \* DR server: ingress routes <<feed, user, nodes>>
  egress,   \* DR server: egress routes <<subscription id, nodes>>
  drNodes,  \* DR server: NODES
  drStatic, \* DR server: STATIC_ROUTING_NODES
  pubProv,  \* DR_PubService.prov, static
  subProv,  \* DR_SubService.prov, static
  t,        \* the request each thread serves
  nextPub,  \* next publisher id (DR_Pub.nextKey)
  nextSub,  \* next subscription id of the server
  served,   \* requests received
  exits     \* process exits

tables   == <<feeds, pubs, subs, nodes>>
server   == <<drFeeds, drUsers, drSubs, ingress, egress, drNodes, drStatic>>
statics  == <<pubProv, subProv>>
ctl      == <<nextPub, nextSub, served, exits>>
vars     == <<tables, server, statics, t, ctl>>

NoPub == [id |-> 0, feed |-> CHOOSE f \in Feeds : TRUE, user |-> TmpUser,
          loc |-> DefaultCentral, status |-> "EMPTY"]
NoSub == [id |-> 0, feed |-> CHOOSE f \in Feeds : TRUE,
          url |-> CHOOSE u \in Urls : TRUE, loc |-> DefaultCentral]

(* A connection object: the call it is set up for, and whether it can      *)
(* still be used; a new one has no URL.                                    *)
PubConn == [feed : Feeds, user : Users, at : SUBSET Nodes, ready : BOOLEAN]
SubConn == [kind : {"subscribe", "egress"}, feed : Feeds, id : Nat, at : SUBSET Nodes,
            ready : BOOLEAN]
NewPubConn == [feed |-> NoPub.feed, user |-> TmpUser, at |-> {}, ready |-> FALSE]
NewSubConn == [kind |-> "subscribe", feed |-> NoSub.feed, id |-> 0, at |-> {}, ready |-> FALSE]

Thread == [
  pc    : {"idle", "postFeed", "getFeed", "putFeed", "newPubService", "savePub",
           "ingressMake", "ingressPost", "putPub", "saveSub", "subNew", "subMake",
           "subPost", "egressNodes", "egressMake", "egressPost", "putSub",
           "storeFeed", "deleteFeed", "getFeeds", "writePub", "findPub",
           "removePub", "updateSub", "removeSub", "nodeGet", "nodesGet",
           "nodesPut", "nodeLocation", "staticGet", "staticPut", "nodeStore"},
  rq    : Requests,
  err   : Codes,                       \* ApiError.code of the request
  feed  : Feeds,                       \* the feed worked on
  state : States,                      \* its state
  users : SUBSET Users,                \* its publishers, for the server
  pubs  : SUBSET Pub,                  \* publishers still to save
  subs  : SUBSET Sub,                  \* subscribers still to save
  pub   : Pub,                         \* the publisher worked on
  sub   : Sub,                         \* the subscriber worked on
  at    : SUBSET Nodes,                \* nodes at its location
  loc   : Locs,                        \* location of the node worked on
  list  : NodeList,                    \* copy of a node list
  reply : {"-", "success"} \cup Codes] \* last answer: success() or error()

Idle == [pc |-> "idle", rq |-> CHOOSE r \in Requests : TRUE, err |-> "none",
         feed |-> NoPub.feed, state |-> "active", users |-> {}, pubs |-> {}, subs |-> {},
         pub |-> NoPub, sub |-> NoSub, at |-> {}, loc |-> DefaultCentral, list |-> Only(Blank),
         reply |-> "-"]

DrTypeOK ==
  /\ feeds \in [Feeds -> States \cup {Absent}]
  /\ pubs \subseteq Pub
  /\ subs \subseteq Sub
  /\ nodes \in [Nodes -> Locs \cup {Absent}]
  /\ drFeeds \in [Feeds -> States \cup {Absent}]
  /\ drUsers \in [Feeds -> SUBSET Users]
  /\ drSubs \subseteq [id : Nat, feed : Feeds, url : Urls]
  /\ ingress \subseteq Feeds \X Users \X SUBSET Nodes
  /\ egress \subseteq Nat \X SUBSET Nodes
  /\ drNodes \in NodeList /\ drStatic \in NodeList
  /\ pubProv \in PubConn /\ subProv \in SubConn
  /\ t \in [Threads -> Thread]
  /\ nextPub \in Nat \ {0} /\ nextSub \in Nat \ {0}
  /\ served \in 0..MaxRequests /\ exits \in 0..MaxExits

Init ==
  /\ feeds = [f \in Feeds |-> Absent] /\ drFeeds = feeds
  /\ drUsers = [f \in Feeds |-> {}]
  /\ pubs = {} /\ subs = {} /\ nodes = InitNodes
  /\ drSubs = {} /\ ingress = {} /\ egress = {}
  /\ drNodes = InitList /\ drStatic = InitStatic
  /\ pubProv = NewPubConn /\ subProv = NewSubConn
  /\ t = [w \in Threads |-> Idle]
  /\ nextPub = 1 /\ nextSub = 1 /\ served = 0 /\ exits = 0

-----------------------------------------------------------------------------
(* A thread takes a step: its record becomes th.                           *)
Go(w, th)   == t' = [t EXCEPT ![w] = th]
Reply(code) == [Idle EXCEPT !.reply = code]
Success     == Reply("success")
ServerError == Reply("fail")   \* an exception leaves the resource: Jersey's 500

Put(rows, r)   == {x \in rows : x.id # r.id} \cup {r}
Has(rows, id)  == \E x \in rows : x.id = id
PubsOf(f)      == {p \in pubs : p.feed = f}        \* getDr_PubsByFeedId
SubsOf(f)      == {s \in subs : s.feed = f}        \* getDr_SubsByFeedId
NodesAt(l)     == {n \in Nodes : nodes[n] = l}     \* getNodePatternAtLocation
TheOne(S)      == CHOOSE x \in S : TRUE

(* How a call to the server ends: with its effect and a 2xx answer; refused *)
(* with another code; or without an answer that can be read, the effect    *)
(* made or not.                                                            *)
Done    == [effect |-> TRUE, answer |-> "ok"]
Refused == [effect |-> FALSE, answer |-> "fail"]
Outcomes == {Done}
   \cup (IF "drHttp" \in Faults THEN {Refused} ELSE {})
   \cup (IF "drLost" \in Faults THEN [effect : BOOLEAN, answer : {"lost"}] ELSE {})
=============================================================================
