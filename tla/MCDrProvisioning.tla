-------------------------- MODULE MCDrProvisioning --------------------------
(***************************************************************************)
(* Small instances of DrProvisioning for TLC.  Locations: E1 is an edge,   *)
(* C1 central, X1 is not registered.  Node n0 is registered at E1 before   *)
(* the run, where an instance says so.                                     *)
(***************************************************************************)
EXTENDS DrProvisioning, TLC

ThreadSymmetry == Permutations(Threads)

MCLayer   == [l \in Locs |-> CASE l = "E1" -> "edge" [] l = "C1" -> "central" [] OTHER -> Absent]
OneNode   == [n \in Nodes |-> IF n = "n0" THEN "E1" ELSE Absent]
ListOf1   == Only("n0")

(* Requests: the fields an operation does not use have a fixed value.      *)
Rq(op) == [op |-> op, feed |-> "f1", state |-> "active", pubs |-> {}, subs |-> {}, id |-> 0,
           node |-> "n0", loc |-> DefaultCentral]
P(u, l) == [user |-> u, loc |-> l]
S(u, l) == [url |-> u, loc |-> l]
PostFeed1(f, ps, ss) == [Rq("postFeed") EXCEPT !.feed = f, !.pubs = ps, !.subs = ss]
FeedRq(op, f, st)  == [Rq(op) EXCEPT !.feed = f, !.state = st]
PubRq(op, f, id, p)  == [Rq(op) EXCEPT !.feed = f, !.id = id, !.pubs = {p}]
SubRq(op, f, id, s)  == [Rq(op) EXCEPT !.feed = f, !.id = id, !.subs = {s}]
IdRq(op, id)         == [Rq(op) EXCEPT !.id = id]
NodeRq(op, n, l)     == [Rq(op) EXCEPT !.node = n, !.loc = l]

(* Node requests: an edge, a central and an unregistered location.         *)
ReqNodes == {NodeRq("postNode", "n1", "E1"), NodeRq("postNode", "n2", "C1"),
             NodeRq("postNode", "n2", "X1"), NodeRq("putNode", "n0", "E1"),
             NodeRq("deleteNode", "n0", "E1"), NodeRq("deleteNode", "n1", "E1")}

(* Feeds with and without publishers and subscribers, and what follows.    *)
ReqFeeds == {PostFeed1("f1", {P("u1", "E1")}, {S("s1", "E1")}), PostFeed1("f1", {}, {}),
             FeedRq("putFeed", "f1", "suspended"), FeedRq("deleteFeed", "f1", "active"),
             PubRq("postPub", "f1", 0, P("u2", "E1")), IdRq("deletePub", 1), IdRq("deletePub", 2),
             SubRq("postSub", "f1", 0, S("s2", "C1")), SubRq("putSub", "f1", 1, S("s2", "E1")),
             IdRq("deleteSub", 1)}

(* A PUT of a feed and a new publisher.                                    *)
ReqPutFeed == {PostFeed1("f1", {P("u1", "E1")}, {}), FeedRq("putFeed", "f1", "suspended"),
               PubRq("postPub", "f1", 0, P("u2", "E1"))}

ReqDr == ReqFeeds \cup ReqNodes \cup {Rq("getFeeds")}
ReqAny == ReqDr \cup {PubRq("putPub", "f1", 1, P("u2", "E1"))}
=============================================================================
