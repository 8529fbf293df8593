----------------------------- MODULE FeedService -----------------------------
(***************************************************************************)
(* FeedService with the resources of feeds, publishers and subscribers: a  *)
(* feed is posted or put on the server with the list of its publishers,    *)
(* then the publishers and subscribers without a row are saved, then the   *)
(* feed's row is put.  Nothing is undone when a later part fails.          *)
(***************************************************************************)
EXTENDS DR_PubService, DR_SubService

UsersOf(P) == {p.user : p \in P}

(* getCentralLocation.                                                     *)
CentralChoices ==
  LET centrals == {l \in Locs : Layer[l] = "central"}
  IN IF centrals = {} THEN {DefaultCentral} ELSE centrals

(* The publishers of POST feeds: at least one, a temporary one if need be. *)
RequestedPubs(rq) ==
  IF rq.pubs # {} THEN {{PubOf(p, rq.feed) : p \in rq.pubs}}
  ELSE {{PubOf([user |-> TmpUser, loc |-> l], rq.feed)} : l \in CentralChoices}

(* The feed on the server, as far as the call has its effect.              *)
SetOnServer(f, state, users, o) ==
  /\ drFeeds' = IF o.effect THEN [drFeeds EXCEPT ![f] = state] ELSE drFeeds
  /\ drUsers' = IF o.effect THEN [drUsers EXCEPT ![f] = users] ELSE drUsers

(* Mutant: a call without an answer that is a feed is not noticed.         *)
PostFeedUntested(w) ==
  LET th == t[w]
      f  == th.rq.feed
  IN /\ th.pc = "postFeed"
     /\ \/ /\ drFeeds[f] # Absent
           /\ Go(w, Reply("bad"))
           /\ UNCHANGED <<drFeeds, drUsers>>
        \/ /\ drFeeds[f] = Absent
           /\ \E P \in RequestedPubs(th.rq), o \in Outcomes :
                /\ SetOnServer(f, th.rq.state, UsersOf(P), o)
                /\ Go(w, [th EXCEPT !.pc = "newPubService", !.pubs = P,
                            !.subs = {SubOf(s, f) : s \in th.rq.subs}, !.state = th.rq.state])
     /\ UNCHANGED <<tables, drSubs, ingress, egress, drNodes, drStatic, statics, ctl>>

(* addFeed up to the call: the server refuses a name and version it has    *)
(* with 400; an answer that is not a feed is a 500.                        *)
PostFeed(w) ==
  LET th == t[w]
      f  == th.rq.feed
  IN /\ th.pc = "postFeed"
     /\ \/ /\ drFeeds[f] # Absent
           /\ Go(w, Reply("bad"))
           /\ UNCHANGED <<drFeeds, drUsers>>
        \/ /\ drFeeds[f] = Absent
           /\ \E P \in RequestedPubs(th.rq), o \in Outcomes :
                /\ SetOnServer(f, th.rq.state, UsersOf(P), o)
                /\ Go(w, IF o.answer # "ok" THEN Reply("fail")
                         ELSE [th EXCEPT !.pc = "newPubService", !.pubs = P,
                                 !.subs = {SubOf(s, f) : s \in th.rq.subs},
                                 !.state = th.rq.state])
     /\ UNCHANGED <<tables, drSubs, ingress, egress, drNodes, drStatic, statics, ctl>>

(* getFeed: the row with its publishers and subscribers, read one after    *)
(* the other.  The code is 200 even if there is no row.                    *)
NoFeed(op) == Reply(CASE op \in {"putFeed", "postSub"} -> "notFound"
                      [] op = "postPub" -> "none"
                      [] OTHER -> "ok")

(* updateFeed follows, with the publishers P.                              *)
Update(th, state, P) ==
  [th EXCEPT !.pc = "putFeed", !.err = "ok", !.state = state, !.pubs = P,
             !.users = UsersOf(P), !.subs = SubsOf(th.feed)]

(* Mutants: the last publisher may go; the list sent to the server is the  *)
(* one that was read.                                                      *)
WithoutLastPub(th) == {Update(th, feeds[th.feed], {p \in PubsOf(th.feed) : p.id # th.rq.id})}
WithoutPubAsRead(th) ==
  IF Cardinality(PubsOf(th.feed)) = 1 THEN {Reply("bad")}
  ELSE {Update(th, feeds[th.feed], PubsOf(th.feed))}

(* DELETE dr_pubs refuses to delete the last publisher.  It changes the    *)
(* list it iterates over: unless the publisher is the last but one of the  *)
(* list (whose order is that of a hash set) the iterator throws.           *)
WithoutPub(th) ==
  LET P == PubsOf(th.feed) IN
  IF Cardinality(P) = 1 THEN {Reply("bad")}
  ELSE {Update(th, feeds[th.feed], {p \in P : p.id # th.rq.id})}
       \cup (IF Has(P, th.rq.id) THEN {ServerError} ELSE {})

GetFeed(w) ==
  LET th == t[w]
      f  == th.feed
  IN /\ th.pc = "getFeed"
     /\ IF feeds[f] = Absent THEN Go(w, NoFeed(th.rq.op))
        ELSE \E next \in
          CASE th.rq.op = "putFeed" -> {Update(th, th.rq.state, PubsOf(f))}
            [] th.rq.op = "postPub" ->
                 {Update(th, feeds[f], PubsOf(f) \cup {PubOf(TheOne(th.rq.pubs), f)})}
            [] th.rq.op = "deletePub" -> WithoutPub(th)
            [] th.rq.op = "postSub" ->
                 {[th EXCEPT !.pc = "subNew", !.sub = SubOf(TheOne(th.rq.subs), f)]}
            [] OTHER -> {[th EXCEPT !.pc = "updateSub"]} :
          Go(w, next)
     /\ UNCHANGED <<tables, server, statics, ctl>>

(* updateFeed: the whole feed goes to the server.                          *)
PutFeed(w) ==
  LET th == t[w]
      f  == th.feed
  IN /\ th.pc = "putFeed"
     /\ \/ /\ drFeeds[f] = Absent
           /\ Go(w, Fails(th, "fail"))
           /\ UNCHANGED <<drFeeds, drUsers>>
        \/ /\ drFeeds[f] # Absent
           /\ \E o \in Outcomes :
                /\ SetOnServer(f, th.state, th.users, o)
                /\ Go(w, IF o.answer = "ok" THEN [th EXCEPT !.pc = "newPubService"]
                         ELSE Fails(th, "fail"))
     /\ UNCHANGED <<tables, drSubs, ingress, egress, drNodes, drStatic, statics, ctl>>

(* The end of addFeed and updateFeed; DELETE dr_pubs has a row to remove.  *)
StoreFeed(w) ==
  LET th == t[w] IN
  /\ th.pc = "storeFeed"
  /\ feeds' = [feeds EXCEPT ![th.feed] = th.state]
  /\ Go(w, IF th.rq.op = "deletePub" THEN [th EXCEPT !.pc = "removePub"] ELSE Success)
  /\ UNCHANGED <<pubs, subs, nodes, server, statics, ctl>>

(* DELETE feeds: the row only, known or not.                               *)
DeleteFeed(w) ==
  LET th == t[w] IN
  /\ th.pc = "deleteFeed"
  /\ feeds' = [feeds EXCEPT ![th.rq.feed] = Absent]
  /\ Go(w, Success)
  /\ UNCHANGED <<pubs, subs, nodes, server, statics, ctl>>

(* GET feeds and GET dr_pubs change nothing but pubProv (at their start).  *)
GetFeeds(w) ==
  /\ t[w].pc = "getFeeds"
  /\ Go(w, Success)
  /\ UNCHANGED <<tables, server, statics, ctl>>

FeedNext(w) ==
  \/ PostFeed(w) \/ GetFeed(w) \/ PutFeed(w) \/ StoreFeed(w) \/ DeleteFeed(w) \/ GetFeeds(w)
=============================================================================
