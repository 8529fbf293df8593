---------------------------- MODULE DR_SubService ----------------------------
(***************************************************************************)
(* DR_SubService: a subscription is made on the server, then an egress     *)
(* route from one node of its location, then the row.  The connection is a *)
(* static field used for both calls.                                       *)
(***************************************************************************)
EXTENDS DrDbc

SubOf(spec, f) == [NoSub EXCEPT !.feed = f, !.url = spec.url, !.loc = spec.loc]

(* An error: addDr_Pub of the resource answers with an ApiError that none  *)
(* of its services saw.                                                    *)
Fails(th, code) == Reply(IF th.rq.op = "postPub" THEN "none" ELSE code)

(* The subscription made by doPostDr_Sub, its change by doPutDr_Sub, and   *)
(* the route made by doXgressPost, as far as the call has its effect.      *)
Subscribe(url, o) ==
  /\ drSubs' = IF o.effect
               THEN drSubs \cup {[id |-> nextSub, feed |-> subProv.feed, url |-> url]}
               ELSE drSubs
  /\ nextSub' = IF o.effect THEN nextSub + 1 ELSE nextSub

Redirect(s, url, o) ==
  drSubs' = IF o.effect THEN Put(drSubs, [s EXCEPT !.url = url]) ELSE drSubs

Route(o) == egress' = IF o.effect THEN egress \cup {<<subProv.id, subProv.at>>} ELSE egress

(* Mutant: the loop does not go past a subscriber that has a row.           *)
SaveSubStays(w) ==
  LET th == t[w] IN
  /\ th.pc = "saveSub"
  /\ \/ th.subs = {} /\ Go(w, [th EXCEPT !.pc = "storeFeed"])
     \/ \E s \in th.subs :
          Go(w, IF Has(subs, s.id) THEN th
                ELSE [th EXCEPT !.subs = @ \ {s}, !.sub = s, !.pc = "subNew"])
  /\ UNCHANGED <<tables, server, statics, ctl>>

(* saveSubs: each subscriber of the request that has no row is added.      *)
SaveSub(w) ==
  LET th == t[w] IN
  /\ th.pc = "saveSub"
  /\ \/ th.subs = {} /\ Go(w, [th EXCEPT !.pc = "storeFeed"])
     \/ \E s \in th.subs :
          Go(w, IF Has(subs, s.id) THEN [th EXCEPT !.subs = @ \ {s}]
                ELSE [th EXCEPT !.subs = @ \ {s}, !.sub = s, !.pc = "subNew"])
  /\ UNCHANGED <<tables, server, statics, ctl>>

(* addDr_Sub: prov is replaced, ...                                        *)
NewSubProv(w) ==
  LET th == t[w] IN
  /\ th.pc = "subNew"
  /\ subProv' = NewSubConn
  /\ Go(w, [th EXCEPT !.pc = "subMake"])
  /\ UNCHANGED <<tables, server, pubProv, ctl>>

(* ... set up for the feed's subscribe URL, ...                            *)
MakeSubscribe(w) ==
  LET th == t[w] IN
  /\ th.pc = "subMake"
  /\ subProv' = [NewSubConn EXCEPT !.feed = th.feed, !.ready = TRUE]
  /\ Go(w, [th EXCEPT !.pc = "subPost"])
  /\ UNCHANGED <<tables, server, pubProv, ctl>>

(* ... and posts to whatever it is set up for by now.  The row is made     *)
(* from the answer; anything but a 201 with a subscription is code 400.    *)
PostSubscribe(w) ==
  LET th   == t[w]
      snew == [th.sub EXCEPT !.id = nextSub, !.feed = subProv.feed]
  IN /\ th.pc = "subPost"
     /\ \/ /\ ~subProv.ready
           /\ Go(w, Fails(th, "bad"))
           /\ UNCHANGED <<subProv, drSubs, egress, nextSub>>
        \/ /\ subProv.ready
           /\ subProv' = [subProv EXCEPT !.ready = FALSE]
           /\ \E o \in Outcomes :
                IF subProv.kind = "subscribe"
                THEN /\ Subscribe(th.sub.url, o)
                     /\ Go(w, IF o.answer = "ok" THEN [th EXCEPT !.sub = snew, !.pc = "egressNodes"]
                              ELSE Fails(th, "bad"))
                     /\ UNCHANGED egress
                ELSE /\ Route(o)
                     /\ Go(w, Fails(th, "bad"))
                     /\ UNCHANGED <<drSubs, nextSub>>
  /\ UNCHANGED <<tables, drFeeds, drUsers, ingress, drNodes, drStatic, pubProv, nextPub, served, exits>>

(* addEgressRoute: the first node at the location, ...                     *)
EgressNodes(w) ==
  LET th == t[w] IN
  /\ th.pc = "egressNodes"
  /\ \/ NodesAt(th.sub.loc) = {} /\ Go(w, [th EXCEPT !.pc = "putSub"])
     \/ \E n \in NodesAt(th.sub.loc) : Go(w, [th EXCEPT !.at = {n}, !.pc = "egressMake"])
  /\ UNCHANGED <<tables, server, statics, ctl>>

MakeEgress(w) ==
  LET th == t[w] IN
  /\ th.pc = "egressMake"
  /\ subProv' = [NewSubConn EXCEPT !.kind = "egress", !.id = th.sub.id, !.at = th.at,
                                   !.ready = TRUE]
  /\ Go(w, [th EXCEPT !.pc = "egressPost"])
  /\ UNCHANGED <<tables, server, pubProv, ctl>>

(* ... and the call, whose errors are overwritten.  A subscribe URL refuses *)
(* a POST without a body.                                                  *)
PostEgress(w) ==
  LET th == t[w] IN
  /\ th.pc = "egressPost"
  /\ Go(w, [th EXCEPT !.pc = "putSub"])
  /\ IF ~subProv.ready
     THEN UNCHANGED <<egress, subProv>>
     ELSE /\ subProv' = [subProv EXCEPT !.ready = FALSE]
          /\ \E o \in Outcomes :
               IF subProv.kind = "egress" THEN Route(o) ELSE UNCHANGED egress
  /\ UNCHANGED <<tables, drFeeds, drUsers, drSubs, ingress, drNodes, drStatic, pubProv, ctl>>

PutSub(w) ==
  LET th == t[w] IN
  /\ th.pc = "putSub"
  /\ subs' = Put(subs, th.sub)
  /\ Go(w, IF th.rq.op \in {"postSub", "putSub"} THEN Success
           ELSE [th EXCEPT !.err = "ok", !.pc = "saveSub"])
  /\ UNCHANGED <<feeds, pubs, nodes, server, statics, ctl>>

(* PUT dr_subs: the server's subscription, then the row from its answer.   *)
(* The server answers 404 for an id it does not know; a lost answer leaves *)
(* the 200 of getFeed, which becomes 400.                                  *)
UpdateSub(w) ==
  LET th   == t[w]
      spec == TheOne(th.rq.subs)
  IN /\ th.pc = "updateSub"
     /\ \/ /\ ~Has(drSubs, th.rq.id)
           /\ Go(w, Reply("notFound"))
           /\ UNCHANGED drSubs
        \/ \E s \in drSubs, o \in Outcomes :
             /\ s.id = th.rq.id
             /\ Redirect(s, spec.url, o)
             /\ Go(w, CASE o.answer = "ok" ->
                             [th EXCEPT !.sub = [SubOf(spec, s.feed) EXCEPT !.id = s.id],
                                        !.pc = "putSub"]
                        [] o.answer = "lost" -> Reply("bad")
                        [] OTHER -> Reply("fail"))
     /\ UNCHANGED <<tables, drFeeds, drUsers, ingress, egress, drNodes, drStatic, statics, ctl>>

(* DELETE dr_subs: the row only.                                           *)
RemoveSub(w) ==
  LET th == t[w] IN
  /\ th.pc = "removeSub"
  /\ subs' = {s \in subs : s.id # th.rq.id}
  /\ Go(w, IF Has(subs, th.rq.id) THEN Success ELSE Reply("notFound"))
  /\ UNCHANGED <<feeds, pubs, nodes, server, statics, ctl>>

SubNext(w) ==
  \/ SaveSub(w) \/ NewSubProv(w) \/ MakeSubscribe(w) \/ PostSubscribe(w) \/ EgressNodes(w)
  \/ MakeEgress(w) \/ PostEgress(w) \/ PutSub(w) \/ UpdateSub(w) \/ RemoveSub(w)
=============================================================================
