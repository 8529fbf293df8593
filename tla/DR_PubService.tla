---------------------------- MODULE DR_PubService ----------------------------
(***************************************************************************)
(* DR_PubService: a publisher is stored after an ingress route to the      *)
(* nodes of its location was asked for.  The connection is a static field  *)
(* that every new DR_PubService replaces.                                  *)
(***************************************************************************)
EXTENDS DrDbc

(* The body of POST and PUT dr_pubs, as a row without an id.               *)
PubOf(spec, f) == [NoPub EXCEPT !.feed = f, !.user = spec.user, !.loc = spec.loc]

(* savePubs: a new DR_PubService, whose constructor replaces prov, ...     *)
NewPubService(w) ==
  LET th == t[w] IN
  /\ th.pc = "newPubService"
  /\ pubProv' = NewPubConn
  /\ Go(w, [th EXCEPT !.pc = "savePub"])
  /\ UNCHANGED <<tables, server, subProv, ctl>>

(* Mutant: a publisher that has a row is saved again.                      *)
SavePubAlways(w) ==
  LET th == t[w] IN
  /\ th.pc = "savePub"
  /\ \/ /\ th.pubs = {}
        /\ Go(w, [th EXCEPT !.pc = "saveSub"])
        /\ UNCHANGED nextPub
     \/ \E p \in th.pubs :
          /\ nextPub' = nextPub + 1
          /\ Go(w, [th EXCEPT !.pubs = @ \ {p}, !.at = NodesAt(p.loc), !.pc = "putPub",
                      !.pub = [p EXCEPT !.id = nextPub, !.feed = th.feed, !.status = "VALID"]])
  /\ UNCHANGED <<tables, server, statics, nextSub, served, exits>>

(* ... then each publisher of the request that has no row yet gets the id  *)
(* the answer made for it, the feed, and the status VALID.                 *)
SavePub(w) ==
  LET th == t[w] IN
  /\ th.pc = "savePub"
  /\ \/ /\ th.pubs = {}
        /\ Go(w, [th EXCEPT !.pc = "saveSub"])
        /\ UNCHANGED nextPub
     \/ \E p \in th.pubs :
          IF Has(pubs, p.id)
          THEN /\ Go(w, [th EXCEPT !.pubs = @ \ {p}])
               /\ UNCHANGED nextPub
          ELSE /\ nextPub' = nextPub + 1
               /\ Go(w, [th EXCEPT
                    !.pubs = @ \ {p}, !.at = NodesAt(p.loc),
                    !.pub = [p EXCEPT !.id = nextPub, !.feed = th.feed, !.status = "VALID"],
                    !.pc = IF NodesAt(p.loc) = {} THEN "putPub" ELSE "ingressMake"])
  /\ UNCHANGED <<tables, server, statics, nextSub, served, exits>>

(* addIngressRoute: prov is set up ...                                     *)
MakeIngress(w) ==
  LET th == t[w] IN
  /\ th.pc = "ingressMake"
  /\ pubProv' = [feed |-> th.pub.feed, user |-> th.pub.user, at |-> th.at,
                   ready |-> TRUE]
  /\ Go(w, [th EXCEPT !.pc = "ingressPost"])
  /\ UNCHANGED <<tables, server, subProv, ctl>>

(* Mutant: a refused route does not make the publisher invalid.            *)
PostIngressUntested(w) ==
  LET th == t[w] IN
  /\ th.pc = "ingressPost"
  /\ pubProv' = [pubProv EXCEPT !.ready = FALSE]
  /\ Go(w, [th EXCEPT !.pc = "putPub"])
  /\ \E o \in Outcomes :
       ingress' = IF o.effect /\ pubProv.ready
                  THEN ingress \cup {<<pubProv.feed, pubProv.user, pubProv.at>>} ELSE ingress
  /\ UNCHANGED <<tables, drFeeds, drUsers, drSubs, egress, drNodes, drStatic, subProv, ctl>>

(* ... and posts whatever it is set up for by now.  Without a URL it       *)
(* throws, which like a lost answer leaves the code at 0; used already, it *)
(* sends nothing and may give the code of its answer again.                *)
PostIngress(w) ==
  LET th == t[w] IN
  /\ th.pc = "ingressPost"
  /\ \/ /\ ~pubProv.ready
        /\ \E st \in {"VALID"} \cup (IF pubProv.at = {} THEN {} ELSE {"INVALID"}) :
             Go(w, [th EXCEPT !.pc = "putPub", !.pub.status = st])
        /\ UNCHANGED <<ingress, pubProv>>
     \/ /\ pubProv.ready
        /\ pubProv' = [pubProv EXCEPT !.ready = FALSE]
        /\ \E o \in Outcomes :
             /\ ingress' = IF o.effect THEN ingress \cup {<<pubProv.feed, pubProv.user, pubProv.at>>}
                         ELSE ingress
             /\ Go(w, [th EXCEPT !.pc = "putPub",
                  !.pub.status = IF o.answer = "fail" THEN "INVALID" ELSE @])
  /\ UNCHANGED <<tables, drFeeds, drUsers, drSubs, egress, drNodes, drStatic, subProv, ctl>>

PutPub(w) ==
  LET th == t[w] IN
  /\ th.pc = "putPub"
  /\ pubs' = Put(pubs, th.pub)
  /\ Go(w, [th EXCEPT !.pc = "savePub"])
  /\ UNCHANGED <<feeds, subs, nodes, server, statics, ctl>>

(* PUT dr_pubs: the body becomes the row of the id, whether or not there   *)
(* is one; the server is not told.                                         *)
WritePub(w) ==
  LET th == t[w] IN
  /\ th.pc = "writePub"
  /\ pubs' = Put(pubs, [PubOf(TheOne(th.rq.pubs), th.rq.feed) EXCEPT !.id = th.rq.id])
  /\ Go(w, Success)
  /\ UNCHANGED <<feeds, subs, nodes, server, statics, ctl>>

(* DELETE dr_pubs: the row, and a new FeedService for its feed; ...        *)
FindPub(w) ==
  LET th == t[w] IN
  /\ th.pc = "findPub"
  /\ IF Has(pubs, th.rq.id)
     THEN /\ \E p \in pubs : /\ p.id = th.rq.id
                             /\ Go(w, [th EXCEPT !.pub = p, !.feed = p.feed, !.err = "ok",
                                         !.pc = "getFeed"])
          /\ pubProv' = NewPubConn
     ELSE Go(w, Reply("notFound")) /\ UNCHANGED pubProv
  /\ UNCHANGED <<tables, server, subProv, ctl>>

(* ... the row goes when the feed has been updated without it.             *)
RemovePub(w) ==
  LET th == t[w] IN
  /\ th.pc = "removePub"
  /\ pubs' = {p \in pubs : p.id # th.rq.id}
  /\ Go(w, IF Has(pubs, th.rq.id) THEN Success ELSE Reply("notFound"))
  /\ UNCHANGED <<feeds, subs, nodes, server, statics, ctl>>

PubNext(w) ==
  \/ NewPubService(w) \/ SavePub(w) \/ MakeIngress(w) \/ PostIngress(w) \/ PutPub(w)
  \/ WritePub(w) \/ FindPub(w) \/ RemovePub(w)
=============================================================================
