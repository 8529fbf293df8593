---------------------------- MODULE Replication ----------------------------
(***************************************************************************)
(* The pure part of MirrorMaker provisioning: util/Graph (which locations  *)
(* a topic touches), TopicService.reviewTopic (the replication case of a   *)
(* topic posted without one) and the two switch statements of              *)
(* TopicService.checkForBridge (which bridges a replication case needs at  *)
(* one location).  A bridge is a pair <<source, target>>; its ends are     *)
(* locations (the FQDN of the MR cluster there), the central CNAME, the    *)
(* global MR, or the empty name that stands in when no client is central.  *)
(***************************************************************************)
EXTENDS Naturals, Sequences

NotSpecified == "notSpecified"
None         == "none"
ReplCases    == {NotSpecified, None, "e2c", "e2cg", "c2e", "c2g", "g2c", "g2ce"}

Central == "central"
Global  == "global"
Empty   == ""
Npe     == <<>>       \* not a bridge: a null cluster is dereferenced here

(* The bridge ends that are not locations. *)
Hubs == {Central, Global, Empty}

(* The locations a client list touches: Graph's constructor.  "lay" is the *)
(* stored dcaeLayer of each location ("absent" when it is not stored).     *)
GraphOf(cs, strict, lay) ==
  {c.loc : c \in {d \in cs : /\ strict => d.status = "VALID"
                             /\ d.loc \in DOMAIN lay
                             /\ lay[d.loc] # "absent"
                             /\ d.acts \ {"view"} # {}}}

(* getCentralLoc returns the first central key of a HashMap: any of them,  *)
(* but always the same one for a graph.                                    *)
CentralChoices(g, lay, default) ==
  LET cl == {l \in g : lay[l] = "central"} IN IF cl = {} THEN {default} ELSE cl

(* reviewTopic: n clients, graph g, central location c (Empty: none).      *)
ReviewTopic(n, g, c, clu) ==
  IF n > 1 /\ c # Empty /\ \E l \in g \ {c} : clu[l] # "absent" THEN "e2c" ELSE None

(* Mutant: the second switch statement makes no bridge.                    *)
BridgesAtFirstOnly(repl, c, l) ==
  LET mid == IF c = Empty THEN Empty ELSE Central IN
  IF repl = "e2cg" THEN (IF l # c THEN <<<<l, mid>>>> ELSE <<>>)
  ELSE IF repl = "e2c" /\ l # c THEN <<<<l, mid>>>>
  ELSE IF repl = "c2e" /\ l # c THEN <<<<mid, l>>>> ELSE <<>>

(* First and second bridge of a replication case at location l, when the   *)
(* graph has its central client at c.  The "continue" of the first switch  *)
(* also skips the second one.                                              *)
BridgesAt(repl, c, l) ==
  LET mid  == IF c = Empty THEN Empty ELSE Central
      edge == c # Empty /\ l # c
      Only(b, cond) == IF cond THEN <<b>> ELSE <<>>
  IN CASE repl = "e2c"  -> Only(<<l, mid>>, l # c)
       [] repl = "e2cg" -> Only(<<l, mid>>, l # c) \o Only(<<mid, Global>>, ~edge)
       [] repl = "c2e"  -> Only(<<mid, l>>, l # c)
       [] repl = "c2g"  -> Only(<<mid, Global>>, ~edge)
       [] repl = "g2c"  -> Only(<<Global, mid>>, ~edge)
       [] repl = "g2ce" -> IF edge THEN <<>>
                           ELSE <<<<Global, mid>>>> \o Only(<<mid, l>>, l # c)
       [] OTHER         -> <<>>

(* The same when clusters.get(l) may be null: the code dereferences it     *)
(* unless a hub-to-hub case has no central client.                         *)
StepsAt(repl, c, l, present) ==
  IF present \/ (repl \in {"c2g", "g2c"} /\ c = Empty) THEN BridgesAt(repl, c, l)
  ELSE IF repl = "g2ce" /\ c = Empty THEN <<<<Global, Empty>>, Npe>>
  ELSE <<Npe>>
=============================================================================
