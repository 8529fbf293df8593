---------------------------- MODULE NodeRegistry ----------------------------
(***************************************************************************)
(* What the registration of data-router nodes is meant to be: a node is    *)
(* entered in the list of nodes, then in that of the statically routed     *)
(* ones if it is at an edge, before it is stored, and is taken out of them *)
(* only while it is still stored.  The lists are sets, and each change is  *)
(* of one node, at once.                                                   *)
(***************************************************************************)
CONSTANTS Nodes, Locs, Layer

VARIABLES rows,    \* location of each stored node, or "absent"
          listed,  \* the nodes the data router knows
          static   \* those of them it routes statically

Stored(n) == rows[n] # "absent"
AtEdge(l) == Layer[l] = "edge"

Init ==
  /\ rows \in [Nodes -> Locs \cup {"absent"}]
  /\ listed \subseteq Nodes
  /\ static \subseteq Nodes

Enter(n) ==
  /\ ~Stored(n) /\ n \notin listed
  /\ listed' = listed \cup {n}
  /\ UNCHANGED <<rows, static>>

Route(n) ==
  /\ ~Stored(n) /\ n \in listed /\ n \notin static
  /\ static' = static \cup {n}
  /\ UNCHANGED <<rows, listed>>

Store(n, l) ==
  /\ ~Stored(n) /\ n \in listed /\ Layer[l] # "absent"
  /\ AtEdge(l) => n \in static
  /\ rows' = [rows EXCEPT ![n] = l]
  /\ UNCHANGED <<listed, static>>

Withdraw(n) ==
  /\ Stored(n) /\ n \in listed
  /\ listed' = listed \ {n}
  /\ UNCHANGED <<rows, static>>

Unroute(n) ==
  /\ Stored(n) /\ AtEdge(rows[n]) /\ n \in static
  /\ static' = static \ {n}
  /\ UNCHANGED <<rows, listed>>

(* A row may go before the lists do: the calls that change them may have   *)
(* been refused.                                                           *)
Drop(n) ==
  /\ Stored(n)
  /\ rows' = [rows EXCEPT ![n] = "absent"]
  /\ UNCHANGED <<listed, static>>

Next == \E n \in Nodes :
  \/ Enter(n) \/ Route(n) \/ Withdraw(n) \/ Unroute(n) \/ Drop(n)
  \/ \E l \in Locs : Store(n, l)

Spec == Init /\ [][Next]_<<rows, listed, static>>
=============================================================================
