----------------------------- MODULE Whitelist -----------------------------
(***************************************************************************)
(* What the whitelists of the MirrorMaker bridges are meant to be: a       *)
(* bridge, once made, has a list of topics that only ever gets one more    *)
(* topic at its end, be it on the list already, and the agent is told the  *)
(* whole new list at once, or misses it.                                   *)
(***************************************************************************)
EXTENDS Sequences

CONSTANTS Bridges, Topics

VARIABLES list,   \* the topics of each bridge made so far
          heard   \* the list its agent was told last, bridge by bridge

Init ==
  /\ list = <<>>
  /\ heard = <<>>

With(lists, b, s) == [c \in DOMAIN lists \cup {b} |-> IF c = b THEN s ELSE lists[c]]

(* Bridge b, an old one or a new one, mirrors one topic more.              *)
Add(b) ==
  /\ DOMAIN list' = DOMAIN list \cup {b}
  /\ \E f \in Topics : list' = With(list, b, Append(IF b \in DOMAIN list THEN list[b] ELSE <<>>, f))
  /\ heard' \in {heard, With(heard, b, list'[b])}

Next == \E b \in Bridges : Add(b)

Spec == Init /\ [][Next]_<<list, heard>>
=============================================================================
