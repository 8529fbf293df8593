----------------------------- MODULE AtomicMap -----------------------------
(***************************************************************************)
(* What DBMap promises: a map of rows that several threads use at the same *)
(* time.  A call takes effect at one instant between its invocation and    *)
(* its return, on the whole row, and answers what it read at that instant. *)
(* It may be tried twice, and the first try may have taken effect without  *)
(* an answer only if the database can lose one (LosesAnswers).  A call     *)
(* that fails may have taken effect.                                       *)
(***************************************************************************)
CONSTANTS Threads, Keys, Values,
          NoRow,        \* null: no such row
          NoReq,        \* no call under way
          Failed,       \* the call failed: no try was answered
          Broken,       \* the call failed: no use to try it again
          LosesAnswers  \* may an answer of the database get lost?

VARIABLES rows,   \* the value stored for each key, or NoRow
          calls   \* the call of each thread; when idle, the last answer

Request == [op : {"put"}, key : Keys, val : Values]
             \cup [op : {"get", "remove"}, key : Keys, val : {NoRow}]
IdleWith(answer) == [at |-> "idle", req |-> NoReq, res |-> answer]

(* The table after a request took effect, and its answer: put and remove   *)
(* answer null.                                                            *)
After(r)  == IF r.op = "get" THEN rows ELSE [rows EXCEPT ![r.key] = r.val]
Answer(r) == IF r.op = "get" THEN rows[r.key] ELSE NoRow

Init ==
  /\ rows = [k \in Keys |-> NoRow]
  /\ calls = [w \in Threads |-> IdleWith(NoRow)]

Become(w, c) == calls' = [calls EXCEPT ![w] = c]

Invoke(w) ==
  /\ calls[w].at = "idle"
  /\ \E r \in Request : Become(w, [at |-> "first", req |-> r, res |-> NoRow])
  /\ UNCHANGED rows

Apply(w) ==
  LET c == calls[w] IN
  /\ c.at \in {"first", "second"}
  /\ rows' = After(c.req)
  /\ Become(w, [at |-> "done", req |-> c.req, res |-> Answer(c.req)])

(* A try ends without an answer, with or without its effect.               *)
Lose(w) ==
  LET c == calls[w] IN
  /\ c.at \in {"first", "second"}
  /\ \/ UNCHANGED rows
     \/ LosesAnswers /\ rows' = After(c.req)
  /\ Become(w, IF c.at = "first" THEN [c EXCEPT !.at = "second"] ELSE IdleWith(Failed))

(* A call that no second try can help gives up, without effect.            *)
GiveUp(w) ==
  /\ calls[w].at \in {"first", "second"}
  /\ Become(w, IdleWith(Broken))
  /\ UNCHANGED rows

Return(w) ==
  /\ calls[w].at = "done"
  /\ Become(w, IdleWith(calls[w].res))
  /\ UNCHANGED rows

Next == \E w \in Threads : Invoke(w) \/ Apply(w) \/ Lose(w) \/ GiveUp(w) \/ Return(w)

Spec == Init /\ [][Next]_<<rows, calls>>
=============================================================================
