------------------------------- MODULE DBMap -------------------------------
(***************************************************************************)
(* DBMap.get, put and remove: one SQL statement each, made by ConnWrapper  *)
(* on a connection of the pool.  A statement that fails with an            *)
(* SQLException is made a second time on a fresh connection; any other     *)
(* exception goes to the caller at once.  The database may close its       *)
(* sessions, refuse a new one, fail a statement, or answer one too late.   *)
(***************************************************************************)
EXTENDS ConnectionFactory

CONSTANTS Threads, Keys, Values,
          NoRow, NoReq,
          Failed,      \* the call ended with a DBException of SQL
          Broken,      \* it ended with another exception
          Faults,      \* the failures the database may show
          MaxCalls,    \* bound: calls made
          MaxFailures  \* bound: failures

FaultKinds == {"drop", "refuse", "statement", "lost", "field"}

ASSUME DBMapAssumption ==
  /\ NoRow \notin Values /\ Failed \notin Values /\ Broken \notin Values
  /\ NoRow # Failed /\ NoRow # Broken /\ Failed # Broken
  /\ Faults \subseteq FaultKinds
  /\ MaxCalls \in Nat /\ MaxFailures \in Nat

VARIABLES rows,      \* the table: value by key, or NoRow
          calls,     \* the call of each thread; when idle, its last answer
          made,      \* calls made
          failures   \* failures of the database so far

mapVars == <<rows, calls>>
vars    == <<poolVars, mapVars, made, failures>>

Request == [op : {"put"}, key : Keys, val : Values]
             \cup [op : {"get", "remove"}, key : Keys, val : {NoRow}]
Call == [pc : {"idle", "pop", "open", "run", "release"}, fresh : BOOLEAN,
         req : Request \cup {NoReq}, conn : Conns \cup {NoConn},
         res : Values \cup {NoRow, Failed, Broken}]

IdleWith(answer) == [pc |-> "idle", fresh |-> FALSE, req |-> NoReq,
                     conn |-> NoConn, res |-> answer]
Begun(r) == [pc |-> "pop", fresh |-> FALSE, req |-> r, conn |-> NoConn, res |-> NoRow]

TypeOK ==
  /\ PoolTypeOK
  /\ rows \in [Keys -> Values \cup {NoRow}]
  /\ calls \in [Threads -> Call]
  /\ made \in 0 .. MaxCalls
  /\ failures \in 0 .. MaxFailures

Init ==
  /\ PoolInit
  /\ rows = [k \in Keys |-> NoRow]
  /\ calls = [w \in Threads |-> IdleWith(NoRow)]
  /\ made = 0 /\ failures = 0

Become(w, c) == calls' = [calls EXCEPT ![w] = c]
Fails(kind)  == kind \in Faults /\ failures < MaxFailures /\ failures' = failures + 1

(* The insert-or-replace, delete or select of a request, and its answer.   *)
After(r)  == IF r.op = "get" THEN rows ELSE [rows EXCEPT ![r.key] = r.val]
Answer(r) == IF r.op = "get" THEN rows[r.key] ELSE NoRow

-----------------------------------------------------------------------------
(* protect: a call begins with an attempt on a pooled connection.          *)
Invoke(w) ==
  /\ calls[w].pc = "idle"
  /\ made < MaxCalls
  /\ made' = made + 1
  /\ \E r \in Request : Become(w, Begun(r))
  /\ UNCHANGED <<poolVars, rows, failures>>

(* Mutant: the second attempt also takes a connection of the pool.         *)
OnSqlExceptionPooled(c) ==
  IF c.fresh THEN IdleWith(Failed)
  ELSE [c EXCEPT !.pc = "pop", !.fresh = TRUE, !.conn = NoConn]

(* Mutant: the second failure answers null instead of throwing.            *)
OnSqlExceptionNull(c) ==
  IF c.fresh THEN IdleWith(NoRow)
  ELSE [c EXCEPT !.pc = "open", !.fresh = TRUE, !.conn = NoConn]

(* The catch clauses of protect: the first SQLException starts the second  *)
(* attempt, on a fresh connection; the second is a DBException.            *)
OnSqlException(c) ==
  IF c.fresh THEN IdleWith(Failed)
  ELSE [c EXCEPT !.pc = "open", !.fresh = TRUE, !.conn = NoConn]

(* cf.get.                                                                 *)
GetPooled(w) ==
  /\ calls[w].pc = "pop"
  /\ \/ /\ cur = 0
        /\ Become(w, [calls[w] EXCEPT !.pc = "open"])
        /\ UNCHANGED poolVars
     \/ \E c \in Conns : /\ Pop(c)
                         /\ Become(w, [calls[w] EXCEPT !.pc = "run", !.conn = c])
  /\ UNCHANGED <<rows, made, failures>>

GetFresh(w) ==
  /\ calls[w].pc = "open"
  /\ \/ /\ Conns # opened
        /\ Open(NewConn)
        /\ Become(w, [calls[w] EXCEPT !.pc = "run", !.conn = NewConn])
        /\ UNCHANGED failures
     \/ /\ Fails("refuse")
        /\ Become(w, OnSqlException(calls[w]))
        /\ UNCHANGED poolVars
  /\ UNCHANGED <<rows, made>>

(* run: the statement is made and answered.                                *)
Execute(w) ==
  LET c == calls[w] IN
  /\ c.pc = "run" /\ c.conn \in live
  /\ rows' = After(c.req)
  /\ Become(w, [c EXCEPT !.pc = "release", !.res = Answer(c.req)])
  /\ UNCHANGED <<poolVars, made, failures>>

(* run fails with an SQLException, and the finally clause closes the       *)
(* connection: its session is gone, the statement is refused, or it is     *)
(* made and the session ends before the answer.                            *)
ExecuteFails(w) ==
  LET c == calls[w] IN
  /\ c.pc = "run"
  /\ \/ c.conn \notin live /\ UNCHANGED <<rows, failures>>
     \/ c.conn \in live /\ Fails("statement") /\ UNCHANGED rows
     \/ c.conn \in live /\ Fails("lost") /\ rows' = After(c.req)
  /\ Close(c.conn)
  /\ Become(w, OnSqlException(c))
  /\ UNCHANGED <<pool, cur, made>>

(* A field handler throws something else: no second attempt.               *)
FieldFails(w) ==
  LET c == calls[w] IN
  /\ c.pc = "run"
  /\ Fails("field")
  /\ Close(c.conn)
  /\ Become(w, IdleWith(Broken))
  /\ UNCHANGED <<pool, cur, rows, made>>

(* cf.release, and the call returns.                                       *)
ReleaseConn(w) ==
  /\ calls[w].pc = "release"
  /\ Release(calls[w].conn)
  /\ Become(w, IdleWith(calls[w].res))
  /\ UNCHANGED <<rows, made, failures>>

(* The database ends sessions (it is restarted, a firewall forgets them).  *)
DropSessions ==
  /\ Fails("drop")
  /\ \E S \in (SUBSET live) \ {{}} : live' = live \ S
  /\ UNCHANGED <<pool, cur, opened, mapVars, made>>

(* All MaxCalls calls are answered (the bound of the model).               *)
Finished ==
  /\ made = MaxCalls
  /\ \A w \in Threads : calls[w].pc = "idle"
  /\ UNCHANGED vars

Step(w) == \/ GetPooled(w) \/ GetFresh(w) \/ Execute(w) \/ ExecuteFails(w)
           \/ FieldFails(w) \/ ReleaseConn(w)
Next == (\E w \in Threads : Invoke(w) \/ Step(w)) \/ DropSessions \/ Finished
Spec == Init /\ [][Next]_vars

-----------------------------------------------------------------------------
Holds(w) == calls[w].conn # NoConn

(* A connection is used by one thread at a time, and one that is in use    *)
(* is not in the pool, nor in two slots of it (ConnectionFactory.get and   *)
(* release against the attempts of all threads).                           *)
OneUser ==
  /\ \A v, w \in Threads : v # w /\ Holds(v) => calls[v].conn # calls[w].conn
  /\ \A w \in Threads : calls[w].conn \notin Pooled
  /\ \A i, j \in 0 .. cur - 1 : i # j => pool[i] # pool[j]

(* No connection is lost: every one that is open is in the pool or with a  *)
(* thread, and those are open, so that there are at most PoolSize and one  *)
(* for each call under way (ConnWrapper.attempt's finally clause).         *)
NoLeak == opened = Pooled \cup {calls[w].conn : w \in {v \in Threads : Holds(v)}}

(* One failure of the database, however many sessions it ends, is hidden   *)
(* from every caller: the second attempt is made on a connection opened    *)
(* for it (ConnWrapper.protect).                                           *)
OneFailureHidden ==
  failures <= 1 =>
    \A w \in Threads : calls[w].pc = "idle" => calls[w].res # Failed

(* The calls of DBMap are those of an atomic map: the steps on connections *)
(* are invisible, and each attempt is a try of it.                         *)
At(c) == CASE c.pc = "idle" -> "idle" [] c.pc = "release" -> "done"
           [] OTHER -> IF c.fresh THEN "second" ELSE "first"
View(c)  == [at |-> At(c), req |-> c.req, res |-> c.res]
MapCalls == [w \in Threads |-> View(calls[w])]
Atomic == INSTANCE AtomicMap WITH calls <- MapCalls, LosesAnswers <- "lost" \in Faults
AtomicSpec == Atomic!Spec
=============================================================================
