---------------------------- MODULE DBMapProofs ----------------------------
(***************************************************************************)
(* For any number of threads, connections, keys and values, any size of    *)
(* the pool and any failures: the pool hands a connection to one thread at *)
(* a time and loses none, and DBMap implements AtomicMap.                  *)
(***************************************************************************)
EXTENDS DBMap, TLAPS

(* Why OneUser and NoLeak are kept: a thread has a connection exactly from *)
(* cf.get to release or close, a call under way has a request, and the     *)
(* slots in use hold connections.                                          *)
CallOK(w) ==
  /\ Holds(w) <=> calls[w].pc \in {"run", "release"}
  /\ calls[w].pc # "idle" => calls[w].req \in Request
  /\ calls[w].pc # "idle" => calls[w].fresh \in BOOLEAN

PoolInv ==
  /\ TypeOK
  /\ \A w \in Threads : CallOK(w)
  /\ \A i \in 0 .. cur - 1 : pool[i] \in Conns
  /\ OneUser
  /\ NoLeak

LEMMA InitPool == Init => PoolInv
  <1> SUFFICES ASSUME Init PROVE PoolInv
    OBVIOUS
  <1>1. TypeOK
    BY PoolAssumption, DBMapAssumption
    DEF Init, TypeOK, PoolTypeOK, PoolInit, Slots, Call, IdleWith
  <1>2. /\ cur = 0 /\ opened = {}
        /\ \A w \in Threads : calls[w] = IdleWith(NoRow)
    BY DEF Init, PoolInit
  <1>3. 0 .. cur - 1 = {}
    BY <1>2
  <1>4. Pooled = {} /\ \A w \in Threads : ~Holds(w)
    BY <1>2, <1>3 DEF Pooled, Holds, IdleWith
  <1>5. OneUser /\ NoLeak
    BY <1>2, <1>3, <1>4 DEF OneUser, NoLeak
  <1>6. \A w \in Threads : CallOK(w)
    BY <1>2, <1>4 DEF CallOK, IdleWith
  <1> QED
    BY <1>1, <1>3, <1>5, <1>6 DEF PoolInv

-----------------------------------------------------------------------------
(* What a step does to the connections: nothing, or thread w takes one     *)
(* from the pool, opens one, closes its own or gives its own back.         *)
Conns0(w) == \A v \in Threads : v # w => calls'[v].conn = calls[v].conn

LEMMA NothingMoves ==
  ASSUME PoolInv, UNCHANGED <<pool, cur, opened>>,
         \A v \in Threads : calls'[v].conn = calls[v].conn
  PROVE  /\ OneUser' /\ NoLeak'
         /\ \A i \in 0 .. cur' - 1 : pool'[i] \in Conns
  BY DEF PoolInv, OneUser, NoLeak, Pooled, Holds

LEMMA PopMoves ==
  ASSUME PoolInv, NEW w \in Threads, NEW c \in Conns, Pop(c), Conns0(w),
         ~Holds(w), calls'[w].conn = c
  PROVE  /\ OneUser' /\ NoLeak'
         /\ \A i \in 0 .. cur' - 1 : pool'[i] \in Conns
  <1> USE DEF PoolInv
  <1>1. /\ cur \in Nat /\ cur > 0 /\ cur' = cur - 1 /\ cur' \in Nat
        /\ pool' = pool /\ opened' = opened /\ c = pool[cur']
    BY PoolAssumption DEF Pop, TypeOK, PoolTypeOK
  <1>2. \A i \in 0 .. cur' - 1 : i \in 0 .. cur - 1 /\ i # cur'
    BY <1>1
  <1>3. \A i \in 0 .. cur - 1 : i \in 0 .. cur' - 1 \/ i = cur'
    BY <1>1
  <1>4. cur' \in 0 .. cur - 1
    BY <1>1
  <1>5. c \notin Pooled'
    BY <1>1, <1>2, <1>4 DEF OneUser, Pooled
  <1>6. Pooled = Pooled' \cup {c}
    BY <1>1, <1>2, <1>3, <1>4 DEF Pooled
  <1>7. c # NoConn
    BY PoolAssumption
  <1>8. \A v \in Threads : v # w => Holds(v)' = Holds(v) /\ calls[v].conn # c
    BY <1>6 DEF Conns0, Holds, OneUser
  <1>9. OneUser'
    <2>1. \A u, v \in Threads : u # v /\ Holds(u)' => calls'[u].conn # calls'[v].conn
      BY <1>7, <1>8 DEF Conns0, OneUser, Holds
    <2>2. \A v \in Threads : calls'[v].conn \notin Pooled'
      BY <1>5, <1>6, <1>8 DEF Conns0, OneUser
    <2>3. \A i, j \in 0 .. cur' - 1 : i # j => pool'[i] # pool'[j]
      BY <1>1, <1>2 DEF OneUser
    <2> QED
      BY <2>1, <2>2, <2>3 DEF OneUser
  <1>10. NoLeak'
    <2>1. {calls'[v].conn : v \in {u \in Threads : Holds(u)'}}
            = {calls[v].conn : v \in {u \in Threads : Holds(u)}} \cup {c}
      BY <1>7, <1>8 DEF Conns0, Holds
    <2> QED
      BY <1>1, <1>6, <2>1 DEF NoLeak
  <1> QED
    BY <1>1, <1>2, <1>9, <1>10

LEMMA OpenMoves ==
  ASSUME PoolInv, NEW w \in Threads, NEW c \in Conns, Open(c), Conns0(w),
         ~Holds(w), calls'[w].conn = c
  PROVE  /\ OneUser' /\ NoLeak'
         /\ \A i \in 0 .. cur' - 1 : pool'[i] \in Conns
  <1> USE DEF PoolInv
  <1>1. /\ pool' = pool /\ cur' = cur /\ opened' = opened \cup {c} /\ c \notin opened
        /\ Pooled' = Pooled /\ c # NoConn
    BY PoolAssumption DEF Open, Pooled
  <1>2. \A v \in Threads : v # w => Holds(v)' = Holds(v) /\ (Holds(v) => calls[v].conn # c)
    BY <1>1 DEF Conns0, Holds, NoLeak
  <1>3. c \notin Pooled
    BY <1>1 DEF NoLeak
  <1>4. OneUser'
    BY <1>1, <1>2, <1>3 DEF Conns0, OneUser, Holds
  <1>5. {calls'[v].conn : v \in {u \in Threads : Holds(u)'}}
          = {calls[v].conn : v \in {u \in Threads : Holds(u)}} \cup {c}
    BY <1>1, <1>2 DEF Conns0, Holds
  <1>6. NoLeak'
    BY <1>1, <1>5 DEF NoLeak
  <1> QED
    BY <1>1, <1>4, <1>6

LEMMA CloseMoves ==
  ASSUME PoolInv, NEW w \in Threads, Close(calls[w].conn), UNCHANGED <<pool, cur>>,
         Conns0(w), Holds(w), calls'[w].conn = NoConn
  PROVE  /\ OneUser' /\ NoLeak'
         /\ \A i \in 0 .. cur' - 1 : pool'[i] \in Conns
  <1> USE DEF PoolInv
  <1>1. /\ Pooled' = Pooled /\ opened' = opened \ {calls[w].conn}
        /\ calls[w].conn \notin Pooled /\ ~Holds(w)'
    BY DEF Close, Pooled, OneUser, Holds
  <1>2. NoConn \notin Pooled
    BY PoolAssumption DEF Pooled
  <1>3. \A v \in Threads : v # w => Holds(v)' = Holds(v) /\ calls[v].conn # calls[w].conn
    BY DEF Conns0, Holds, OneUser
  <1>4. OneUser'
    BY <1>1, <1>2, <1>3 DEF Conns0, OneUser, Holds
  <1>5. {calls'[v].conn : v \in {u \in Threads : Holds(u)'}}
          = {calls[v].conn : v \in {u \in Threads : Holds(u)}} \ {calls[w].conn}
    BY <1>1, <1>3 DEF Conns0, Holds
  <1>6. NoLeak'
    BY <1>1, <1>5 DEF NoLeak
  <1> QED
    BY <1>4, <1>6

LEMMA PushMoves ==
  ASSUME PoolInv, NEW w \in Threads, cur < PoolSize, cur' = cur + 1,
         pool' = [pool EXCEPT ![cur] = calls[w].conn], opened' = opened,
         Conns0(w), Holds(w), calls'[w].conn = NoConn
  PROVE  /\ OneUser' /\ NoLeak'
         /\ \A i \in 0 .. cur' - 1 : pool'[i] \in Conns
  <1> USE DEF PoolInv
  <1> DEFINE c == calls[w].conn
  <1>1. /\ cur \in Nat /\ cur \in DOMAIN pool /\ c \in Conns /\ c # NoConn
        /\ \A i \in 0 .. cur - 1 : i \in DOMAIN pool
    BY PoolAssumption DEF TypeOK, PoolTypeOK, Slots, Call, Holds
  <1>2. \A i \in 0 .. cur' - 1 : i \in 0 .. cur - 1 \/ i = cur
    BY <1>1
  <1>3. \A i \in 0 .. cur - 1 : i \in 0 .. cur' - 1 /\ i # cur
    BY <1>1
  <1>4. cur \in 0 .. cur' - 1 /\ pool'[cur] = c
    BY <1>1
  <1>5. \A i \in 0 .. cur - 1 : pool'[i] = pool[i]
    BY <1>1, <1>3
  <1>6. Pooled' = Pooled \cup {c}
    BY <1>2, <1>3, <1>4, <1>5 DEF Pooled
  <1>7. c \notin Pooled /\ ~Holds(w)'
    BY DEF OneUser, Holds
  <1>8. NoConn \notin Pooled
    BY PoolAssumption DEF Pooled
  <1>9. \A v \in Threads : v # w => Holds(v)' = Holds(v) /\ calls[v].conn # c
    BY DEF Conns0, Holds, OneUser
  <1>10. OneUser'
    <2>1. \A u, v \in Threads : u # v /\ Holds(u)' => calls'[u].conn # calls'[v].conn
      BY <1>7, <1>9 DEF Conns0, OneUser, Holds
    <2>2. \A v \in Threads : calls'[v].conn \notin Pooled'
      BY <1>1, <1>6, <1>8, <1>9 DEF Conns0, OneUser
    <2>3. \A i, j \in 0 .. cur' - 1 : i # j => pool'[i] # pool'[j]
      BY <1>2, <1>4, <1>5, <1>7 DEF OneUser, Pooled
    <2> QED
      BY <2>1, <2>2, <2>3 DEF OneUser
  <1>11. {calls'[v].conn : v \in {u \in Threads : Holds(u)'}} \cup {c}
           = {calls[v].conn : v \in {u \in Threads : Holds(u)}}
    BY <1>7, <1>9 DEF Conns0, Holds
  <1>12. NoLeak'
    BY <1>6, <1>11 DEF NoLeak
  <1> QED
    BY <1>1, <1>2, <1>4, <1>5, <1>10, <1>12

-----------------------------------------------------------------------------
(* What a step does to the records of calls.                               *)
RecordOK(c) ==
  /\ c \in Call
  /\ c.conn # NoConn <=> c.pc \in {"run", "release"}
  /\ c.pc # "idle" => c.req \in Request

LEMMA Records ==
  ASSUME PoolInv, NEW w \in Threads PROVE RecordOK(calls[w])
  BY DEF PoolInv, TypeOK, CallOK, RecordOK, Holds

LEMMA IdleRecord ==
  ASSUME NEW a \in Values \cup {NoRow, Failed, Broken}
  PROVE  RecordOK(IdleWith(a)) /\ IdleWith(a).conn = NoConn
  BY DEF RecordOK, IdleWith, Call

LEMMA BecomesRecord ==
  ASSUME PoolInv, NEW w \in Threads, NEW c, RecordOK(c), Become(w, c)
  PROVE  /\ calls' \in [Threads -> Call]
         /\ \A v \in Threads : CallOK(v)'
         /\ calls'[w] = c
         /\ Conns0(w)
  <1>1. /\ calls \in [Threads -> Call]
        /\ c \in Call
        /\ calls' = [calls EXCEPT ![w] = c]
    BY DEF PoolInv, TypeOK, RecordOK, Become
  <1>2. /\ calls' \in [Threads -> Call]
        /\ calls'[w] = c
        /\ \A v \in Threads : v # w => calls'[v] = calls[v]
    BY <1>1
  <1>3. \A v \in Threads : RecordOK(calls'[v])
    BY <1>2, Records
  <1>4. \A v \in Threads : CallOK(v)'
    BY <1>3 DEF RecordOK, CallOK, Holds, Call
  <1> QED
    BY <1>2, <1>4 DEF Conns0

LEMMA RetryRecord ==
  ASSUME PoolInv, NEW w \in Threads, calls[w].pc # "idle"
  PROVE  /\ RecordOK(OnSqlException(calls[w]))
         /\ OnSqlException(calls[w]).conn = NoConn
  <1>1. CASE calls[w].fresh
    BY <1>1, IdleRecord DEF OnSqlException
  <1>2. CASE ~calls[w].fresh
    <2> DEFINE c == calls[w]
               d == [c EXCEPT !.pc = "open", !.fresh = TRUE, !.conn = NoConn]
    <2>1. c \in Call /\ c.req \in Request
      BY Records DEF RecordOK
    <2>2. d \in Call /\ d.pc = "open" /\ d.conn = NoConn /\ d.req = c.req
      BY <2>1 DEF Call
    <2> QED
      BY <1>2, <2>1, <2>2 DEF OnSqlException, RecordOK
  <1> QED
    BY <1>1, <1>2

LEMMA RowsStayTyped ==
  ASSUME TypeOK, NEW r \in Request
  PROVE  /\ After(r) \in [Keys -> Values \cup {NoRow}]
         /\ Answer(r) \in Values \cup {NoRow}
  BY DEF TypeOK, After, Answer, Request

-----------------------------------------------------------------------------
(* Every step keeps PoolInv.                                               *)
Movement ==
  /\ OneUser' /\ NoLeak'
  /\ \A i \in 0 .. cur' - 1 : pool'[i] \in Conns

LEMMA StepInvoke ==
  ASSUME PoolInv, NEW w \in Threads, Invoke(w) PROVE PoolInv'
  <1>1. PICK r \in Request : Become(w, Begun(r))
    BY DEF Invoke
  <1> DEFINE c == Begun(r)
  <1>3. RecordOK(c) /\ c.conn = NoConn
    BY DEF RecordOK, Call, Begun
  <1> HIDE DEF c
  <1>4. /\ calls' \in [Threads -> Call] /\ \A v \in Threads : CallOK(v)'
        /\ calls'[w] = c /\ Conns0(w)
    BY <1>1, <1>3, BecomesRecord DEF c
  <1>5. calls[w].conn = NoConn
    BY Records DEF RecordOK, Invoke
  <1>6. Movement
    BY <1>3, <1>4, <1>5, NothingMoves DEF Conns0, Invoke, poolVars, Movement
  <1>7. TypeOK'
    BY <1>4, DBMapAssumption DEF PoolInv, TypeOK, PoolTypeOK, Invoke, poolVars
  <1> QED
    BY <1>4, <1>6, <1>7 DEF PoolInv, Movement

LEMMA StepGetPooled ==
  ASSUME PoolInv, NEW w \in Threads, GetPooled(w) PROVE PoolInv'
  <1>1. /\ calls[w] \in Call /\ calls[w].pc = "pop" /\ calls[w].conn = NoConn
        /\ calls[w].req \in Request
    BY Records DEF RecordOK, GetPooled
  <1>2. CASE /\ cur = 0
             /\ Become(w, [calls[w] EXCEPT !.pc = "open"])
             /\ UNCHANGED poolVars
    <2> DEFINE c == [calls[w] EXCEPT !.pc = "open"]
    <2>1. RecordOK(c) /\ c.conn = NoConn
      BY <1>1 DEF RecordOK, Call
    <2> HIDE DEF c
    <2>2. /\ calls' \in [Threads -> Call] /\ \A v \in Threads : CallOK(v)'
          /\ calls'[w] = c /\ Conns0(w)
      BY <1>2, <2>1, BecomesRecord DEF c
    <2>3. Movement
      BY <1>1, <1>2, <2>1, <2>2, NothingMoves DEF Conns0, poolVars, Movement
    <2>4. TypeOK'
      BY <1>2, <2>2 DEF PoolInv, TypeOK, PoolTypeOK, GetPooled, poolVars
    <2> QED
      BY <2>2, <2>3, <2>4 DEF PoolInv, Movement
  <1>3. CASE \E c \in Conns : /\ Pop(c)
                              /\ Become(w, [calls[w] EXCEPT !.pc = "run", !.conn = c])
    <2>1. PICK k \in Conns : /\ Pop(k)
                             /\ Become(w, [calls[w] EXCEPT !.pc = "run", !.conn = k])
      BY <1>3
    <2> DEFINE c == [calls[w] EXCEPT !.pc = "run", !.conn = k]
    <2>2. RecordOK(c) /\ c.conn = k
      BY <1>1, PoolAssumption DEF RecordOK, Call
    <2> HIDE DEF c
    <2>3. /\ calls' \in [Threads -> Call] /\ \A v \in Threads : CallOK(v)'
          /\ calls'[w] = c /\ Conns0(w)
      BY <2>1, <2>2, BecomesRecord DEF c
    <2>4. Movement
      BY <1>1, <2>1, <2>2, <2>3, PopMoves DEF Holds, Movement
    <2>5. cur' \in 0 .. PoolSize
      BY <2>1, PoolAssumption DEF PoolInv, TypeOK, PoolTypeOK, Pop
    <2>6. TypeOK'
      BY <2>1, <2>3, <2>5 DEF PoolInv, TypeOK, PoolTypeOK, GetPooled, Pop
    <2> QED
      BY <2>3, <2>4, <2>6 DEF PoolInv, Movement
  <1> QED
    BY <1>2, <1>3 DEF GetPooled

LEMMA StepGetFresh ==
  ASSUME PoolInv, NEW w \in Threads, GetFresh(w) PROVE PoolInv'
  <1>1. /\ calls[w] \in Call /\ calls[w].pc = "open" /\ calls[w].conn = NoConn
        /\ calls[w].req \in Request
    BY Records DEF RecordOK, GetFresh
  <1>2. CASE /\ Conns # opened
             /\ Open(NewConn)
             /\ Become(w, [calls[w] EXCEPT !.pc = "run", !.conn = NewConn])
             /\ UNCHANGED failures
    <2>1. NewConn \in Conns
      BY <1>2 DEF NewConn, PoolInv, TypeOK, PoolTypeOK
    <2> DEFINE c == [calls[w] EXCEPT !.pc = "run", !.conn = NewConn]
    <2>2. RecordOK(c) /\ c.conn = NewConn
      BY <1>1, <2>1, PoolAssumption DEF RecordOK, Call
    <2> HIDE DEF c
    <2>3. /\ calls' \in [Threads -> Call] /\ \A v \in Threads : CallOK(v)'
          /\ calls'[w] = c /\ Conns0(w)
      BY <1>2, <2>2, BecomesRecord DEF c
    <2>4. Movement
      BY <1>1, <1>2, <2>1, <2>2, <2>3, OpenMoves DEF Holds, Movement
    <2>5. TypeOK'
      BY <1>2, <2>1, <2>3 DEF PoolInv, TypeOK, PoolTypeOK, GetFresh, Open
    <2> QED
      BY <2>3, <2>4, <2>5 DEF PoolInv, Movement
  <1>3. CASE /\ Fails("refuse")
             /\ Become(w, OnSqlException(calls[w]))
             /\ UNCHANGED poolVars
    <2>1. RecordOK(OnSqlException(calls[w])) /\ OnSqlException(calls[w]).conn = NoConn
      BY <1>1, RetryRecord
    <2>2. /\ calls' \in [Threads -> Call] /\ \A v \in Threads : CallOK(v)'
          /\ calls'[w] = OnSqlException(calls[w]) /\ Conns0(w)
      BY <1>3, <2>1, BecomesRecord
    <2>3. Movement
      BY <1>1, <1>3, <2>1, <2>2, NothingMoves DEF Conns0, poolVars, Movement
    <2>4. TypeOK'
      BY <1>3, <2>2, DBMapAssumption
      DEF PoolInv, TypeOK, PoolTypeOK, GetFresh, poolVars, Fails
    <2> QED
      BY <2>2, <2>3, <2>4 DEF PoolInv, Movement
  <1> QED
    BY <1>2, <1>3 DEF GetFresh

LEMMA StepExecute ==
  ASSUME PoolInv, NEW w \in Threads, Execute(w) PROVE PoolInv'
  <1>1. /\ calls[w] \in Call /\ calls[w].pc = "run" /\ calls[w].conn # NoConn
        /\ calls[w].req \in Request
    BY Records DEF RecordOK, Execute
  <1>2. /\ After(calls[w].req) \in [Keys -> Values \cup {NoRow}]
        /\ Answer(calls[w].req) \in Values \cup {NoRow}
    BY <1>1, RowsStayTyped DEF PoolInv
  <1> DEFINE a == Answer(calls[w].req)
             c == [calls[w] EXCEPT !.pc = "release", !.res = a]
  <1> HIDE DEF a
  <1>3. RecordOK(c) /\ c.conn = calls[w].conn
    BY <1>1, <1>2 DEF RecordOK, Call, a
  <1>4. Become(w, c)
    BY DEF Execute, a
  <1> HIDE DEF c
  <1>5. /\ calls' \in [Threads -> Call] /\ \A v \in Threads : CallOK(v)'
        /\ calls'[w] = c /\ Conns0(w)
    BY <1>3, <1>4, BecomesRecord
  <1>6. Movement
    BY <1>3, <1>5, NothingMoves DEF Conns0, Execute, poolVars, Movement
  <1>7. TypeOK'
    BY <1>2, <1>5 DEF PoolInv, TypeOK, PoolTypeOK, Execute, poolVars
  <1> QED
    BY <1>5, <1>6, <1>7 DEF PoolInv, Movement

LEMMA ClosingKeepsType ==
  ASSUME PoolInv, NEW c, Close(c), UNCHANGED <<pool, cur>>
  PROVE  PoolTypeOK'
  BY DEF PoolInv, TypeOK, PoolTypeOK, Close

LEMMA StepExecuteFails ==
  ASSUME PoolInv, NEW w \in Threads, ExecuteFails(w) PROVE PoolInv'
  <1>1. /\ calls[w] \in Call /\ calls[w].pc = "run" /\ calls[w].conn # NoConn
        /\ calls[w].req \in Request
    BY Records DEF RecordOK, ExecuteFails
  <1>2. RecordOK(OnSqlException(calls[w])) /\ OnSqlException(calls[w]).conn = NoConn
    BY <1>1, RetryRecord
  <1>3. /\ calls' \in [Threads -> Call] /\ \A v \in Threads : CallOK(v)'
        /\ calls'[w] = OnSqlException(calls[w]) /\ Conns0(w)
    BY <1>2, BecomesRecord DEF ExecuteFails
  <1>4. Close(calls[w].conn) /\ UNCHANGED <<pool, cur, made>>
    BY DEF ExecuteFails
  <1>5. Movement
    BY <1>1, <1>2, <1>3, <1>4, CloseMoves DEF Holds, Movement
  <1>6. /\ rows' \in [Keys -> Values \cup {NoRow}]
        /\ failures' \in 0 .. MaxFailures
    BY <1>1, RowsStayTyped, DBMapAssumption DEF PoolInv, TypeOK, ExecuteFails, Fails
  <1>7. TypeOK'
    BY <1>3, <1>4, <1>6, ClosingKeepsType DEF PoolInv, TypeOK
  <1> QED
    BY <1>3, <1>5, <1>7 DEF PoolInv, Movement

LEMMA StepFieldFails ==
  ASSUME PoolInv, NEW w \in Threads, FieldFails(w) PROVE PoolInv'
  <1>1. /\ calls[w].pc = "run" /\ calls[w].conn # NoConn
    BY Records DEF RecordOK, FieldFails
  <1>2. RecordOK(IdleWith(Broken)) /\ IdleWith(Broken).conn = NoConn
    BY IdleRecord
  <1>3. /\ calls' \in [Threads -> Call] /\ \A v \in Threads : CallOK(v)'
        /\ calls'[w] = IdleWith(Broken) /\ Conns0(w)
    BY <1>2, BecomesRecord DEF FieldFails
  <1>4. Close(calls[w].conn) /\ UNCHANGED <<pool, cur, rows, made>>
    BY DEF FieldFails
  <1>5. Movement
    BY <1>1, <1>2, <1>3, <1>4, CloseMoves DEF Holds, Movement
  <1>6. failures' \in 0 .. MaxFailures
    BY DBMapAssumption DEF PoolInv, TypeOK, FieldFails, Fails
  <1>7. TypeOK'
    BY <1>3, <1>4, <1>6, ClosingKeepsType DEF PoolInv, TypeOK
  <1> QED
    BY <1>3, <1>5, <1>7 DEF PoolInv, Movement

LEMMA StepReleaseConn ==
  ASSUME PoolInv, NEW w \in Threads, ReleaseConn(w) PROVE PoolInv'
  <1>1. /\ calls[w].pc = "release" /\ calls[w].conn # NoConn
        /\ calls[w].conn \in Conns /\ calls[w].res \in Values \cup {NoRow, Failed, Broken}
    BY Records DEF RecordOK, ReleaseConn, Call
  <1> DEFINE c == IdleWith(calls[w].res)
  <1>2. RecordOK(c) /\ c.conn = NoConn
    BY <1>1, IdleRecord
  <1>3. Become(w, c) /\ UNCHANGED <<rows, made, failures>>
    BY DEF ReleaseConn
  <1> HIDE DEF c
  <1>4. /\ calls' \in [Threads -> Call] /\ \A v \in Threads : CallOK(v)'
        /\ calls'[w] = c /\ Conns0(w)
    BY <1>2, <1>3, BecomesRecord
  <1>5. CASE /\ cur < PoolSize
             /\ pool' = [pool EXCEPT ![cur] = calls[w].conn]
             /\ cur' = cur + 1
             /\ UNCHANGED <<opened, live>>
    <2>1. Movement
      BY <1>1, <1>2, <1>4, <1>5, PushMoves DEF Holds, Movement
    <2>2. pool \in [Slots -> Conns \cup {NoConn}] /\ cur \in 0 .. PoolSize
      BY DEF PoolInv, TypeOK, PoolTypeOK
    <2>3. cur' \in 0 .. PoolSize
      BY <1>5, <2>2, PoolAssumption
    <2>4. pool' \in [Slots -> Conns \cup {NoConn}]
      BY <1>1, <1>5, <2>2
    <2>5. TypeOK'
      BY <1>3, <1>4, <1>5, <2>3, <2>4 DEF PoolInv, TypeOK, PoolTypeOK
    <2> QED
      BY <1>4, <2>1, <2>5 DEF PoolInv, Movement
  <1>6. CASE Close(calls[w].conn) /\ UNCHANGED <<pool, cur>>
    <2>1. Movement
      BY <1>1, <1>2, <1>4, <1>6, CloseMoves DEF Holds, Movement
    <2>2. TypeOK'
      BY <1>3, <1>4, <1>6, ClosingKeepsType DEF PoolInv, TypeOK
    <2> QED
      BY <1>4, <2>1, <2>2 DEF PoolInv, Movement
  <1> QED
    BY <1>5, <1>6 DEF ReleaseConn, Release

LEMMA StepDropSessions ==
  ASSUME PoolInv, DropSessions PROVE PoolInv'
  <1>1. UNCHANGED <<pool, cur, opened, rows, calls, made>> /\ live' \subseteq opened
    BY DEF DropSessions, mapVars, PoolInv, TypeOK, PoolTypeOK
  <1>2. Movement
    BY <1>1, NothingMoves DEF Movement
  <1>3. \A v \in Threads : CallOK(v)'
    BY <1>1 DEF PoolInv, CallOK, Holds
  <1>4. TypeOK'
    BY <1>1, DBMapAssumption DEF PoolInv, TypeOK, PoolTypeOK, DropSessions, Fails
  <1> QED
    BY <1>2, <1>3, <1>4 DEF PoolInv, Movement

LEMMA NextPool == PoolInv /\ [Next]_vars => PoolInv'
  <1> SUFFICES ASSUME PoolInv, [Next]_vars PROVE PoolInv'
    OBVIOUS
  <1>1. CASE UNCHANGED vars
    <2>1. UNCHANGED <<pool, cur, opened, live, rows, calls, made, failures>>
      BY <1>1 DEF vars, poolVars, mapVars
    <2>2. Movement
      BY <2>1, NothingMoves DEF Movement
    <2> QED
      BY <2>1, <2>2 DEF PoolInv, Movement, TypeOK, PoolTypeOK, CallOK, Holds
  <1>2. CASE \E w \in Threads : Invoke(w) \/ Step(w)
    BY <1>2, StepInvoke, StepGetPooled, StepGetFresh, StepExecute, StepExecuteFails,
       StepFieldFails, StepReleaseConn DEF Step
  <1>3. CASE DropSessions
    BY <1>3, StepDropSessions
  <1>4. CASE Finished
    BY <1>1, <1>4 DEF Finished
  <1> QED
    BY <1>1, <1>2, <1>3, <1>4 DEF Next

(* Types, for any number of threads and any size of the pool.              *)
THEOREM MapTypeCorrect == Spec => []TypeOK
  BY InitPool, NextPool, PTL DEF Spec, PoolInv

(* A connection has one user (ConnectionFactory.get and release against    *)
(* the attempts of all threads).                                           *)
THEOREM PoolSafe == Spec => []OneUser
  BY InitPool, NextPool, PTL DEF Spec, PoolInv

(* No connection is lost, whatever fails (the finally clause of            *)
(* ConnWrapper.attempt, and release on a full pool).                       *)
THEOREM NothingLeaks == Spec => []NoLeak
  BY InitPool, NextPool, PTL DEF Spec, PoolInv

-----------------------------------------------------------------------------
(* Why one failure is hidden: before it every session lives, so that no    *)
(* first attempt fails; until the second one, what is left of first        *)
(* attempts may fail, but a second attempt runs on a session opened after  *)
(* the failure.                                                            *)
AttemptOK(w) ==
  /\ failures <= 1 /\ calls[w].pc \in {"idle", "release"} => calls[w].res # Failed
  /\ failures = 0 => ~calls[w].fresh
  /\ failures = 1 /\ calls[w].fresh /\ calls[w].pc = "run" => calls[w].conn \in live
  /\ failures = 1 /\ calls[w].fresh => calls[w].pc # "pop"

HiddenInv ==
  /\ failures = 0 => live = opened
  /\ \A w \in Threads : AttemptOK(w)

LEMMA InitHidden == Init => HiddenInv
  BY DBMapAssumption DEF Init, PoolInit, IdleWith, HiddenInv, AttemptOK

(* A step of thread w leaves the others' attempts as they are, when the    *)
(* sessions they use live on and no failure is added.                      *)
LEMMA OthersAttempts ==
  ASSUME PoolInv, HiddenInv, NEW w \in Threads, NEW c, Become(w, c),
         failures' = failures \/ failures' = failures + 1,
         failures' <= 1 =>
           \A v \in Threads : v # w /\ Holds(v) /\ calls[v].conn \in live
                               => calls[v].conn \in live'
  PROVE  /\ calls'[w] = c
         /\ \A v \in Threads : v # w => AttemptOK(v)'
  <1>1. /\ calls' = [calls EXCEPT ![w] = c] /\ DOMAIN calls = Threads
        /\ failures \in Nat
    BY DBMapAssumption DEF Become, PoolInv, TypeOK
  <1>2. \A v \in Threads : v # w => calls'[v] = calls[v]
    BY <1>1
  <1>3. ASSUME NEW v \in Threads, v # w PROVE AttemptOK(v)'
    <2>1. calls'[v] = calls[v] /\ AttemptOK(v) /\ CallOK(v)
      BY <1>2, <1>3 DEF HiddenInv, PoolInv
    <2>2. CASE failures' = failures
      BY <1>1, <1>3, <2>1, <2>2 DEF AttemptOK, CallOK
    <2>3. CASE failures' = failures + 1 /\ failures = 0
      BY <1>3, <2>1, <2>3 DEF AttemptOK
    <2>4. CASE failures' = failures + 1 /\ failures > 0
      BY <1>1, <1>3, <2>4 DEF AttemptOK
    <2> QED
      BY <1>1, <2>2, <2>3, <2>4
  <1> QED
    BY <1>1, <1>3

(* The call after a failed attempt: the first one is made again, and the   *)
(* second one is not the first failure.                                    *)
LEMMA RetryOK ==
  ASSUME PoolInv, HiddenInv, NEW w \in Threads, calls[w].pc \in {"open", "run"},
         failures' = failures + 1 \/ (failures' = failures /\ failures > 0
                                      /\ (calls[w].fresh => failures > 1)),
         calls'[w] = OnSqlException(calls[w])
  PROVE  AttemptOK(w)'
  <1>1. failures \in Nat /\ calls[w] \in Call /\ AttemptOK(w)
    BY DBMapAssumption DEF PoolInv, TypeOK, HiddenInv
  <1>2. CASE calls[w].fresh
    <2>1. failures' > 1
      BY <1>1, <1>2 DEF AttemptOK
    <2> QED
      BY <1>1, <2>1 DEF AttemptOK
  <1>3. CASE ~calls[w].fresh
    <2>1. calls'[w].pc = "open" /\ failures' > 0
      BY <1>1, <1>3 DEF OnSqlException, Call
    <2> QED
      BY <2>1 DEF AttemptOK
  <1> QED
    BY <1>2, <1>3

LEMMA HiddenInvoke ==
  ASSUME PoolInv, HiddenInv, NEW w \in Threads, Invoke(w) PROVE HiddenInv'
  <1>1. PICK r \in Request : Become(w, Begun(r))
    BY DEF Invoke
  <1>2. UNCHANGED <<opened, live, failures>>
    BY DEF Invoke, poolVars
  <1>3. calls'[w] = Begun(r) /\ \A v \in Threads : v # w => AttemptOK(v)'
    BY <1>1, <1>2, OthersAttempts
  <1>4. AttemptOK(w)'
    BY <1>3 DEF AttemptOK, Begun
  <1> QED
    BY <1>2, <1>3, <1>4 DEF HiddenInv

LEMMA HiddenGetPooled ==
  ASSUME PoolInv, HiddenInv, NEW w \in Threads, GetPooled(w) PROVE HiddenInv'
  <1>1. calls[w] \in Call /\ calls[w].pc = "pop" /\ AttemptOK(w)
    BY DEF PoolInv, TypeOK, HiddenInv, GetPooled
  <1>2. UNCHANGED <<opened, live, failures>>
    BY DEF GetPooled, poolVars, Pop
  <1>3. \E c \in Conns \cup {calls[w].conn} : \E q \in {"open", "run"} :
          Become(w, [calls[w] EXCEPT !.pc = q, !.conn = c])
    <2>1. [calls[w] EXCEPT !.pc = "open", !.conn = calls[w].conn]
            = [calls[w] EXCEPT !.pc = "open"]
      BY <1>1 DEF Call
    <2> QED
      BY <2>1 DEF GetPooled
  <1>4. PICK c \in Conns \cup {calls[w].conn} : \E q \in {"open", "run"} :
          Become(w, [calls[w] EXCEPT !.pc = q, !.conn = c])
    BY <1>3
  <1>5. PICK q \in {"open", "run"} : Become(w, [calls[w] EXCEPT !.pc = q, !.conn = c])
    BY <1>4
  <1>6. /\ calls'[w] = [calls[w] EXCEPT !.pc = q, !.conn = c]
        /\ \A v \in Threads : v # w => AttemptOK(v)'
    BY <1>2, <1>5, OthersAttempts
  <1>7. calls'[w].pc \in {"open", "run"} /\ calls'[w].fresh = calls[w].fresh
    BY <1>1, <1>6 DEF Call
  <1>8. AttemptOK(w)'
    BY <1>1, <1>2, <1>7 DEF AttemptOK
  <1> QED
    BY <1>2, <1>6, <1>8 DEF HiddenInv

LEMMA HiddenGetFresh ==
  ASSUME PoolInv, HiddenInv, NEW w \in Threads, GetFresh(w) PROVE HiddenInv'
  <1>1. calls[w] \in Call /\ calls[w].pc = "open" /\ AttemptOK(w) /\ failures \in Nat
    BY DBMapAssumption DEF PoolInv, TypeOK, HiddenInv, GetFresh
  <1>2. CASE /\ Conns # opened
             /\ Open(NewConn)
             /\ Become(w, [calls[w] EXCEPT !.pc = "run", !.conn = NewConn])
             /\ UNCHANGED failures
    <2>1. NewConn \in live' /\ live \subseteq live' /\ (live = opened => live' = opened')
      BY <1>2 DEF Open
    <2>2. /\ calls'[w] = [calls[w] EXCEPT !.pc = "run", !.conn = NewConn]
          /\ \A v \in Threads : v # w => AttemptOK(v)'
      BY <1>2, <2>1, OthersAttempts
    <2>3. /\ calls'[w].pc = "run" /\ calls'[w].conn = NewConn
          /\ calls'[w].fresh = calls[w].fresh
      BY <1>1, <2>2 DEF Call
    <2>4. AttemptOK(w)'
      BY <1>1, <1>2, <2>1, <2>3 DEF AttemptOK
    <2> QED
      BY <1>2, <2>1, <2>2, <2>4 DEF HiddenInv
  <1>3. CASE /\ Fails("refuse")
             /\ Become(w, OnSqlException(calls[w]))
             /\ UNCHANGED poolVars
    <2>1. failures' = failures + 1 /\ live' = live
      BY <1>3 DEF Fails, poolVars
    <2>2. /\ calls'[w] = OnSqlException(calls[w])
          /\ \A v \in Threads : v # w => AttemptOK(v)'
      BY <1>3, <2>1, OthersAttempts
    <2>3. AttemptOK(w)'
      BY <1>1, <2>1, <2>2, RetryOK
    <2> QED
      BY <1>1, <2>1, <2>2, <2>3 DEF HiddenInv
  <1> QED
    BY <1>2, <1>3 DEF GetFresh

LEMMA HiddenExecute ==
  ASSUME PoolInv, HiddenInv, NEW w \in Threads, Execute(w) PROVE HiddenInv'
  <1> DEFINE a == Answer(calls[w].req)
  <1>1. calls[w] \in Call /\ AttemptOK(w) /\ calls[w].req \in Request
    BY Records DEF HiddenInv, Execute, RecordOK
  <1>2. a # Failed
    BY <1>1, RowsStayTyped, DBMapAssumption DEF PoolInv
  <1>3. UNCHANGED <<opened, live, failures>>
    BY DEF Execute, poolVars
  <1>4. Become(w, [calls[w] EXCEPT !.pc = "release", !.res = a])
    BY DEF Execute
  <1> HIDE DEF a
  <1>5. /\ calls'[w] = [calls[w] EXCEPT !.pc = "release", !.res = a]
        /\ \A v \in Threads : v # w => AttemptOK(v)'
    BY <1>3, <1>4, OthersAttempts
  <1>6. /\ calls'[w].pc = "release" /\ calls'[w].res = a
        /\ calls'[w].fresh = calls[w].fresh
    BY <1>1, <1>5 DEF Call
  <1>7. AttemptOK(w)'
    BY <1>1, <1>2, <1>3, <1>6 DEF AttemptOK
  <1> QED
    BY <1>3, <1>5, <1>7 DEF HiddenInv

(* The connection that is closed is nobody else's.                         *)
LEMMA CloseSpares ==
  ASSUME PoolInv, NEW w \in Threads, Holds(w), Close(calls[w].conn)
  PROVE  \A v \in Threads : v # w /\ Holds(v) /\ calls[v].conn \in live
                             => calls[v].conn \in live'
  BY DEF PoolInv, OneUser, Close

LEMMA HiddenExecuteFails ==
  ASSUME PoolInv, HiddenInv, NEW w \in Threads, ExecuteFails(w) PROVE HiddenInv'
  <1>1. /\ calls[w] \in Call /\ calls[w].pc = "run" /\ AttemptOK(w) /\ failures \in Nat
        /\ Holds(w)
    BY DBMapAssumption DEF PoolInv, TypeOK, HiddenInv, ExecuteFails, CallOK
  <1>2. calls[w].conn \in opened
    BY <1>1 DEF PoolInv, NoLeak
  <1>3. \/ failures' = failures + 1
        \/ failures' = failures /\ calls[w].conn \notin live
    BY DEF ExecuteFails, Fails
  <1>4. failures' = failures => failures > 0 /\ (calls[w].fresh => failures > 1)
    BY <1>1, <1>2, <1>3 DEF HiddenInv, AttemptOK
  <1>5. Close(calls[w].conn) /\ Become(w, OnSqlException(calls[w]))
    BY DEF ExecuteFails
  <1>6. /\ calls'[w] = OnSqlException(calls[w])
        /\ \A v \in Threads : v # w => AttemptOK(v)'
    BY <1>1, <1>3, <1>5, CloseSpares, OthersAttempts
  <1>7. AttemptOK(w)'
    BY <1>1, <1>3, <1>4, <1>6, RetryOK
  <1> QED
    BY <1>1, <1>3, <1>4, <1>6, <1>7 DEF HiddenInv

LEMMA HiddenFieldFails ==
  ASSUME PoolInv, HiddenInv, NEW w \in Threads, FieldFails(w) PROVE HiddenInv'
  <1>1. Holds(w) /\ failures \in Nat
    BY DBMapAssumption DEF PoolInv, TypeOK, FieldFails, CallOK
  <1>2. /\ Close(calls[w].conn) /\ Become(w, IdleWith(Broken))
        /\ failures' = failures + 1
    BY DEF FieldFails, Fails
  <1>3. calls'[w] = IdleWith(Broken) /\ \A v \in Threads : v # w => AttemptOK(v)'
    BY <1>1, <1>2, CloseSpares, OthersAttempts
  <1>4. AttemptOK(w)'
    BY <1>3, DBMapAssumption DEF AttemptOK, IdleWith
  <1> QED
    BY <1>1, <1>2, <1>3, <1>4 DEF HiddenInv

LEMMA HiddenReleaseConn ==
  ASSUME PoolInv, HiddenInv, NEW w \in Threads, ReleaseConn(w) PROVE HiddenInv'
  <1> DEFINE a == calls[w].res
  <1>1. Holds(w) /\ calls[w].pc = "release" /\ AttemptOK(w)
    BY DEF PoolInv, HiddenInv, ReleaseConn, CallOK
  <1>2. Become(w, IdleWith(a)) /\ UNCHANGED failures
    BY DEF ReleaseConn
  <1>3. UNCHANGED <<opened, live>> \/ Close(calls[w].conn)
    BY DEF ReleaseConn, Release
  <1>4. \A v \in Threads : v # w /\ Holds(v) /\ calls[v].conn \in live
                          => calls[v].conn \in live'
    BY <1>1, <1>3, CloseSpares
  <1> HIDE DEF a
  <1>5. calls'[w] = IdleWith(a) /\ \A v \in Threads : v # w => AttemptOK(v)'
    BY <1>2, <1>4, OthersAttempts
  <1>6. AttemptOK(w)'
    BY <1>1, <1>2, <1>5 DEF AttemptOK, IdleWith, a
  <1> QED
    BY <1>2, <1>3, <1>5, <1>6 DEF HiddenInv, Close

LEMMA HiddenDropSessions ==
  ASSUME PoolInv, HiddenInv, DropSessions PROVE HiddenInv'
  <1>1. failures \in Nat /\ failures' = failures + 1 /\ calls' = calls
    BY DBMapAssumption DEF PoolInv, TypeOK, DropSessions, Fails, mapVars
  <1>2. ASSUME NEW w \in Threads PROVE AttemptOK(w)'
    <2>1. AttemptOK(w)
      BY DEF HiddenInv
    <2>2. CASE failures = 0
      BY <1>1, <2>1, <2>2 DEF AttemptOK
    <2>3. CASE failures > 0
      BY <1>1, <2>3 DEF AttemptOK
    <2> QED
      BY <1>1, <2>2, <2>3
  <1> QED
    BY <1>1, <1>2 DEF HiddenInv

LEMMA NextHidden == PoolInv /\ HiddenInv /\ [Next]_vars => HiddenInv'
  <1> SUFFICES ASSUME PoolInv, HiddenInv, [Next]_vars PROVE HiddenInv'
    OBVIOUS
  <1>1. CASE UNCHANGED vars
    BY <1>1 DEF vars, poolVars, mapVars, HiddenInv, AttemptOK
  <1>2. CASE \E w \in Threads : Invoke(w) \/ Step(w)
    BY <1>2, HiddenInvoke, HiddenGetPooled, HiddenGetFresh, HiddenExecute,
       HiddenExecuteFails, HiddenFieldFails, HiddenReleaseConn DEF Step
  <1>3. CASE DropSessions
    BY <1>3, HiddenDropSessions
  <1> QED
    BY <1>1, <1>2, <1>3 DEF Next, Finished

(* The first failure of the database, however many sessions it ends and    *)
(* whichever calls it meets, is seen by no caller of DBMap as a            *)
(* DBException (ConnWrapper.protect's second attempt).                     *)
THEOREM OneFailureIsHidden == Spec => []OneFailureHidden
  <1>1. HiddenInv => OneFailureHidden
    BY DEF HiddenInv, AttemptOK, OneFailureHidden
  <1> QED
    BY InitPool, NextPool, InitHidden, NextHidden, <1>1, PTL DEF Spec

-----------------------------------------------------------------------------
(* DBMap implements AtomicMap.  View(c) is the call AtomicMap sees of c.    *)
LEMMA ViewBecomes ==
  ASSUME PoolInv, NEW w \in Threads, NEW c, Become(w, c)
  PROVE  /\ MapCalls' = [MapCalls EXCEPT ![w] = View(c)]
         /\ MapCalls[w] = View(calls[w])
  <1>1. calls' = [calls EXCEPT ![w] = c] /\ DOMAIN calls = Threads
    BY DEF Become, PoolInv, TypeOK
  <1>2. \A v \in Threads : calls'[v] = IF v = w THEN c ELSE calls[v]
    BY <1>1
  <1>3. MapCalls' = [v \in Threads |-> View(IF v = w THEN c ELSE calls[v])]
    BY <1>2 DEF MapCalls, View, At
  <1> QED
    BY <1>3 DEF MapCalls

LEMMA ViewStays ==
  ASSUME PoolInv, NEW w \in Threads, NEW c, Become(w, c), View(c) = View(calls[w])
  PROVE  MapCalls' = MapCalls
  BY ViewBecomes DEF MapCalls

LEMMA ViewRunning ==
  ASSUME PoolInv, NEW w \in Threads, calls[w].pc \in {"pop", "open", "run"}
  PROVE  /\ View(calls[w]).at = IF calls[w].fresh THEN "second" ELSE "first"
         /\ View(calls[w]).req = calls[w].req
         /\ View(calls[w]).req \in Request
  BY DEF View, At, PoolInv, CallOK

LEMMA ViewIdle ==
  ASSUME NEW answer
  PROVE  View(IdleWith(answer)) = Atomic!IdleWith(answer)
  BY DEF View, At, IdleWith, Atomic!IdleWith

(* A failed attempt is a lost try.                                         *)
LEMMA ViewOnSqlException ==
  ASSUME PoolInv, NEW w \in Threads, calls[w].pc \in {"pop", "open", "run"}
  PROVE  View(OnSqlException(calls[w])) =
           IF View(calls[w]).at = "first"
           THEN [View(calls[w]) EXCEPT !.at = "second"]
           ELSE Atomic!IdleWith(Failed)
  <1>1. CASE calls[w].fresh
    BY <1>1, ViewRunning, ViewIdle DEF OnSqlException
  <1>2. CASE ~calls[w].fresh
    <2> DEFINE c == calls[w]
               d == [c EXCEPT !.pc = "open", !.fresh = TRUE, !.conn = NoConn]
    <2>1. c \in Call
      BY DEF PoolInv, TypeOK
    <2>2. d.pc = "open" /\ d.fresh = TRUE /\ d.req = c.req /\ d.res = c.res
      BY <2>1 DEF Call
    <2>3. View(d) = [at |-> "second", req |-> c.req, res |-> c.res]
      BY <2>2 DEF View, At
    <2>4. View(c) = [at |-> "first", req |-> c.req, res |-> c.res]
      BY <1>2 DEF View, At
    <2>5. OnSqlException(c) = d
      BY <1>2 DEF OnSqlException
    <2> HIDE DEF c, d
    <2> QED
      BY <2>3, <2>4, <2>5 DEF c
  <1> QED
    BY <1>1, <1>2

LEMMA InvokeRefines ==
  ASSUME PoolInv, NEW w \in Threads, Invoke(w) PROVE Atomic!Invoke(w)
  <1>1. PICK r \in Request : Become(w, Begun(r))
    BY DEF Invoke
  <1>2. View(Begun(r)) = [at |-> "first", req |-> r, res |-> NoRow]
    BY DEF View, At, Begun
  <1>3. View(calls[w]).at = "idle"
    BY DEF View, At, Invoke
  <1> QED
    BY <1>1, <1>2, <1>3, ViewBecomes
    DEF Atomic!Invoke, Atomic!Become, Atomic!Request, Request, Invoke

LEMMA GetPooledRefines ==
  ASSUME PoolInv, NEW w \in Threads, GetPooled(w) PROVE UNCHANGED <<rows, MapCalls>>
  <1>1. calls[w] \in Call /\ calls[w].pc = "pop"
    BY DEF PoolInv, TypeOK, GetPooled
  <1>2. CASE Become(w, [calls[w] EXCEPT !.pc = "open"])
    <2>1. View([calls[w] EXCEPT !.pc = "open"]) = View(calls[w])
      BY <1>1 DEF View, At, Call
    <2> QED
      BY <1>2, <2>1, ViewStays DEF GetPooled
  <1>3. CASE \E c \in Conns : Become(w, [calls[w] EXCEPT !.pc = "run", !.conn = c])
    <2>1. PICK c \in Conns : Become(w, [calls[w] EXCEPT !.pc = "run", !.conn = c])
      BY <1>3
    <2>2. View([calls[w] EXCEPT !.pc = "run", !.conn = c]) = View(calls[w])
      BY <1>1 DEF View, At, Call
    <2> QED
      BY <2>1, <2>2, ViewStays DEF GetPooled
  <1> QED
    BY <1>2, <1>3 DEF GetPooled

LEMMA GetFreshRefines ==
  ASSUME PoolInv, NEW w \in Threads, GetFresh(w)
  PROVE  Atomic!Lose(w) \/ UNCHANGED <<rows, MapCalls>>
  <1>1. calls[w] \in Call /\ calls[w].pc = "open"
    BY DEF PoolInv, TypeOK, GetFresh
  <1>2. CASE Become(w, [calls[w] EXCEPT !.pc = "run", !.conn = NewConn])
    <2>1. View([calls[w] EXCEPT !.pc = "run", !.conn = NewConn]) = View(calls[w])
      BY <1>1 DEF View, At, Call
    <2> QED
      BY <1>2, <2>1, ViewStays DEF GetFresh
  <1>3. CASE Become(w, OnSqlException(calls[w]))
    <2> DEFINE c == calls[w]
    <2>1. /\ MapCalls' = [MapCalls EXCEPT ![w] = View(OnSqlException(c))]
          /\ MapCalls[w] = View(c)
      BY <1>3, ViewBecomes
    <2>2. View(c).at \in {"first", "second"}
      BY <1>1, ViewRunning
    <2>3. View(OnSqlException(c)) = IF View(c).at = "first"
                                    THEN [View(c) EXCEPT !.at = "second"]
                                    ELSE Atomic!IdleWith(Failed)
      BY <1>1, ViewOnSqlException
    <2>4. UNCHANGED rows
      BY DEF GetFresh
    <2> HIDE DEF c
    <2> QED
      BY <2>1, <2>2, <2>3, <2>4 DEF Atomic!Lose, Atomic!Become
  <1> QED
    BY <1>2, <1>3 DEF GetFresh

LEMMA ExecuteRefines ==
  ASSUME PoolInv, NEW w \in Threads, Execute(w) PROVE Atomic!Apply(w)
  <1> DEFINE c == calls[w]
             d == [c EXCEPT !.pc = "release", !.res = Answer(c.req)]
  <1>1. c \in Call /\ c.pc = "run"
    BY DEF PoolInv, TypeOK, Execute
  <1>2. Become(w, d) /\ rows' = After(c.req)
    BY DEF Execute
  <1>3. View(d) = [at |-> "done", req |-> c.req, res |-> Answer(c.req)]
    <2>1. d.pc = "release" /\ d.req = c.req /\ d.res = Answer(c.req)
      BY <1>1 DEF Call
    <2> HIDE DEF c, d
    <2> QED
      BY <2>1 DEF View, At
  <1>4. Atomic!After(c.req) = After(c.req) /\ Atomic!Answer(c.req) = Answer(c.req)
    BY DEF Atomic!After, Atomic!Answer, After, Answer
  <1>5. MapCalls' = [MapCalls EXCEPT ![w] = View(d)] /\ MapCalls[w] = View(c)
    BY <1>2, ViewBecomes
  <1>6. View(c).at \in {"first", "second"} /\ View(c).req = c.req
    BY <1>1, ViewRunning
  <1> HIDE DEF c, d
  <1> QED
    BY <1>2, <1>3, <1>4, <1>5, <1>6 DEF Atomic!Apply, Atomic!Become

LEMMA ExecuteFailsRefines ==
  ASSUME PoolInv, NEW w \in Threads, ExecuteFails(w) PROVE Atomic!Lose(w)
  <1> DEFINE c == calls[w]
  <1>1. c \in Call /\ c.pc = "run"
    BY DEF PoolInv, TypeOK, ExecuteFails
  <1>2. Become(w, OnSqlException(c))
    BY DEF ExecuteFails
  <1>3. UNCHANGED rows \/ ("lost" \in Faults /\ rows' = Atomic!After(c.req))
    BY DEF ExecuteFails, Fails, After, Atomic!After
  <1>4. /\ MapCalls' = [MapCalls EXCEPT ![w] = View(OnSqlException(c))]
        /\ MapCalls[w] = View(c)
    BY <1>2, ViewBecomes
  <1>5. View(c).at \in {"first", "second"} /\ View(c).req = c.req
    BY <1>1, ViewRunning
  <1>6. View(OnSqlException(c)) = IF View(c).at = "first"
                                  THEN [View(c) EXCEPT !.at = "second"]
                                  ELSE Atomic!IdleWith(Failed)
    BY <1>1, ViewOnSqlException
  <1> HIDE DEF c
  <1> QED
    BY <1>3, <1>4, <1>5, <1>6 DEF Atomic!Lose, Atomic!Become

LEMMA FieldFailsRefines ==
  ASSUME PoolInv, NEW w \in Threads, FieldFails(w) PROVE Atomic!GiveUp(w)
  <1>1. calls[w].pc = "run" /\ Become(w, IdleWith(Broken)) /\ UNCHANGED rows
    BY DEF FieldFails
  <1> QED
    BY <1>1, ViewBecomes, ViewRunning, ViewIdle DEF Atomic!GiveUp, Atomic!Become

LEMMA ReleaseConnRefines ==
  ASSUME PoolInv, NEW w \in Threads, ReleaseConn(w) PROVE Atomic!Return(w)
  <1>1. /\ calls[w].pc = "release" /\ UNCHANGED rows
        /\ Become(w, IdleWith(calls[w].res))
    BY DEF ReleaseConn
  <1>2. View(calls[w]).at = "done" /\ View(calls[w]).res = calls[w].res
    BY <1>1 DEF View, At
  <1> QED
    BY <1>1, <1>2, ViewBecomes, ViewIdle DEF Atomic!Return, Atomic!Become

LEMMA NextRefines ==
  PoolInv /\ [Next]_vars => [Atomic!Next]_<<rows, MapCalls>>
  <1> SUFFICES ASSUME PoolInv, [Next]_vars
               PROVE  Atomic!Next \/ UNCHANGED <<rows, MapCalls>>
    OBVIOUS
  <1>1. ASSUME UNCHANGED <<rows, calls>> PROVE UNCHANGED <<rows, MapCalls>>
    BY <1>1 DEF MapCalls, View, At
  <1>2. CASE \E w \in Threads : Invoke(w) \/ Step(w)
    BY <1>2, InvokeRefines, GetPooledRefines, GetFreshRefines, ExecuteRefines,
       ExecuteFailsRefines, FieldFailsRefines, ReleaseConnRefines
    DEF Step, Atomic!Next
  <1>3. CASE DropSessions
    BY <1>1, <1>3 DEF DropSessions, mapVars
  <1>4. CASE UNCHANGED vars
    BY <1>1, <1>4 DEF vars, mapVars
  <1> QED
    BY <1>2, <1>3, <1>4 DEF Next, Finished

(* DBMap.get, put and remove, retried by ConnWrapper.protect on pooled and *)
(* fresh connections, are those of an atomic map whose calls are tried at  *)
(* most twice.                                                             *)
THEOREM DBMapIsAtomicMap == Spec => AtomicSpec
  <1>1. Init => Atomic!Init
    BY DEF Init, Atomic!Init, MapCalls, View, At, IdleWith, Atomic!IdleWith
  <1> QED
    BY <1>1, InitPool, NextPool, NextRefines, PTL DEF Spec, AtomicSpec, Atomic!Spec
=============================================================================
