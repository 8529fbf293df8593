------------------------- MODULE ConnectionFactory -------------------------
(***************************************************************************)
(* The pool of database connections: an array of slots filled from the     *)
(* bottom, and the sessions behind the connections.  get and release hold  *)
(* the monitor while they touch the array; a new connection is opened, and *)
(* one that does not fit is closed, outside of it.                         *)
(***************************************************************************)
EXTENDS Integers

CONSTANTS Conns,     \* identities of connections
          NoConn,    \* null
          PoolSize   \* pool.length

ASSUME PoolAssumption == /\ NoConn \notin Conns
                         /\ PoolSize \in Nat \ {0}

VARIABLES pool,      \* the array; slots from cur on hold what was popped
          cur,       \* number of slots in use
          opened,    \* connections opened and not closed by this process
          live       \* those of them whose session the database still has

poolVars == <<pool, cur, opened, live>>
Slots    == 0 .. PoolSize - 1
Pooled   == {pool[i] : i \in 0 .. cur - 1}

PoolTypeOK ==
  /\ pool \in [Slots -> Conns \cup {NoConn}]
  /\ cur \in 0 .. PoolSize
  /\ opened \subseteq Conns
  /\ live \subseteq opened

PoolInit ==
  /\ pool = [i \in Slots |-> NoConn]
  /\ cur = 0
  /\ opened = {} /\ live = {}

(* Mutant: the slot below the top is handed out.                           *)
PopBelow(c) ==
  /\ cur > 0
  /\ c = pool[IF cur > 1 THEN cur - 2 ELSE 0]
  /\ cur' = cur - 1
  /\ UNCHANGED <<pool, opened, live>>

(* get(false) with something in the pool: the caller gets c.               *)
Pop(c) ==
  /\ cur > 0
  /\ c = pool[cur - 1]
  /\ cur' = cur - 1
  /\ UNCHANGED <<pool, opened, live>>

(* DriverManager.getConnection succeeds: a new connection.  Which of the   *)
(* unused identities it gets makes no difference.                          *)
NewConn == CHOOSE c \in Conns : c \notin opened

Open(c) ==
  /\ c \notin opened
  /\ opened' = opened \cup {c}
  /\ live' = live \cup {c}
  /\ UNCHANGED <<pool, cur>>

Close(c) ==
  /\ opened' = opened \ {c}
  /\ live' = live \ {c}

(* Mutant: a connection that does not fit is forgotten, not closed.        *)
ReleaseForgets(c) ==
  \/ /\ cur < PoolSize
     /\ pool' = [pool EXCEPT ![cur] = c]
     /\ cur' = cur + 1
     /\ UNCHANGED <<opened, live>>
  \/ /\ cur = PoolSize
     /\ UNCHANGED poolVars

(* Mutant: the bound is off by one.                                        *)
ReleaseBeyond(c) ==
  \/ /\ cur <= PoolSize
     /\ pool' = [pool EXCEPT ![cur] = c]
     /\ cur' = cur + 1
     /\ UNCHANGED <<opened, live>>
  \/ /\ cur > PoolSize
     /\ Close(c)
     /\ UNCHANGED <<pool, cur>>

(* release: into the pool, or closed when the pool is full.                *)
Release(c) ==
  \/ /\ cur < PoolSize
     /\ pool' = [pool EXCEPT ![cur] = c]
     /\ cur' = cur + 1
     /\ UNCHANGED <<opened, live>>
  \/ /\ cur = PoolSize
     /\ Close(c)
     /\ UNCHANGED <<pool, cur>>
=============================================================================
