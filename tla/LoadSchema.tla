----------------------------- MODULE LoadSchema -----------------------------
(***************************************************************************)
(* The upgrade of the database schema at start: scripts schema_0.sql to    *)
(* schema_7.sql, statement by statement, each committed by itself.  A      *)
(* statement marked @ may fail.  Every script ends by setting the version; *)
(* the version read at start tells which scripts are left to run.          *)
(*                                                                         *)
(* Four of the ten tables stand for all: dmaap for those that no script    *)
(* alters (mr_client), feed for those that script 2 alters (dcae_location, *)
(* dr_node, dr_pub, dr_sub, mr_cluster), topic and mirror_maker for        *)
(* themselves.  The shape of a table is the last script that made or       *)
(* altered it; the two alters of script 3, both on mirror_maker, are one    *)
(* statement, since with @ a run that repeats one ends as the first did.    *)
(***************************************************************************)
EXTENDS Integers, Sequences

CONSTANTS NoRow,       \* no row in table dmaap
          MaxFailures, \* bound: failures of the database and of AAF
          Faults       \* the failures there may be

VARIABLES schVer,   \* the row of dmaapbc_sch_ver
          shape,    \* the shape of each table
          stored,   \* the tables, but for dmaap, that have the rows put there
          row,      \* the row of dmaap
          boot,     \* the process: its stage, and the script and statement it runs
          blind,    \* has a version that is there once not been read?
          skipped,  \* has a statement with @ once failed for another reason?
          failures  \* failures so far

schemaVars == <<schVer, shape, stored, row>>

NoTable == -2      \* there is no table dmaapbc_sch_ver
NoVersion == -1    \* it is empty
Missing == 0       \* the shape of a table that is not there
LastScript == 7

Tables == {"dmaap", "feed", "topic", "mirror_maker"}
Stages == {"down", "getVer", "script", "tables", "init", "defaults", "bootPerm",
           "bootGrant", "serving"}

SchemaTypeOK ==
  /\ schVer \in NoTable .. LastScript
  /\ shape \in [Tables -> Missing .. LastScript]
  /\ stored \subseteq Tables \ {"dmaap"}
  /\ boot \in [pc : Stages, n : 0 .. LastScript, i : 1 .. 10]
  /\ blind \in BOOLEAN /\ skipped \in BOOLEAN
  /\ failures \in 0 .. MaxFailures

At(stage)       == [pc |-> stage, n |-> 0, i |-> 1]
Statement(n, i) == [pc |-> "script", n |-> n, i |-> i]
Failure(kind) == kind \in Faults /\ failures < MaxFailures /\ failures' = failures + 1

-----------------------------------------------------------------------------
(* The scripts: what a statement does, to which table, and its @.          *)
Drop(t)    == [does |-> "drop", table |-> t, at |-> TRUE]
Create(t)  == [does |-> "create", table |-> t, at |-> FALSE]
Alter(t)   == [does |-> "alter", table |-> t, at |-> TRUE]
Delete(t)  == [does |-> "delete", table |-> t, at |-> TRUE]
Version(d) == [does |-> d, table |-> "dmaapbc_sch_ver", at |-> d = "dropVersion"]

(* Mutant: the tables are not dropped before they are made.                *)
MakeTablesOnce == <<Create("dmaap"), Create("feed"), Create("topic"), Create("mirror_maker")>>

DropTables == <<Drop("dmaap"), Drop("feed"), Drop("topic"), Drop("mirror_maker")>>
MakeTables == <<Drop("dmaap"), Create("dmaap"), Drop("feed"), Create("feed"),
                Drop("topic"), Create("topic"), Drop("mirror_maker"), Create("mirror_maker")>>

(* Mutant: the version is set before the changes.                          *)
VersionFirst(changes) == <<Version("setVersion")>> \o changes

VersionLast(changes) == changes \o <<Version("setVersion")>>

Script(n) ==
  CASE n = 0        -> DropTables \o <<Version("dropVersion"), Version("createVersion"),
                                       Version("insertVersion")>>
    [] n = 1        -> VersionLast(MakeTables)
    [] n = 2        -> VersionLast(<<Alter("feed"), Alter("topic"), Alter("mirror_maker")>>)
    [] n = 3        -> VersionLast(<<Alter("mirror_maker"), Delete("mirror_maker")>>)
    [] n \in {4, 6} -> VersionLast(<<Drop("mirror_maker"), Create("mirror_maker")>>)
    [] n = 5        -> VersionLast(<<Delete("mirror_maker")>>)
    [] n = 7        -> VersionLast(<<Alter("topic")>>)

(* Does the statement fail on the database as it is?                       *)
Inapplicable(s, n) ==
  CASE s.does \in {"drop", "delete"} -> shape[s.table] = Missing
    [] s.does = "create"             -> shape[s.table] # Missing
    [] s.does = "alter"              -> shape[s.table] \in {Missing, n}
    [] s.does = "createVersion"      -> schVer # NoTable
    [] OTHER                         -> schVer = NoTable

(* stmt.execute.                                                           *)
Execute(s, n) ==
  /\ schVer' = CASE s.does = "dropVersion"                  -> NoTable
                 [] s.does = "createVersion"                -> NoVersion
                 [] s.does = "insertVersion"                -> 0
                 [] s.does = "setVersion" /\ schVer = n - 1 -> n
                 [] OTHER                                   -> schVer
  /\ shape' = [t \in Tables |->
                 CASE s.table = t /\ s.does = "drop"                -> Missing
                   [] s.table = t /\ s.does \in {"create", "alter"} -> n
                   [] OTHER                                         -> shape[t]]
  /\ stored' = IF s.does \in {"drop", "delete"} THEN stored \ {s.table} ELSE stored
  /\ row' = IF s = Drop("dmaap") THEN NoRow ELSE row

-----------------------------------------------------------------------------
(* upgrade: get a connection, whose failure ends the upgrade, and read the *)
(* version; whatever goes wrong with that, it is -1.                       *)
ReadVersion ==
  /\ boot.pc = "getVer"
  /\ \/ /\ LET n == IF schVer < 0 THEN 0 ELSE schVer + 1
           IN boot' = IF n > LastScript THEN At("tables")
                      ELSE Statement(n, 1)
        /\ UNCHANGED <<blind, failures>>
     \/ /\ Failure("version")
        /\ boot' = Statement(0, 1)
        /\ blind' = (blind \/ schVer >= 0)
     \/ /\ Failure("version")
        /\ boot' = At("tables")
        /\ UNCHANGED blind
  /\ UNCHANGED <<schemaVars, skipped>>

NextStatement == boot' = Statement(boot.n, boot.i + 1)

(* A statement of the script, and what becomes of an SQLException: the     *)
(* next statement with @, the end of the upgrade without.                  *)
RunStatement ==
  LET s == Script(boot.n)[boot.i] IN
  /\ boot.pc = "script"
  /\ boot.i <= Len(Script(boot.n))
  /\ \/ /\ ~Inapplicable(s, boot.n)
        /\ Execute(s, boot.n)
        /\ NextStatement
        /\ UNCHANGED <<skipped, failures>>
     \/ /\ Inapplicable(s, boot.n)
        /\ IF s.at THEN NextStatement ELSE boot' = At("tables")
        /\ UNCHANGED <<schemaVars, skipped, failures>>
     \/ /\ ~s.at
        /\ Failure("statement")
        /\ boot' = At("tables")
        /\ UNCHANGED <<schemaVars, skipped>>
     \/ /\ s.at /\ ~Inapplicable(s, boot.n)
        /\ Failure("ignored")
        /\ NextStatement
        /\ skipped' = TRUE
        /\ UNCHANGED schemaVars
  /\ UNCHANGED blind

(* The end of a script: the version, read again, must be its number.       *)
EndScript ==
  /\ boot.pc = "script"
  /\ boot.i > Len(Script(boot.n))
  /\ \/ /\ boot' = IF schVer = boot.n /\ boot.n < LastScript
                   THEN Statement(boot.n + 1, 1)
                   ELSE At("tables")
        /\ UNCHANGED failures
     \/ /\ Failure("version")
        /\ boot' = At("tables")
  /\ UNCHANGED <<schemaVars, blind, skipped>>

(* The constructors of DBSingleton and DBMap end the process when a table  *)
(* is missing or cannot be looked at; an upgrade that failed does not.     *)
OpenTables ==
  /\ boot.pc = "tables"
  /\ \/ /\ boot' = IF \A t \in Tables : shape[t] # Missing
                   THEN At("init") ELSE At("down")
        /\ UNCHANGED failures
     \/ /\ Failure("statement")
        /\ boot' = At("down")
  /\ UNCHANGED <<schemaVars, blind, skipped>>

-----------------------------------------------------------------------------
(* The shapes after scripts 0 .. v.                                        *)
Makes(n, t) == \E i \in 1 .. Len(Script(n)) :
                 Script(n)[i].table = t /\ Script(n)[i].does \in {"create", "alter"}
ShapeAt(v) == [t \in Tables |->
                 IF \E n \in 1 .. v : Makes(n, t)
                 THEN CHOOSE n \in 1 .. v : /\ Makes(n, t)
                                            /\ \A m \in n + 1 .. v : ~Makes(m, t)
                 ELSE Missing]
=============================================================================
