--------------------------- MODULE DmaapInstance ---------------------------
(***************************************************************************)
(* The life of a process around its database: upgrade of the schema, the   *)
(* static initialisation of DatabaseClass, Main, requests for the dmaap    *)
(* resource, and its end at any point, after which it is started again.    *)
(***************************************************************************)
EXTENDS DmaapService

CONSTANTS OldVersions,  \* versions of the schema an earlier release has left
          DefaultNames, \* values the property DmaapName may have at a start
          MaxCrashes    \* bound: ends of the process from outside

ASSUME InstanceAssumption ==
  /\ "" \notin Names /\ "boot" \notin Names /\ Null \notin Names
  /\ NoRow \notin Row
  /\ Bodies \subseteq [ver : Versions, name : Names, st : Statuses]
  /\ OldVersions \subseteq NoTable .. LastScript
  /\ DefaultNames \subseteq Names \cup {""}
  /\ MaxFailures \in Nat /\ MaxRequests \in Nat /\ MaxCrashes \in Nat
  /\ MgtActions \in Seq({"create", "destroy", "view", "pub", "sub"})
  /\ Len(MgtActions) > 0

VARIABLE crashes    \* crashes so far

vars == <<schemaVars, boot, blind, skipped, failures, obj, aafVars, rq, requests, crashes>>

TypeOK == SchemaTypeOK /\ DmaapTypeOK /\ crashes \in 0 .. MaxCrashes

NewRow(name, st) == [ver |-> "0", name |-> name, st |-> st]

(* A database without tables, or one that an earlier release has used.     *)
Init ==
  /\ schVer \in OldVersions
  /\ shape = ShapeAt(schVer)
  /\ stored = IF schVer < 1 THEN {} ELSE Tables \ {"dmaap"}
  /\ row \in IF schVer < 1 THEN {NoRow}
             ELSE {NewRow("", "NEW")} \cup {[b EXCEPT !.st = "NEW"] : b \in Bodies}
  /\ boot = At("down") /\ blind = FALSE /\ skipped = FALSE /\ failures = 0
  /\ obj = [ver |-> Null, name |-> "", st |-> Null]
  /\ envPerms = {} /\ envGrants = {} /\ mgtPerms = {} /\ mgtGrants = {}
  /\ rq = Idle /\ requests = 0 /\ crashes = 0

-----------------------------------------------------------------------------
Start ==
  /\ boot.pc = "down"
  /\ boot' = At("getVer")
  /\ UNCHANGED <<schemaVars, blind, skipped, failures, obj, aafVars, rq, requests, crashes>>

Upgrade ==
  /\ ReadVersion \/ RunStatement \/ EndScript \/ OpenTables
  /\ UNCHANGED <<obj, aafVars, rq, requests, crashes>>

(* dmaap.init: a row, unless there is one.                                 *)
InitRow ==
  /\ boot.pc = "init"
  /\ row' = IF row = NoRow THEN NewRow("", "NEW") ELSE row
  /\ obj' = row'
  /\ boot' = At("defaults")
  /\ UNCHANGED <<schVer, shape, stored, blind, skipped, failures, aafVars, rq, requests, crashes>>

(* Mutant: the defaults replace the row at every start.                    *)
SetDefaultsAlways ==
  /\ boot.pc = "defaults"
  /\ \E name \in DefaultNames : row' = NewRow(name, "NEW")
  /\ obj' = row'
  /\ boot' = At(IF row'.name = "" THEN "bootPerm" ELSE "serving")
  /\ UNCHANGED <<schVer, shape, stored, blind, skipped, failures, aafVars, rq, requests, crashes>>

(* The initial data of a row of version 0; Main.                           *)
SetDefaults ==
  /\ boot.pc = "defaults"
  /\ IF row.ver = "0"
     THEN \E name \in DefaultNames : row' = NewRow(name, "NEW")
     ELSE UNCHANGED row
  /\ obj' = row'
  /\ boot' = At(IF row'.name = "" THEN "bootPerm" ELSE "serving")
  /\ UNCHANGED <<schVer, shape, stored, blind, skipped, failures, aafVars, rq, requests, crashes>>

(* setBootMap.                                                             *)
BootPerm ==
  /\ boot.pc = "bootPerm"
  /\ \/ envPerms' = envPerms \cup {"boot"} /\ boot' = At("bootGrant") /\ UNCHANGED <<failures, rq>>
     \/ Refused /\ boot' = At("bootGrant") /\ UNCHANGED <<envPerms, rq>>
     \/ Exits /\ UNCHANGED envPerms
  /\ UNCHANGED <<schemaVars, blind, skipped, obj, envGrants, mgtPerms, mgtGrants, requests, crashes>>

BootGrant ==
  /\ boot.pc = "bootGrant"
  /\ \/ /\ envGrants' = envGrants \cup (envPerms \cap {"boot"})
        /\ boot' = At("serving") /\ UNCHANGED <<failures, rq>>
     \/ Refused /\ boot' = At("serving") /\ UNCHANGED <<envGrants, rq>>
     \/ Exits /\ UNCHANGED envGrants
  /\ UNCHANGED <<schemaVars, blind, skipped, obj, envPerms, mgtPerms, mgtGrants, requests, crashes>>

(* The other services of a server put rows into their tables.  A bridge    *)
(* can be put into mirror_maker as script 6 makes it only: before that     *)
(* mm_name is not its key, and before script 3 vectors has no SQL type.    *)
PutRows ==
  /\ boot.pc = "serving"
  /\ stored' = stored \cup {t \in Tables \ {"dmaap"} : t = "mirror_maker" => shape[t] = 6}
  /\ stored' # stored
  /\ UNCHANGED <<schVer, shape, row, boot, blind, skipped, failures, obj, aafVars, rq,
                 requests, crashes>>

(* The process is killed.                                                  *)
Crash ==
  /\ boot.pc # "down" /\ crashes < MaxCrashes
  /\ Down
  /\ crashes' = crashes + 1
  /\ UNCHANGED <<schemaVars, blind, skipped, failures, obj, aafVars, requests>>

Boot == Start \/ Upgrade \/ InitRow \/ SetDefaults \/ BootPerm \/ BootGrant
Next == Boot \/ (Serve /\ UNCHANGED crashes) \/ PutRows \/ Crash

(* A start goes on by itself, but for the calls of AAF, whose connection   *)
(* has no time-out.                                                        *)
WaitsForAaf == boot.pc \in {"bootPerm", "bootGrant"}
Fairness == WF_vars(Boot /\ ~WaitsForAaf)
Spec == Init /\ [][Next]_vars /\ Fairness

-----------------------------------------------------------------------------
(* The version tells what the tables are, whatever starts were cut short:   *)
(* those of the scripts up to it, but for what the next script has begun.  *)
(* (LoadSchema; unless the version was not read, or a statement with @     *)
(* failed for another reason than it expects.)                             *)
SchemaOfVersion ==
  schVer >= 0 /\ ~blind /\ ~skipped =>
    \A t \in Tables :
      \/ shape[t] = ShapeAt(schVer)[t]
      \/ /\ schVer < LastScript
         /\ Makes(schVer + 1, t)
         /\ shape[t] \in {Missing, schVer + 1}

(* Once the schema has a version above 0, neither an upgrade nor a start   *)
(* loses what a server has stored: tables keep their rows, but for the     *)
(* bridges that scripts 3 to 6 clear, and settings whose version is not 0  *)
(* change by requests only (LoadSchema, DatabaseClass).  A server also     *)
(* serves after an upgrade that failed in the last statement of script 1;  *)
(* what it stores at version 0 is dropped when the next start runs it.     *)
RowsKept ==
  [][schVer > 0 /\ ~blind' =>
       /\ stored \ (IF schVer < 6 THEN {"mirror_maker"} ELSE {}) \subseteq stored'
       /\ row # NoRow /\ row.ver # "0" /\ row' # row => rq # Idle]_vars

(* The settings a PUT has provisioned are not replaced by a start.         *)
ProvisionedKept ==
  [][~blind' /\ row # NoRow /\ row.st = "VALID" /\ row' # row => rq # Idle]_vars

(* A name whose row is VALID is provisioned: the topic manager has every   *)
(* grant, though calls are refused, the process ends between the row and   *)
(* the provisioning, and the same PUT is made again (DmaapService).        *)
ValidIsProvisioned ==
  row # NoRow /\ row.st = "VALID" =>
    \A a \in Actions : <<row.name, a>> \in mgtGrants

(* The permissions on the API are made for the name of the request, which  *)
(* setEnvMap does not get as an argument but reads back (ApiPerms).        *)
EnvMapForNewName ==
  [][rq # Idle /\ rq'.pc = "envGrant" /\ rq.pc = "envPerm" => rq'.env = rq.body.name]_vars

(* However many starts were cut short by failures, crashes and exits, once *)
(* they stop the server comes to serve, unless a version was not read or   *)
(* AAF never answers (LoadSchema, DatabaseClass, Main).                    *)
EventuallyServing == <>blind \/ []<>(boot.pc = "serving") \/ <>[]WaitsForAaf
=============================================================================
