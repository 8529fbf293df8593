---------------------------- MODULE DmaapService ----------------------------
(***************************************************************************)
(* The dmaap resource: GET, POST and PUT of the settings of the instance,  *)
(* which live in the one row of table dmaap and in one object of the       *)
(* process that every read fills anew (DBSingleton).  A POST or PUT that   *)
(* changes the name provisions AAF for it: permissions on the API for its  *)
(* roles, permissions on topics for the topic manager.  One request at a   *)
(* time.                                                                   *)
(***************************************************************************)
EXTENDS LoadSchema

CONSTANTS Names,       \* dmaapName
          Null,        \* a field that a body does not have
          Bodies,      \* of POST and PUT
          MgtActions,  \* sequence: the actions on topics of the topic manager
          MaxRequests  \* bound: requests

VARIABLES obj,         \* the object of DBSingleton
          envPerms,    \* names with a permission on the API
          envGrants,   \* names whose permission the roles have
          mgtPerms,    \* <<name, action>>: permissions on topics
          mgtGrants,   \* those that the topic manager has
          rq,          \* the request being served
          requests     \* number of requests so far

aafVars == <<envPerms, envGrants, mgtPerms, mgtGrants>>

Versions == {"0", "1", Null}
Statuses == {"NEW", "VALID", "INVALID", Null}
Row      == [ver : Versions, name : Names \cup {""}, st : Statuses]
Actions  == {MgtActions[i] : i \in DOMAIN MgtActions}
EnvNames == Names \cup {"", "boot"}

Idle == [pc |-> "idle"]
Request ==
  [pc : {"check", "update", "envPerm", "envGrant", "mgtPerm", "mgtGrant", "mma", "status"},
   op : {"post", "put"}, body : Bodies, env : EnvNames,
   i : 1 .. Len(MgtActions) + 1, wrong : BOOLEAN]

DmaapTypeOK ==
  /\ row \in Row \cup {NoRow}
  /\ obj \in Row
  /\ envPerms \subseteq EnvNames /\ envGrants \subseteq envPerms
  /\ mgtPerms \subseteq (Names \cup {""}) \X Actions /\ mgtGrants \subseteq mgtPerms
  /\ rq \in Request \cup {Idle, [pc |-> "get"]}
  /\ requests \in 0 .. MaxRequests

-----------------------------------------------------------------------------
Down == /\ boot' = At("down")
        /\ rq' = Idle

(* AafService.addPerm and addGrant: 201 or 409, another code, or 401 or    *)
(* 403, which end the process.                                             *)
Refused == Failure("aaf")
Exits   == Failure("exit") /\ Down

(* DBSingleton.get: the row, through the object.                           *)
Get == obj' = row

Arrive ==
  /\ boot.pc = "serving" /\ rq = Idle
  /\ \/ /\ rq' = [pc |-> "get"]
        /\ UNCHANGED requests
     \/ /\ requests < MaxRequests
        /\ requests' = requests + 1
        /\ \E op \in {"post", "put"}, b \in Bodies :
             rq' = [pc |-> "check", op |-> op, body |-> b, env |-> "", i |-> 1, wrong |-> FALSE]
  /\ UNCHANGED <<schemaVars, aafVars, boot, blind, skipped, failures, obj>>

Busy(pc) == boot.pc = "serving" /\ rq # Idle /\ rq.pc = pc
Goto(pc) == rq' = [rq EXCEPT !.pc = pc]

GetDmaap ==
  /\ Busy("get")
  /\ Get
  /\ rq' = Idle
  /\ UNCHANGED <<schemaVars, aafVars, boot, blind, skipped, failures, requests>>

(* Mutant: a new name is no reason to provision.                           *)
TriggersSameName(d, b) == d.st # "VALID" \/ d.ver = "0"

(* The triggers of updateDmaap.  A version that is null ends the request   *)
(* with an exception when it is looked at.                                 *)
Triggers(d, b) == d.st # "VALID" \/ b.name # d.name \/ d.ver = "0"
Throws(d, b)   == d.ver = Null /\ (rq.op = "post" \/ (d.st = "VALID" /\ b.name = d.name))

(* The first get and tests of addDmaap and updateDmaap.                    *)
Check ==
  /\ Busy("check")
  /\ Get
  /\ CASE Throws(row, rq.body)                     -> rq' = Idle
       [] rq.op = "post" /\ ~Throws(row, rq.body)  ->
            IF row.ver = "0" THEN Goto("update") ELSE rq' = Idle
       [] rq.op = "put" /\ ~Throws(row, rq.body)   ->
            Goto(IF Triggers(row, rq.body) THEN "update" ELSE "status")
  /\ UNCHANGED <<schemaVars, aafVars, boot, blind, skipped, failures, requests>>

(* Mutant: the row is left to the end of the request.                      *)
UpdateObjectOnly ==
  /\ Busy("update")
  /\ obj' = rq.body
  /\ Goto("envPerm")
  /\ UNCHANGED <<schemaVars, aafVars, boot, blind, skipped, failures, requests>>

(* dmaapholder.update(nd): the row, then the object.                       *)
Update ==
  /\ Busy("update")
  /\ row' = rq.body /\ obj' = rq.body
  /\ Goto("envPerm")
  /\ UNCHANGED <<schVer, shape, stored, aafVars, boot, blind, skipped, failures, requests>>

(* setEnvMap: the name is read back, and the permission and grant of each  *)
(* entry of the map are made, whatever AAF answers.                        *)
EnvPerm ==
  /\ Busy("envPerm")
  /\ Get
  /\ \/ /\ \/ envPerms' = envPerms \cup {row.name} /\ UNCHANGED failures
           \/ Refused /\ UNCHANGED envPerms
        /\ rq' = [rq EXCEPT !.pc = "envGrant", !.env = row.name]
        /\ UNCHANGED boot
     \/ Exits /\ UNCHANGED envPerms
  /\ UNCHANGED <<schemaVars, envGrants, mgtPerms, mgtGrants, blind, skipped, requests>>

EnvGrant ==
  /\ Busy("envGrant")
  /\ \/ /\ \/ rq.env \in envPerms /\ envGrants' = envGrants \cup {rq.env}
              /\ UNCHANGED failures
           \/ rq.env \notin envPerms /\ UNCHANGED <<envGrants, failures>>
           \/ Refused /\ UNCHANGED envGrants
        /\ Goto("mgtPerm")
        /\ UNCHANGED boot
     \/ Exits /\ UNCHANGED envGrants
  /\ UNCHANGED <<schemaVars, envPerms, mgtPerms, mgtGrants, blind, skipped, requests, obj>>

(* setTopicMgtPerms: permission and grant for each action, until a call    *)
(* fails.                                                                  *)
Wrong == rq' = [rq EXCEPT !.pc = "status", !.wrong = TRUE]

(* Mutant: a refused permission is only logged.                            *)
MgtPermLogged ==
  /\ Busy("mgtPerm")
  /\ LET p == <<rq.body.name, MgtActions[rq.i]>> IN
     \/ mgtPerms' = mgtPerms \cup {p} /\ Goto("mgtGrant") /\ UNCHANGED <<boot, failures>>
     \/ Refused /\ Goto("mgtGrant") /\ UNCHANGED <<mgtPerms, boot>>
     \/ Exits /\ UNCHANGED mgtPerms
  /\ UNCHANGED <<schemaVars, envPerms, envGrants, mgtGrants, blind, skipped, requests, obj>>

MgtPerm ==
  /\ Busy("mgtPerm")
  /\ LET p == <<rq.body.name, MgtActions[rq.i]>> IN
     \/ mgtPerms' = mgtPerms \cup {p} /\ Goto("mgtGrant") /\ UNCHANGED <<boot, failures>>
     \/ Refused /\ Wrong /\ UNCHANGED <<mgtPerms, boot>>
     \/ Exits /\ UNCHANGED mgtPerms
  /\ UNCHANGED <<schemaVars, envPerms, envGrants, mgtGrants, blind, skipped, requests, obj>>

(* After the last action, createMmaTopic.                                  *)
NextAction == rq' = [rq EXCEPT !.pc = IF rq.i < Len(MgtActions) THEN "mgtPerm" ELSE "mma",
                               !.i = @ + 1]

MgtGrant ==
  /\ Busy("mgtGrant")
  /\ LET p == <<rq.body.name, MgtActions[rq.i]>> IN
     \/ mgtGrants' = mgtGrants \cup {p} /\ NextAction /\ UNCHANGED <<boot, failures>>
     \/ Refused /\ Wrong /\ UNCHANGED <<mgtGrants, boot>>
     \/ Exits /\ UNCHANGED mgtGrants
  /\ UNCHANGED <<schemaVars, envPerms, envGrants, mgtPerms, blind, skipped, requests, obj>>

(* createMmaTopic: TopicService.addTopic, which MrProvisioning models.     *)
MmaTopic ==
  /\ Busy("mma")
  /\ Get
  /\ \/ Goto("status") /\ UNCHANGED <<boot, failures>>
     \/ Refused /\ Wrong /\ UNCHANGED boot
     \/ Exits
  /\ UNCHANGED <<schemaVars, aafVars, blind, skipped, requests>>

(* The status: updateDmaap puts it into the row with the body, addDmaap    *)
(* into the object.                                                        *)
SetStatus ==
  /\ Busy("status")
  /\ LET st == IF rq.wrong THEN "INVALID" ELSE "VALID" IN
     \/ /\ rq.op = "put"
        /\ row' = [rq.body EXCEPT !.st = st] /\ obj' = row'
     \/ /\ rq.op = "post"
        /\ obj' = [obj EXCEPT !.st = st] /\ UNCHANGED row
  /\ rq' = Idle
  /\ UNCHANGED <<schVer, shape, stored, aafVars, boot, blind, skipped, failures, requests>>

Serve == \/ Arrive \/ GetDmaap \/ Check \/ Update \/ EnvPerm \/ EnvGrant
         \/ MgtPerm \/ MgtGrant \/ MmaTopic \/ SetStatus
=============================================================================
