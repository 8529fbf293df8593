---------------------------- MODULE DmaapProofs ----------------------------
(***************************************************************************)
(* For any names, bodies, actions and failures: a name whose row is VALID  *)
(* is provisioned, provided that no body says so itself; every state is    *)
(* type correct, and the API permissions of a request are made for its     *)
(* name; no start loses what a server has stored; and the version tells    *)
(* what the tables are.                                                    *)
(***************************************************************************)
EXTENDS DmaapInstance, TLAPS

UpTo(k, n) == \A j \in 1 .. k : <<n, MgtActions[j]>> \in mgtGrants
Granted(n) == UpTo(Len(MgtActions), n)

Early == {"check", "update", "envPerm", "envGrant"}

(* What a request has done at each of its steps.                           *)
RqInv ==
  /\ rq \in Request \cup {Idle, [pc |-> "get"]}
  /\ rq.pc # "idle" => boot.pc = "serving"
  /\ rq.pc \in Early => rq.i = 1 /\ ~rq.wrong
  /\ rq.pc = "envPerm" => row = rq.body
  /\ rq.pc \in {"mgtPerm", "mgtGrant"} =>
       rq.i \in 1 .. Len(MgtActions) /\ UpTo(rq.i - 1, rq.body.name)
  /\ rq.pc = "mma" => Granted(rq.body.name)
  /\ rq.pc = "status" /\ ~rq.wrong => Granted(rq.body.name)

ValidGranted == row # NoRow /\ row.st = "VALID" => Granted(row.name)

(* InitRow has put a row.                                                  *)
RowThere ==
  /\ row \in Row \cup {NoRow}
  /\ boot.pc \in {"defaults", "bootPerm", "bootGrant", "serving"} => row # NoRow

DmaapInv == RqInv /\ ValidGranted /\ RowThere

NoBodyIsValid == \A b \in Bodies : b.st # "VALID"

LEMMA MgtLen == Len(MgtActions) \in Nat \ {0} /\ DOMAIN MgtActions = 1 .. Len(MgtActions)
  <1> DEFINE S == {"create", "destroy", "view", "pub", "sub"}
  <1>1. MgtActions \in Seq(S) /\ Len(MgtActions) > 0
    BY InstanceAssumption
  <1> HIDE DEF S
  <1>2. Len(MgtActions) \in Nat /\ DOMAIN MgtActions = 1 .. Len(MgtActions)
    BY <1>1
  <1> QED
    BY <1>1, <1>2

LEMMA GrantedIsProvisioned == DmaapInv => ValidIsProvisioned
  BY MgtLen DEF DmaapInv, ValidGranted, ValidIsProvisioned, Granted, UpTo, Actions

-----------------------------------------------------------------------------
LEMMA BodiesAreRows == Bodies \subseteq Row /\ NoRow \notin Row
  BY InstanceAssumption DEF Row

LEMMA NewRows ==
  ASSUME NEW n \in Names \cup {""}, NEW s \in Statuses
  PROVE  NewRow(n, s) \in Row /\ NewRow(n, s).st = s
  BY DEF NewRow, Row, Versions

LEMMA InitDmaap == Init => DmaapInv
  <1> SUFFICES ASSUME Init PROVE DmaapInv
    OBVIOUS
  <1>1. rq = Idle /\ rq.pc = "idle" /\ boot.pc = "down"
    BY DEF Init, Idle, At
  <1>3. row = NoRow \/ (row \in Row /\ row.st = "NEW")
    <2>1. ASSUME NEW b \in Bodies, row = [b EXCEPT !.st = "NEW"]
          PROVE  row \in Row /\ row.st = "NEW"
      <3>1. b \in Row
        BY BodiesAreRows
      <3> QED
        BY <2>1, <3>1 DEF Row, Statuses
    <2>2. NewRow("", "NEW") \in Row /\ NewRow("", "NEW").st = "NEW"
      BY NewRows DEF Statuses
    <2>3. row \in {NoRow} \cup {NewRow("", "NEW")} \cup {[b EXCEPT !.st = "NEW"] : b \in Bodies}
      BY DEF Init
    <2> QED
      BY <2>1, <2>2, <2>3
  <1>2. RqInv /\ RowThere
    BY <1>1, <1>3 DEF RqInv, Early, RowThere
  <1>4. ValidGranted
    BY <1>3 DEF ValidGranted
  <1> QED
    BY <1>2, <1>4 DEF DmaapInv

(* Steps that leave the request and the settings alone.                    *)
LEMMA Frame ==
  ASSUME DmaapInv, UNCHANGED <<rq, row, boot, mgtGrants>>
  PROVE  DmaapInv'
  BY DEF DmaapInv, RqInv, ValidGranted, Granted, UpTo, RowThere

(* Steps after which no request is under way.                              *)
LEMMA NoRequest ==
  ASSUME DmaapInv, rq' = Idle, UNCHANGED mgtGrants, RowThere',
         row' = row \/ row' = NoRow \/ row'.st # "VALID"
  PROVE  DmaapInv'
  <1>1. rq'.pc = "idle"
    BY DEF Idle
  <1>2. RqInv'
    BY <1>1 DEF RqInv, Early
  <1>3. ValidGranted'
    BY DEF DmaapInv, ValidGranted, Granted, UpTo
  <1> QED
    BY <1>2, <1>3 DEF DmaapInv

(* A process that is not serving has no request.                           *)
LEMMA NotServing ==
  ASSUME DmaapInv, boot.pc # "serving" PROVE rq = Idle /\ rq.pc = "idle"
  BY DEF DmaapInv, RqInv, Request, Idle

LEMMA BootSteps == ASSUME DmaapInv, Boot PROVE DmaapInv'
  <1>1. boot.pc # "serving" /\ UNCHANGED mgtGrants /\ rq' \in {rq, Idle}
    BY DEF Boot, Start, Upgrade, ReadVersion, RunStatement, EndScript, OpenTables, InitRow,
           SetDefaults, BootPerm, BootGrant, At, aafVars, Exits, Down
  <1>2. rq' = Idle
    BY <1>1, NotServing
  <1>3. CASE Start
    <2>1. boot'.pc = "getVer" /\ UNCHANGED row
      BY <1>3 DEF Start, At, schemaVars
    <2> QED
      BY <1>1, <1>2, <2>1, NoRequest DEF RowThere, DmaapInv
  <1>4. CASE Upgrade
    <2>1. boot'.pc \in {"script", "tables", "init", "down"}
      BY <1>4 DEF Upgrade, ReadVersion, RunStatement, NextStatement, EndScript, OpenTables, At,
         Statement
    <2>2. row' = row \/ row' = NoRow
      BY <1>4 DEF Upgrade, ReadVersion, RunStatement, EndScript, OpenTables, Execute, schemaVars
    <2> QED
      BY <1>1, <1>2, <2>1, <2>2, NoRequest DEF RowThere, DmaapInv
  <1>5. CASE InitRow \/ SetDefaults
    <2>1. row' = row \/ \E n \in Names \cup {""} : row' = NewRow(n, "NEW")
      BY <1>5, InstanceAssumption DEF InitRow, SetDefaults
    <2>2. CASE \E n \in Names \cup {""} : row' = NewRow(n, "NEW")
      <3>1. row' \in Row /\ row'.st = "NEW"
        BY <2>2, NewRows DEF Statuses
      <3> QED
        BY <1>1, <1>2, <3>1, NoRequest, BodiesAreRows DEF RowThere
    <2>3. CASE row' = row
      <3>1. row' # NoRow
        BY <1>5, <2>3, NewRows, BodiesAreRows
        DEF InitRow, SetDefaults, DmaapInv, RowThere, Statuses
      <3> QED
        BY <1>1, <1>2, <2>3, <3>1, NoRequest DEF RowThere, DmaapInv
    <2> QED
      BY <2>1, <2>2, <2>3
  <1>6. CASE BootPerm \/ BootGrant
    <2>1. UNCHANGED row /\ boot.pc \in {"bootPerm", "bootGrant"}
      BY <1>6 DEF BootPerm, BootGrant, schemaVars
    <2> QED
      BY <1>1, <1>2, <2>1, NoRequest DEF RowThere, DmaapInv
  <1> QED
    BY <1>3, <1>4, <1>5, <1>6 DEF Boot

-----------------------------------------------------------------------------
(* Steps that change the request alone.                                    *)
LEMMA SameRow ==
  ASSUME DmaapInv, UNCHANGED <<row, mgtGrants, boot>> PROVE ValidGranted' /\ RowThere'
  BY DEF DmaapInv, ValidGranted, Granted, UpTo, RowThere

LEMMA AnExit == ASSUME DmaapInv, Exits, UNCHANGED <<row, mgtGrants>> PROVE DmaapInv'
  BY NoRequest DEF Exits, Down, At, RowThere, DmaapInv

LEMMA InRequest ==
  ASSUME DmaapInv, NEW p, Busy(p), p \notin {"idle", "get"}
  PROVE  rq \in Request /\ rq.pc = p /\ boot.pc = "serving" /\ rq.body \in Bodies
  BY DEF DmaapInv, RqInv, Busy, Idle, Request

LEMMA StepArrive == ASSUME DmaapInv, Arrive PROVE DmaapInv'
  <1>1. rq = Idle /\ boot.pc = "serving" /\ UNCHANGED <<row, mgtGrants, boot>>
    BY DEF Arrive, schemaVars, aafVars
  <1>2. ValidGranted' /\ RowThere'
    BY <1>1, SameRow
  <1>3. CASE rq' = [pc |-> "get"]
    <2>1. rq'.pc = "get"
      BY <1>3
    <2> QED
      BY <1>1, <1>2, <1>3, <2>1 DEF DmaapInv, RqInv, Early
  <1>4. CASE \E op \in {"post", "put"}, b \in Bodies :
               rq' = [pc |-> "check", op |-> op, body |-> b, env |-> "", i |-> 1, wrong |-> FALSE]
    <2>1. PICK op \in {"post", "put"}, b \in Bodies :
            rq' = [pc |-> "check", op |-> op, body |-> b, env |-> "", i |-> 1, wrong |-> FALSE]
      BY <1>4
    <2>2. rq' \in Request
      <3>1. "" \in EnvNames /\ 1 \in 1 .. Len(MgtActions) + 1 /\ FALSE \in BOOLEAN
        BY MgtLen DEF EnvNames
      <3> QED
        BY <2>1, <3>1 DEF Request
    <2>3. rq'.pc = "check" /\ rq'.i = 1 /\ ~rq'.wrong
      BY <2>1
    <2> QED
      BY <1>1, <1>2, <2>2, <2>3 DEF DmaapInv, RqInv, Early
  <1> QED
    BY <1>3, <1>4 DEF Arrive

LEMMA StepGetDmaap == ASSUME DmaapInv, GetDmaap PROVE DmaapInv'
  <1>1. rq' = Idle /\ UNCHANGED <<row, mgtGrants, boot>>
    BY DEF GetDmaap, schemaVars, aafVars
  <1> QED
    BY <1>1, SameRow, NoRequest

(* A request goes on: what it keeps and what it needs at its next step.    *)
LEMMA GoesTo ==
  ASSUME DmaapInv, rq \in Request, boot.pc = "serving", UNCHANGED <<row, mgtGrants, boot>>,
         NEW p \in {"update", "mgtPerm", "mgtGrant", "mma", "status"}, Goto(p),
         p = "update" => rq.pc \in Early,
         p \in {"mgtPerm", "mgtGrant"} =>
           rq.i \in 1 .. Len(MgtActions) /\ UpTo(rq.i - 1, rq.body.name),
         p \in {"mma", "status"} => Granted(rq.body.name)
  PROVE  DmaapInv'
  <1>1. ValidGranted' /\ RowThere'
    BY SameRow
  <1>2. /\ rq' \in Request /\ rq'.pc = p /\ rq'.i = rq.i /\ rq'.body = rq.body
        /\ rq'.wrong = rq.wrong
    BY DEF Goto, Request
  <1>3. RqInv'
    BY <1>2 DEF DmaapInv, RqInv, Early, UpTo, Granted
  <1> QED
    BY <1>1, <1>3 DEF DmaapInv

LEMMA StepCheck == ASSUME DmaapInv, Check PROVE DmaapInv'
  <1>1. /\ rq \in Request /\ rq.pc = "check" /\ boot.pc = "serving"
        /\ UNCHANGED <<row, mgtGrants, boot>>
    BY InRequest DEF Check, schemaVars, aafVars
  <1>3. CASE rq' = Idle
    BY <1>1, <1>3, SameRow, NoRequest
  <1>4. CASE Goto("update")
    BY <1>1, <1>4, GoesTo DEF Early
  <1>5. CASE Goto("status") /\ ~Triggers(row, rq.body)
    <2>1. row.st = "VALID" /\ row.name = rq.body.name
      BY <1>5 DEF Triggers
    <2>2. row # NoRow
      BY <1>1 DEF DmaapInv, RowThere
    <2>3. Granted(rq.body.name)
      BY <2>1, <2>2 DEF DmaapInv, ValidGranted
    <2> QED
      BY <1>1, <1>5, <2>3, GoesTo
  <1>6. rq.op \in {"post", "put"}
    BY <1>1 DEF Request
  <1> QED
    BY <1>3, <1>4, <1>5, <1>6 DEF Check

LEMMA StepUpdate == ASSUME DmaapInv, NoBodyIsValid, Update PROVE DmaapInv'
  <1>1. /\ rq \in Request /\ rq.pc = "update" /\ boot.pc = "serving" /\ rq.body \in Bodies
        /\ row' = rq.body /\ UNCHANGED <<mgtGrants, boot>>
    BY InRequest DEF Update, aafVars
  <1>2. ValidGranted' /\ RowThere'
    BY <1>1, BodiesAreRows DEF NoBodyIsValid, ValidGranted, RowThere
  <1>3. /\ rq' \in Request /\ rq'.pc = "envPerm" /\ rq'.body = rq.body
        /\ rq'.i = rq.i /\ rq'.wrong = rq.wrong
    BY <1>1 DEF Update, Goto, Request
  <1>4. RqInv'
    BY <1>1, <1>3 DEF DmaapInv, RqInv, Early
  <1> QED
    BY <1>2, <1>4 DEF DmaapInv

LEMMA StepEnvPerm == ASSUME DmaapInv, EnvPerm PROVE DmaapInv'
  <1>1. /\ rq \in Request /\ rq.pc = "envPerm" /\ boot.pc = "serving"
        /\ UNCHANGED <<row, mgtGrants>>
    BY InRequest DEF EnvPerm, schemaVars
  <1>2. CASE Exits
    BY <1>1, <1>2, AnExit
  <1>3. CASE rq' = [rq EXCEPT !.pc = "envGrant", !.env = row.name] /\ UNCHANGED boot
    <2>1. row \in Row
      BY <1>1 DEF DmaapInv, RowThere
    <2>2. row.name \in EnvNames
      BY <2>1 DEF Row, EnvNames
    <2>3. rq' \in Request /\ rq'.pc = "envGrant" /\ rq'.i = rq.i /\ rq'.wrong = rq.wrong
      BY <1>1, <1>3, <2>2 DEF Request
    <2>4. RqInv'
      BY <1>1, <1>3, <2>3 DEF DmaapInv, RqInv, Early
    <2> QED
      BY <1>1, <1>3, <2>4, SameRow DEF DmaapInv
  <1> QED
    BY <1>2, <1>3 DEF EnvPerm

LEMMA StepEnvGrant == ASSUME DmaapInv, EnvGrant PROVE DmaapInv'
  <1>1. /\ rq \in Request /\ rq.pc = "envGrant" /\ boot.pc = "serving"
        /\ UNCHANGED <<row, mgtGrants>>
    BY InRequest DEF EnvGrant, schemaVars
  <1>2. CASE Exits
    BY <1>1, <1>2, AnExit
  <1>3. CASE Goto("mgtPerm") /\ UNCHANGED boot
    <2>1. rq.i = 1 /\ UpTo(rq.i - 1, rq.body.name)
      BY <1>1 DEF DmaapInv, RqInv, Early, UpTo
    <2> QED
      BY <1>1, <1>3, <2>1, MgtLen, GoesTo
  <1> QED
    BY <1>2, <1>3 DEF EnvGrant

LEMMA Refusal ==
  ASSUME DmaapInv, rq \in Request, boot.pc = "serving", Wrong,
         UNCHANGED <<row, mgtGrants, boot>>
  PROVE  DmaapInv'
  <1>1. ValidGranted' /\ RowThere'
    BY SameRow
  <1>2. rq' \in Request /\ rq'.pc = "status" /\ rq'.wrong
    BY DEF Wrong, Request
  <1>3. RqInv'
    BY <1>2 DEF DmaapInv, RqInv, Early
  <1> QED
    BY <1>1, <1>3 DEF DmaapInv

LEMMA StepMgtPerm == ASSUME DmaapInv, MgtPerm PROVE DmaapInv'
  <1>1. /\ rq \in Request /\ rq.pc = "mgtPerm" /\ boot.pc = "serving"
        /\ UNCHANGED <<row, mgtGrants>>
    BY InRequest DEF MgtPerm, schemaVars
  <1>2. CASE Exits
    BY <1>1, <1>2, AnExit
  <1>3. CASE Wrong /\ UNCHANGED boot
    BY <1>1, <1>3, Refusal
  <1>4. CASE Goto("mgtGrant") /\ UNCHANGED boot
    BY <1>1, <1>4, GoesTo DEF DmaapInv, RqInv
  <1> QED
    BY <1>2, <1>3, <1>4 DEF MgtPerm

LEMMA StepMgtGrant == ASSUME DmaapInv, MgtGrant PROVE DmaapInv'
  <1>1. /\ rq \in Request /\ rq.pc = "mgtGrant" /\ boot.pc = "serving" /\ UNCHANGED row
        /\ rq.i \in 1 .. Len(MgtActions) /\ UpTo(rq.i - 1, rq.body.name)
    BY InRequest DEF MgtGrant, schemaVars, DmaapInv, RqInv
  <1>2. CASE Exits /\ UNCHANGED mgtGrants
    BY <1>1, <1>2, AnExit
  <1>3. CASE Wrong /\ UNCHANGED <<boot, mgtGrants>>
    BY <1>1, <1>3, Refusal
  <1>4. CASE /\ mgtGrants' = mgtGrants \cup {<<rq.body.name, MgtActions[rq.i]>>}
             /\ NextAction /\ UNCHANGED boot
    <2>1. ValidGranted' /\ RowThere'
      BY <1>1, <1>4 DEF DmaapInv, ValidGranted, Granted, UpTo, RowThere
    <2> DEFINE p == IF rq.i < Len(MgtActions) THEN "mgtPerm" ELSE "mma"
    <2>7. rq.i + 1 \in 1 .. Len(MgtActions) + 1 /\ rq.i \in Int
      BY <1>1, MgtLen
    <2>8. rq' = [rq EXCEPT !.pc = p, !.i = rq.i + 1]
      BY <1>4 DEF NextAction
    <2>9. p \in {"mgtPerm", "mma"}
      OBVIOUS
    <2> HIDE DEF p
    <2>2. /\ rq' \in Request /\ rq'.pc = p /\ rq'.body = rq.body /\ rq'.i = rq.i + 1
      BY <1>1, <2>7, <2>8, <2>9 DEF Request
    <2>3. \A j \in 1 .. rq.i : <<rq.body.name, MgtActions[j]>> \in mgtGrants'
      <3>1. \A j \in 1 .. rq.i : j \in 1 .. rq.i - 1 \/ j = rq.i
        BY <1>1, MgtLen
      <3> QED
        BY <1>1, <1>4, <3>1 DEF UpTo
    <2>4. UpTo(rq.i - 1, rq.body.name)'
      <3>1. rq'.i - 1 = rq.i
        BY <2>2, <2>7
      <3> QED
        BY <2>2, <2>3, <3>1 DEF UpTo
    <2>5. CASE rq.i < Len(MgtActions)
      <3>1. rq'.pc = "mgtPerm" /\ rq'.i \in 1 .. Len(MgtActions)
        BY <1>1, <2>2, <2>5, MgtLen DEF p
      <3>2. RqInv'
        BY <1>1, <1>4, <2>2, <2>4, <3>1 DEF RqInv, Early
      <3> QED
        BY <2>1, <3>2 DEF DmaapInv
    <2>6. CASE ~(rq.i < Len(MgtActions))
      <3>1. rq'.pc = "mma" /\ rq.i = Len(MgtActions)
        BY <1>1, <2>2, <2>6, MgtLen DEF p
      <3>2. Granted(rq.body.name)'
        BY <2>2, <2>3, <3>1 DEF Granted, UpTo
      <3>3. RqInv'
        BY <1>1, <1>4, <2>2, <3>1, <3>2 DEF RqInv, Early
      <3> QED
        BY <2>1, <3>3 DEF DmaapInv
    <2> QED
      BY <2>5, <2>6
  <1> QED
    BY <1>2, <1>3, <1>4 DEF MgtGrant

LEMMA StepMmaTopic == ASSUME DmaapInv, MmaTopic PROVE DmaapInv'
  <1>1. /\ rq \in Request /\ rq.pc = "mma" /\ boot.pc = "serving"
        /\ UNCHANGED <<row, mgtGrants>>
    BY InRequest DEF MmaTopic, schemaVars, aafVars
  <1>2. CASE Exits
    BY <1>1, <1>2, AnExit
  <1>3. CASE Wrong /\ UNCHANGED boot
    BY <1>1, <1>3, Refusal
  <1>4. CASE Goto("status") /\ UNCHANGED boot
    BY <1>1, <1>4, GoesTo DEF DmaapInv, RqInv
  <1> QED
    BY <1>2, <1>3, <1>4 DEF MmaTopic

LEMMA StepSetStatus == ASSUME DmaapInv, SetStatus PROVE DmaapInv'
  <1>1. /\ rq \in Request /\ rq.pc = "status" /\ rq.body \in Bodies /\ boot.pc = "serving"
        /\ rq' = Idle /\ UNCHANGED <<mgtGrants, boot>>
    BY InRequest DEF SetStatus, aafVars
  <1>2. CASE UNCHANGED row
    BY <1>1, <1>2, SameRow, NoRequest
  <1>3. CASE row' = [rq.body EXCEPT !.st = IF rq.wrong THEN "INVALID" ELSE "VALID"]
    <2>1. /\ row' \in Row /\ row'.name = rq.body.name
          /\ row'.st = IF rq.wrong THEN "INVALID" ELSE "VALID"
      <3>1. rq.body \in Row
        BY <1>1, BodiesAreRows
      <3> QED
        BY <1>3, <3>1 DEF Row, Statuses
    <2>2. RowThere'
      BY <2>1, BodiesAreRows DEF RowThere
    <2>3. CASE rq.wrong
      <3>1. row'.st # "VALID"
        BY <2>1, <2>3
      <3> QED
        BY <1>1, <2>2, <3>1, NoRequest
    <2>4. CASE ~rq.wrong
      <3>1. Granted(rq.body.name)
        BY <1>1, <2>4 DEF DmaapInv, RqInv
      <3>2. ValidGranted'
        BY <1>1, <2>1, <3>1 DEF ValidGranted, Granted, UpTo
      <3>3. rq'.pc = "idle"
        BY <1>1 DEF Idle
      <3> QED
        BY <1>1, <2>2, <3>2, <3>3 DEF DmaapInv, RqInv, Early
    <2> QED
      BY <2>3, <2>4
  <1> QED
    BY <1>1, <1>2, <1>3 DEF SetStatus

-----------------------------------------------------------------------------
LEMMA NextDmaap == NoBodyIsValid /\ DmaapInv /\ [Next]_vars => DmaapInv'
  <1> SUFFICES ASSUME NoBodyIsValid, DmaapInv, [Next]_vars PROVE DmaapInv'
    OBVIOUS
  <1>1. CASE Boot
    BY <1>1, BootSteps
  <1>2. CASE Serve
    BY <1>2, StepArrive, StepGetDmaap, StepCheck, StepUpdate, StepEnvPerm,
       StepEnvGrant, StepMgtPerm, StepMgtGrant, StepMmaTopic, StepSetStatus DEF Serve
  <1>3. CASE PutRows
    BY <1>3, Frame DEF PutRows, aafVars
  <1>4. CASE Crash
    BY <1>4, NoRequest DEF Crash, Down, At, RowThere, DmaapInv, schemaVars, aafVars
  <1>5. CASE UNCHANGED vars
    BY <1>5, Frame DEF vars, schemaVars, aafVars
  <1> QED
    BY <1>1, <1>2, <1>3, <1>4, <1>5 DEF Next

(* A name whose row is VALID is provisioned, whatever fails and wherever   *)
(* the process ends, if no body comes with the status VALID.               *)
THEOREM ProvisionedWhenValid ==
  ASSUME NoBodyIsValid PROVE Spec => []ValidIsProvisioned
  <1>1. NoBodyIsValid
    OBVIOUS
  <1>2. Init => DmaapInv
    BY InitDmaap
  <1>3. DmaapInv /\ [Next]_vars => DmaapInv'
    BY <1>1, NextDmaap
  <1> QED
    BY <1>2, <1>3, GrantedIsProvisioned, PTL DEF Spec

-----------------------------------------------------------------------------
(* The scripts, statement by statement, and what is true of all but the    *)
(* first: a change to a table each, the version last; a table is made      *)
(* right after it is dropped, once in a script, and altered only by a      *)
(* later script that does not make it; rows are lost by script 1 and those *)
(* of the bridges by scripts 3 to 6.                                       *)
LEMMA ScriptsAre ==
  /\ Script(0) = <<Drop("dmaap"), Drop("feed"), Drop("topic"), Drop("mirror_maker"),
                   Version("dropVersion"), Version("createVersion"), Version("insertVersion")>>
  /\ Script(1) = <<Drop("dmaap"), Create("dmaap"), Drop("feed"), Create("feed"),
                   Drop("topic"), Create("topic"), Drop("mirror_maker"),
                   Create("mirror_maker"), Version("setVersion")>>
  /\ Script(2) = <<Alter("feed"), Alter("topic"), Alter("mirror_maker"), Version("setVersion")>>
  /\ Script(3) = <<Alter("mirror_maker"), Delete("mirror_maker"), Version("setVersion")>>
  /\ \A n \in {4, 6} :
       Script(n) = <<Drop("mirror_maker"), Create("mirror_maker"), Version("setVersion")>>
  /\ Script(5) = <<Delete("mirror_maker"), Version("setVersion")>>
  /\ Script(7) = <<Alter("topic"), Version("setVersion")>>
  <1>0. Script(0) = DropTables \o <<Version("dropVersion"), Version("createVersion"),
                                    Version("insertVersion")>>
    BY DEF Script
  <1>1. Script(1) = VersionLast(MakeTables)
    BY DEF Script
  <1>2. Script(2) = VersionLast(<<Alter("feed"), Alter("topic"), Alter("mirror_maker")>>)
    BY DEF Script
  <1>3. Script(3) = VersionLast(<<Alter("mirror_maker"), Delete("mirror_maker")>>)
    BY DEF Script
  <1>4. \A n \in {4, 6} : Script(n) = VersionLast(<<Drop("mirror_maker"), Create("mirror_maker")>>)
    BY DEF Script
  <1>5. Script(5) = VersionLast(<<Delete("mirror_maker")>>)
    BY DEF Script
  <1>7. Script(7) = VersionLast(<<Alter("topic")>>)
    BY DEF Script
  <1> QED
    BY <1>0, <1>1, <1>2, <1>3, <1>4, <1>5, <1>7 DEF VersionLast, MakeTables, DropTables

LEMMA Statements ==
  ASSUME NEW t \in Tables
  PROVE  /\ Drop(t).does = "drop" /\ Drop(t).table = t /\ Drop(t).at
         /\ Create(t).does = "create" /\ Create(t).table = t /\ ~Create(t).at
         /\ Alter(t).does = "alter" /\ Alter(t).table = t /\ Alter(t).at
         /\ Delete(t).does = "delete" /\ Delete(t).table = t /\ Delete(t).at
  BY DEF Drop, Create, Alter, Delete

Change(s) == s.table \in Tables /\ s.does \in {"drop", "create", "alter", "delete"}

OneByOne(n, c, l) ==
  \A j \in 1 .. l :
    /\ Change(c[j])
    /\ c[j].does = "create" => j > 1 /\ c[j - 1] = Drop(c[j].table)
    /\ c[j].does = "drop" => j < l /\ c[j + 1] = Create(c[j].table)
    /\ c[j].does = "alter" => n > 1
    /\ c[j].does \in {"drop", "delete"} => n = 1 \/ (n \in 3 .. 6 /\ c[j].table = "mirror_maker")

MakesOnce(c, l) ==
  \A j, k \in 1 .. l :
    c[j].table = c[k].table /\ c[j].does \in {"create", "alter"} =>
      /\ j < k => c[k].does = "delete"
      /\ c[j].does = "alter" => c[k].does # "drop"

ScriptOK(n) ==
  /\ Len(Script(n)) \in 2 .. 9
  /\ Script(n)[Len(Script(n))] = Version("setVersion")
  /\ OneByOne(n, Script(n), Len(Script(n)) - 1)
  /\ MakesOnce(Script(n), Len(Script(n)) - 1)

LEMMA ScriptOne == ScriptOK(1)
  <1> DEFINE c == Script(1)
             l == Len(c) - 1
  <1>1. Len(c) = 9
    BY ScriptsAre
  <1>2. /\ c[1] = Drop("dmaap") /\ c[2] = Create("dmaap") /\ c[3] = Drop("feed")
        /\ c[4] = Create("feed") /\ c[5] = Drop("topic") /\ c[6] = Create("topic")
        /\ c[7] = Drop("mirror_maker") /\ c[8] = Create("mirror_maker") /\ c[9] = Version("setVersion")
    BY ScriptsAre
  <1> HIDE DEF c
  <1>3. l = 8
    BY <1>1
  <1> HIDE DEF l
  <1>4. 1 .. l = {1, 2, 3, 4, 5, 6, 7, 8}
    BY <1>3
  <1>5. Tables = {"dmaap", "feed", "topic", "mirror_maker"}
    BY DEF Tables
  <1>6. OneByOne(1, c, l)
    BY <1>2, <1>3, <1>4, <1>5, Statements DEF OneByOne, Change
  <1>7. MakesOnce(c, l)
    BY <1>2, <1>4, <1>5, Statements DEF MakesOnce
  <1> QED
    BY <1>1, <1>2, <1>6, <1>7 DEF ScriptOK, l, c

LEMMA ScriptTwo == ScriptOK(2)
  <1> DEFINE c == Script(2)
             l == Len(c) - 1
  <1>1. Len(c) = 4
    BY ScriptsAre
  <1>2. /\ c[1] = Alter("feed") /\ c[2] = Alter("topic")
        /\ c[3] = Alter("mirror_maker") /\ c[4] = Version("setVersion")
    BY ScriptsAre
  <1> HIDE DEF c
  <1>3. l = 3
    BY <1>1
  <1> HIDE DEF l
  <1>4. 1 .. l = {1, 2, 3}
    BY <1>3
  <1>5. Tables = {"dmaap", "feed", "topic", "mirror_maker"}
    BY DEF Tables
  <1>6. OneByOne(2, c, l)
    BY <1>2, <1>3, <1>4, <1>5, Statements DEF OneByOne, Change
  <1>7. MakesOnce(c, l)
    BY <1>2, <1>4, <1>5, Statements DEF MakesOnce
  <1> QED
    BY <1>1, <1>2, <1>6, <1>7 DEF ScriptOK, l, c

LEMMA ScriptThree == ScriptOK(3)
  <1> DEFINE c == Script(3)
             l == Len(c) - 1
  <1>1. Len(c) = 3
    BY ScriptsAre
  <1>2. /\ c[1] = Alter("mirror_maker") /\ c[2] = Delete("mirror_maker")
        /\ c[3] = Version("setVersion")
    BY ScriptsAre
  <1> HIDE DEF c
  <1>3. l = 2
    BY <1>1
  <1> HIDE DEF l
  <1>4. 1 .. l = {1, 2}
    BY <1>3
  <1>5. Tables = {"dmaap", "feed", "topic", "mirror_maker"}
    BY DEF Tables
  <1>6. OneByOne(3, c, l)
    BY <1>2, <1>3, <1>4, <1>5, Statements DEF OneByOne, Change
  <1>7. MakesOnce(c, l)
    BY <1>2, <1>4, <1>5, Statements DEF MakesOnce
  <1> QED
    BY <1>1, <1>2, <1>6, <1>7 DEF ScriptOK, l, c

LEMMA ScriptFour ==
  ASSUME NEW n \in {4, 6} PROVE ScriptOK(n)
  <1> DEFINE c == Script(n)
             l == Len(c) - 1
  <1>1. Len(c) = 3
    BY ScriptsAre
  <1>2. /\ c[1] = Drop("mirror_maker") /\ c[2] = Create("mirror_maker")
        /\ c[3] = Version("setVersion")
    BY ScriptsAre
  <1> HIDE DEF c
  <1>3. l = 2
    BY <1>1
  <1> HIDE DEF l
  <1>4. 1 .. l = {1, 2}
    BY <1>3
  <1>5. Tables = {"dmaap", "feed", "topic", "mirror_maker"}
    BY DEF Tables
  <1>6. OneByOne(n, c, l)
    BY <1>2, <1>3, <1>4, <1>5, Statements DEF OneByOne, Change
  <1>7. MakesOnce(c, l)
    BY <1>2, <1>4, <1>5, Statements DEF MakesOnce
  <1> QED
    BY <1>1, <1>2, <1>6, <1>7 DEF ScriptOK, l, c

LEMMA ScriptFive == ScriptOK(5)
  <1> DEFINE c == Script(5)
             l == Len(c) - 1
  <1>1. Len(c) = 2
    BY ScriptsAre
  <1>2. /\ c[1] = Delete("mirror_maker") /\ c[2] = Version("setVersion")
    BY ScriptsAre
  <1> HIDE DEF c
  <1>3. l = 1
    BY <1>1
  <1> HIDE DEF l
  <1>4. 1 .. l = {1}
    BY <1>3
  <1>5. Tables = {"dmaap", "feed", "topic", "mirror_maker"}
    BY DEF Tables
  <1>6. OneByOne(5, c, l)
    BY <1>2, <1>3, <1>4, <1>5, Statements DEF OneByOne, Change
  <1>7. MakesOnce(c, l)
    BY <1>2, <1>4, <1>5, Statements DEF MakesOnce
  <1> QED
    BY <1>1, <1>2, <1>6, <1>7 DEF ScriptOK, l, c

LEMMA ScriptSeven == ScriptOK(7)
  <1> DEFINE c == Script(7)
             l == Len(c) - 1
  <1>1. Len(c) = 2
    BY ScriptsAre
  <1>2. /\ c[1] = Alter("topic") /\ c[2] = Version("setVersion")
    BY ScriptsAre
  <1> HIDE DEF c
  <1>3. l = 1
    BY <1>1
  <1> HIDE DEF l
  <1>4. 1 .. l = {1}
    BY <1>3
  <1>5. Tables = {"dmaap", "feed", "topic", "mirror_maker"}
    BY DEF Tables
  <1>6. OneByOne(7, c, l)
    BY <1>2, <1>3, <1>4, <1>5, Statements DEF OneByOne, Change
  <1>7. MakesOnce(c, l)
    BY <1>2, <1>4, <1>5, Statements DEF MakesOnce
  <1> QED
    BY <1>1, <1>2, <1>6, <1>7 DEF ScriptOK, l, c

LEMMA ScriptsOK == \A n \in 1 .. 7 : ScriptOK(n)
  BY ScriptOne, ScriptTwo, ScriptThree, ScriptFour, ScriptFive, ScriptSeven

LEMMA ScriptLengths == Len(Script(0)) = 7 /\ \A n \in 0 .. 7 : Len(Script(n)) \in 2 .. 9
  <1>1. Len(Script(0)) = 7
    BY ScriptsAre
  <1> QED
    BY <1>1, ScriptsOK DEF ScriptOK

-----------------------------------------------------------------------------
(* The shape of a table: what the last script that makes or alters it has  *)
(* made of it.                                                             *)
LEMMA LastMaker ==
  ASSUME NEW v \in 0 .. 7, NEW t, \E n \in 1 .. v : Makes(n, t)
  PROVE  \E n \in 1 .. v : Makes(n, t) /\ \A m \in n + 1 .. v : ~Makes(m, t)
  <1> DEFINE P(n) == n <= v /\ Makes(n, t)
             Last(n) == P(n) /\ \A m \in n + 1 .. 7 : ~P(m)
  <1>1. \E n \in 1 .. 7 : P(n)
    OBVIOUS
  <1>2. P(1) \/ P(2) \/ P(3) \/ P(4) \/ P(5) \/ P(6) \/ P(7)
    BY <1>1
  <1>3. \A n \in 1 .. 7 : \A m \in n + 1 .. 7 : m \in {2, 3, 4, 5, 6, 7} /\ m > n
    OBVIOUS
  <1> HIDE DEF P
  <1>4. Last(1) \/ Last(2) \/ Last(3) \/ Last(4) \/ Last(5) \/ Last(6) \/ Last(7)
    BY <1>2, <1>3
  <1>5. \E n \in 1 .. 7 : Last(n)
    BY <1>4
  <1> QED
    BY <1>5 DEF P

LEMMA ShapeIs ==
  ASSUME NEW v \in 0 .. 7, NEW t \in Tables, NEW n \in 1 .. v,
         Makes(n, t), \A m \in n + 1 .. v : ~Makes(m, t)
  PROVE  ShapeAt(v)[t] = n
  <1> DEFINE Q(k) == Makes(k, t) /\ \A m \in k + 1 .. v : ~Makes(m, t)
  <1>1. Q(n)
    OBVIOUS
  <1>2. \A k \in 1 .. v : Q(k) => k = n
    <2> SUFFICES ASSUME NEW k \in 1 .. v, Q(k), k # n PROVE FALSE
      OBVIOUS
    <2>1. k \in n + 1 .. v \/ n \in k + 1 .. v
      OBVIOUS
    <2> QED
      BY <1>1, <2>1
  <1> HIDE DEF Q
  <1>3. (CHOOSE k \in 1 .. v : Q(k)) = n
    BY <1>1, <1>2
  <1>4. ShapeAt(v)[t] = IF \E k \in 1 .. v : Makes(k, t) THEN CHOOSE k \in 1 .. v : Q(k)
                        ELSE Missing
    BY DEF ShapeAt, Q
  <1> QED
    BY <1>3, <1>4

LEMMA NoShape ==
  ASSUME NEW v \in NoTable .. 7, NEW t \in Tables, \A n \in 1 .. v : ~Makes(n, t)
  PROVE  ShapeAt(v)[t] = Missing
  BY DEF ShapeAt

LEMMA ShapeNext ==
  ASSUME NEW n \in 1 .. 7, NEW t \in Tables
  PROVE  ShapeAt(n)[t] = IF Makes(n, t) THEN n ELSE ShapeAt(n - 1)[t]
  <1>1. CASE Makes(n, t)
    BY <1>1, ShapeIs
  <1>2. CASE ~Makes(n, t) /\ \E m \in 1 .. n - 1 : Makes(m, t)
    <2>1. n - 1 \in 0 .. 7
      OBVIOUS
    <2>2. PICK k \in 1 .. n - 1 : Makes(k, t) /\ \A m \in k + 1 .. n - 1 : ~Makes(m, t)
      BY <1>2, <2>1, LastMaker
    <2>3. k \in 1 .. n /\ \A m \in k + 1 .. n : m = n \/ m \in k + 1 .. n - 1
      OBVIOUS
    <2>4. \A m \in k + 1 .. n : ~Makes(m, t)
      BY <1>2, <2>2, <2>3
    <2>5. ShapeAt(n - 1)[t] = k
      BY <2>1, <2>2, ShapeIs
    <2>6. ShapeAt(n)[t] = k
      BY <2>2, <2>3, <2>4, ShapeIs
    <2> QED
      BY <1>2, <2>5, <2>6
  <1>3. CASE ~Makes(n, t) /\ ~\E m \in 1 .. n - 1 : Makes(m, t)
    <2>1. n \in NoTable .. 7 /\ n - 1 \in NoTable .. 7
      BY DEF NoTable
    <2>2. \A m \in 1 .. n : m = n \/ m \in 1 .. n - 1
      OBVIOUS
    <2>3. \A m \in 1 .. n : ~Makes(m, t)
      BY <1>3, <2>2
    <2> QED
      BY <1>3, <2>1, <2>3, NoShape
  <1> QED
    BY <1>1, <1>2, <1>3

LEMMA ShapeTyped ==
  ASSUME NEW v \in NoTable .. 7 PROVE ShapeAt(v) \in [Tables -> Missing .. LastScript]
  <1>1. ASSUME NEW t \in Tables PROVE ShapeAt(v)[t] \in Missing .. LastScript
    <2>1. CASE \E n \in 1 .. v : Makes(n, t)
      <3>1. v \in 0 .. 7
        BY <2>1 DEF NoTable
      <3>2. PICK k \in 1 .. v : Makes(k, t) /\ \A m \in k + 1 .. v : ~Makes(m, t)
        BY <2>1, <3>1, LastMaker
      <3>3. ShapeAt(v)[t] = k
        BY <3>1, <3>2, ShapeIs
      <3> QED
        BY <3>1, <3>3 DEF Missing, LastScript
    <2>2. CASE \A n \in 1 .. v : ~Makes(n, t)
      BY <2>2, NoShape DEF Missing, LastScript
    <2> QED
      BY <2>1, <2>2
  <1> QED
    BY <1>1 DEF ShapeAt

-----------------------------------------------------------------------------
(* Types.  What they need beyond themselves: a row once the start has put  *)
(* it, and a request that has the permission it is about to grant.         *)
RqOK ==
  /\ rq.pc # "idle" => boot.pc = "serving"
  /\ rq.pc \in Early => rq.i = 1
  /\ rq.pc = "envPerm" => row = rq.body
  /\ rq.pc \in {"mgtPerm", "mgtGrant"} => rq.i \in 1 .. Len(MgtActions)
  /\ rq.pc = "mgtGrant" => <<rq.body.name, MgtActions[rq.i]>> \in mgtPerms

TypeInv == TypeOK /\ RowThere /\ RqOK

BootType == [pc : Stages, n : 0 .. LastScript, i : 1 .. 10]

LEMMA Bounds ==
  MaxFailures \in Nat /\ MaxRequests \in Nat /\ MaxCrashes \in Nat
  BY InstanceAssumption

LEMMA InitTypes == Init => TypeInv
  <1> SUFFICES ASSUME Init PROVE TypeInv
    OBVIOUS
  <1>1. /\ rq = Idle /\ boot = At("down") /\ schVer \in NoTable .. LastScript
        /\ requests = 0 /\ crashes = 0 /\ failures = 0 /\ blind = FALSE /\ skipped = FALSE
        /\ envPerms = {} /\ envGrants = {} /\ mgtPerms = {} /\ mgtGrants = {}
    BY InstanceAssumption DEF Init
  <1>2. row \in Row \cup {NoRow}
    <2>1. \A b \in Bodies : [b EXCEPT !.st = "NEW"] \in Row
      BY BodiesAreRows DEF Row, Statuses
    <2>2. NewRow("", "NEW") \in Row
      BY NewRows DEF Statuses
    <2> QED
      BY <2>1, <2>2 DEF Init
  <1>3. shape \in [Tables -> Missing .. LastScript]
    BY <1>1, ShapeTyped DEF Init, LastScript
  <1>4. stored \subseteq Tables \ {"dmaap"} /\ obj \in Row
    BY DEF Init, Row, Versions, Statuses
  <1>5. At("down") \in BootType /\ At("down").pc = "down"
    BY DEF At, Stages, LastScript, BootType
  <1>6. TypeOK
    <2>1. failures \in 0 .. MaxFailures
      BY <1>1, Bounds
    <2>2. blind \in BOOLEAN /\ skipped \in BOOLEAN
      BY <1>1
    <2>3. boot \in BootType
      BY <1>1, <1>5
    <2>4. SchemaTypeOK
      BY <1>1, <1>3, <1>4, <2>1, <2>2, <2>3 DEF SchemaTypeOK, BootType
    <2>5. DmaapTypeOK /\ crashes \in 0 .. MaxCrashes
      BY <1>1, <1>2, <1>4, Bounds DEF DmaapTypeOK
    <2> QED
      BY <2>4, <2>5 DEF TypeOK
  <1> QED
    BY <1>1, <1>2, <1>5, <1>6 DEF TypeInv, RowThere, RqOK, Idle, Early

LEMMA StageTyped == ASSUME NEW s \in Stages PROVE At(s) \in BootType /\ At(s).pc = s
  BY DEF At, LastScript, BootType

LEMMA MoreFailures ==
  ASSUME TypeOK, NEW kind, Failure(kind) PROVE failures' \in 0 .. MaxFailures
  <1>1. failures \in 0 .. MaxFailures /\ failures < MaxFailures /\ failures' = failures + 1
    BY DEF TypeOK, SchemaTypeOK, Failure
  <1> QED
    BY <1>1, Bounds

(* Steps of the start have no request to look after.                       *)
LEMMA StartTypes ==
  ASSUME TypeInv, boot.pc # "serving", rq' \in {rq, Idle}, SchemaTypeOK',
         UNCHANGED <<requests, crashes>>, obj' \in Row,
         envPerms' \subseteq EnvNames, envGrants' \subseteq envPerms',
         UNCHANGED <<mgtPerms, mgtGrants>>, RowThere'
  PROVE  TypeInv'
  <1>1. rq = Idle /\ Idle.pc = "idle"
    BY DEF TypeInv, RqOK, TypeOK, DmaapTypeOK, Request, Idle
  <1> QED
    BY <1>1 DEF TypeInv, TypeOK, DmaapTypeOK, RowThere, RqOK, Early

LEMMA UpgradeTypes == ASSUME TypeInv, Upgrade PROVE TypeInv'
  <1>1. SchemaTypeOK /\ TypeOK /\ 0 .. 7 = 0 .. LastScript /\ RowThere
    BY DEF TypeInv, TypeOK, LastScript
  <1>2. \A s \in Stages : At(s) \in BootType /\ At(s).pc = s
    BY StageTyped
  <1>3. \A n \in 0 .. 7, i \in 1 .. 10 : /\ Statement(n, i) \in BootType
                                         /\ Statement(n, i).pc = "script"
    BY <1>1 DEF Statement, BootType, Stages
  <1>4. boot.n \in 0 .. 7 /\ boot.i \in 1 .. 10
    BY <1>1 DEF SchemaTypeOK, LastScript
  <1>8. schVer \in -2 .. 7
    BY <1>1 DEF SchemaTypeOK, NoTable, LastScript
  <1>5. CASE ReadVersion
    <2>1. /\ boot.pc = "getVer" /\ UNCHANGED <<schVer, shape, stored, row, skipped>>
          /\ blind' \in BOOLEAN
      BY <1>1, <1>5 DEF ReadVersion, schemaVars, SchemaTypeOK
    <2>2. failures' \in 0 .. MaxFailures
      BY <1>1, <1>5, MoreFailures DEF ReadVersion, SchemaTypeOK
    <2>3. boot' \in BootType /\ boot'.pc \in {"tables", "script"}
      <3>1. CASE boot' = Statement(0, 1)
        BY <1>3, <3>1
      <3>2. CASE boot' = LET n == IF schVer < 0 THEN 0 ELSE schVer + 1
                         IN IF n > LastScript THEN At("tables") ELSE Statement(n, 1)
        BY <1>2, <1>3, <1>8, <3>2 DEF LastScript, Stages
      <3>3. CASE boot' = At("tables")
        BY <1>2, <3>3 DEF Stages
      <3> QED
        BY <1>5, <3>1, <3>2, <3>3 DEF ReadVersion
    <2>4. SchemaTypeOK' /\ RowThere'
      BY <1>1, <2>1, <2>2, <2>3 DEF SchemaTypeOK, RowThere, BootType
    <2> QED
      BY <1>5, <2>1, <2>4, StartTypes
      DEF Upgrade, aafVars, TypeInv, TypeOK, DmaapTypeOK
  <1>6. CASE RunStatement
    <2> DEFINE s == Script(boot.n)[boot.i]
    <2>1. boot.pc = "script" /\ boot.i <= Len(Script(boot.n)) /\ UNCHANGED blind
      BY <1>6 DEF RunStatement
    <2>2. failures' \in 0 .. MaxFailures /\ skipped' \in BOOLEAN
      BY <1>1, <1>6, MoreFailures DEF RunStatement, SchemaTypeOK
    <2>3. boot' \in BootType /\ boot'.pc \in {"tables", "script"}
      <3>1. boot.i + 1 \in 1 .. 10
        <4> DEFINE l == Len(Script(boot.n))
        <4>1. l \in 2 .. 9 /\ boot.i <= l
          BY <1>4, <2>1, ScriptLengths
        <4> HIDE DEF l
        <4> QED
          BY <1>4, <4>1
      <3>2. boot' \in {At("tables"), Statement(boot.n, boot.i + 1)}
        BY <1>6 DEF RunStatement, NextStatement
      <3> QED
        BY <1>2, <1>3, <1>4, <3>1, <3>2 DEF Stages
    <2>4. Execute(s, boot.n) \/ UNCHANGED <<schVer, shape, stored, row>>
      BY <1>6 DEF RunStatement, schemaVars
    <2> HIDE DEF s
    <2>5. /\ schVer' \in NoTable .. LastScript
          /\ shape' \in [Tables -> Missing .. LastScript]
          /\ stored' \subseteq Tables \ {"dmaap"}
          /\ row' \in {row, NoRow}
      <3>1. CASE UNCHANGED <<schVer, shape, stored, row>>
        BY <1>1, <3>1 DEF SchemaTypeOK
      <3>2. CASE Execute(s, boot.n)
        <4>1. schVer' \in {schVer, boot.n, -2, -1, 0}
          BY <3>2 DEF Execute, NoTable, NoVersion
        <4>2. shape' \in [Tables -> Missing .. LastScript]
          BY <1>1, <1>4, <3>2 DEF Execute, SchemaTypeOK, Missing, LastScript
        <4>3. stored' \subseteq stored /\ row' \in {row, NoRow}
          BY <3>2 DEF Execute
        <4> QED
          BY <1>1, <1>4, <1>8, <4>1, <4>2, <4>3 DEF SchemaTypeOK, NoTable, LastScript
      <3> QED
        BY <2>4, <3>1, <3>2
    <2>6. SchemaTypeOK' /\ RowThere'
      BY <1>1, <2>1, <2>2, <2>3, <2>5 DEF SchemaTypeOK, RowThere, BootType
    <2> QED
      BY <1>6, <2>1, <2>6, StartTypes
      DEF Upgrade, aafVars, TypeInv, TypeOK, DmaapTypeOK
  <1>7. CASE EndScript \/ OpenTables
    <2>1. /\ boot.pc \in {"script", "tables"}
          /\ UNCHANGED <<schVer, shape, stored, row, skipped, blind>>
      BY <1>7 DEF EndScript, OpenTables, schemaVars
    <2>5. failures' \in 0 .. MaxFailures
      BY <1>1, <1>7, MoreFailures DEF EndScript, OpenTables, SchemaTypeOK
    <2>2. boot' \in BootType /\ boot'.pc \in {"tables", "script", "init", "down"}
      <3>1. CASE boot' = Statement(boot.n + 1, 1) /\ boot.n < LastScript
        BY <1>3, <1>4, <3>1 DEF LastScript
      <3>2. CASE \E q \in {"tables", "init", "down"} : boot' = At(q)
        BY <1>2, <3>2 DEF Stages
      <3> QED
        BY <1>7, <3>1, <3>2 DEF EndScript, OpenTables
    <2>3. SchemaTypeOK' /\ RowThere'
      BY <1>1, <2>1, <2>2, <2>5 DEF SchemaTypeOK, RowThere, BootType
    <2>4. UNCHANGED <<obj, envPerms, envGrants, mgtPerms, mgtGrants, rq, requests, crashes>>
      BY <1>7 DEF Upgrade, EndScript, OpenTables, aafVars
    <2> QED
      BY <2>1, <2>3, <2>4, StartTypes DEF TypeInv, TypeOK, DmaapTypeOK
  <1> QED
    BY <1>5, <1>6, <1>7 DEF Upgrade

LEMMA BootTypes == ASSUME TypeInv, Boot PROVE TypeInv'
  <1>1. SchemaTypeOK /\ TypeOK /\ RowThere /\ DmaapTypeOK
    BY DEF TypeInv, TypeOK
  <1>2. \A s \in Stages : At(s) \in BootType /\ At(s).pc = s
    BY StageTyped
  <1>3. CASE Start
    <2>1. boot' = At("getVer") /\ boot.pc = "down"
      BY <1>3 DEF Start
    <2>2. SchemaTypeOK' /\ RowThere'
      BY <1>1, <1>2, <1>3, <2>1 DEF Start, schemaVars, SchemaTypeOK, RowThere, BootType, Stages
    <2> QED
      BY <1>1, <1>3, <2>1, <2>2, StartTypes DEF Start, aafVars, DmaapTypeOK
  <1>4. CASE Upgrade
    BY <1>4, UpgradeTypes
  <1>5. CASE InitRow \/ SetDefaults
    <2>1. /\ boot.pc \in {"init", "defaults"}
          /\ UNCHANGED <<schVer, shape, stored, skipped, blind, failures>>
          /\ UNCHANGED <<envPerms, envGrants, mgtPerms, mgtGrants, rq, requests, crashes>>
          /\ \E q \in {"defaults", "bootPerm", "serving"} : boot' = At(q)
      BY <1>5 DEF InitRow, SetDefaults, aafVars
    <2>2. boot' \in BootType
      BY <1>2, <2>1 DEF Stages
    <2>3. row' \in Row /\ obj' = row'
      <3>1. \A name \in Names \cup {""} : NewRow(name, "NEW") \in Row
        BY NewRows DEF Statuses
      <3> QED
        BY <1>1, <1>5, <3>1, InstanceAssumption DEF InitRow, SetDefaults, RowThere
    <2>4. SchemaTypeOK' /\ RowThere'
      BY <1>1, <2>1, <2>2, <2>3, BodiesAreRows DEF SchemaTypeOK, RowThere, BootType
    <2> QED
      BY <1>1, <2>1, <2>3, <2>4, StartTypes DEF DmaapTypeOK
  <1>6. CASE BootPerm \/ BootGrant
    <2>1. /\ boot.pc \in {"bootPerm", "bootGrant"} /\ rq' \in {rq, Idle}
          /\ UNCHANGED <<schVer, shape, stored, row, skipped, blind>>
          /\ UNCHANGED <<obj, mgtPerms, mgtGrants, requests, crashes>>
          /\ \E q \in {"down", "bootGrant", "serving"} : boot' = At(q)
      BY <1>6 DEF BootPerm, BootGrant, schemaVars, Exits, Down
    <2>2. boot' \in BootType
      BY <1>2, <2>1 DEF Stages
    <2>3. failures' \in 0 .. MaxFailures
      BY <1>1, <1>6, MoreFailures DEF BootPerm, BootGrant, Refused, Exits, SchemaTypeOK
    <2>4. envPerms' \subseteq EnvNames /\ envGrants' \subseteq envPerms'
      BY <1>1, <1>6 DEF BootPerm, BootGrant, DmaapTypeOK, EnvNames
    <2>5. SchemaTypeOK' /\ RowThere'
      BY <1>1, <2>1, <2>2, <2>3 DEF SchemaTypeOK, RowThere, BootType
    <2> QED
      BY <1>1, <2>1, <2>4, <2>5, StartTypes DEF DmaapTypeOK
  <1> QED
    BY <1>3, <1>4, <1>5, <1>6 DEF Boot

(* Steps of a request keep the settings a row.                             *)
LEMMA ServeTypes ==
  ASSUME TypeInv, UNCHANGED <<schVer, shape, stored, blind, skipped, crashes>>,
         boot' \in {boot, At("down")}, failures' \in 0 .. MaxFailures,
         row' \in Row, obj' \in Row,
         envPerms' \subseteq EnvNames, envGrants' \subseteq envPerms',
         mgtPerms' \subseteq (Names \cup {""}) \X Actions, mgtGrants' \subseteq mgtPerms',
         rq' \in Request \cup {Idle, [pc |-> "get"]}, requests' \in 0 .. MaxRequests,
         RqOK'
  PROVE  TypeInv'
  <1>1. boot' \in BootType
    BY StageTyped DEF TypeInv, TypeOK, SchemaTypeOK, BootType, Stages
  <1>2. SchemaTypeOK'
    BY <1>1 DEF TypeInv, TypeOK, SchemaTypeOK, BootType
  <1>3. DmaapTypeOK' /\ (crashes \in 0 .. MaxCrashes)'
    BY DEF TypeInv, TypeOK, DmaapTypeOK
  <1>4. RowThere'
    BY BodiesAreRows DEF RowThere
  <1> QED
    BY <1>2, <1>3, <1>4 DEF TypeInv, TypeOK

(* A step of a request which calls AAF: one that ends the process, or one  *)
(* that goes on.                                                           *)
LEMMA ExitTypes ==
  ASSUME TypeInv, boot.pc = "serving", Exits, UNCHANGED <<schemaVars, blind, skipped, crashes>>,
         UNCHANGED aafVars, obj' \in Row, UNCHANGED requests
  PROVE  TypeInv'
  <1>1. failures' \in 0 .. MaxFailures
    BY MoreFailures DEF Exits, TypeInv
  <1>2. row' \in Row
    BY DEF TypeInv, RowThere, schemaVars
  <1>3. RqOK'
    BY DEF Exits, Down, Idle, RqOK, Early
  <1> QED
    BY <1>1, <1>2, <1>3, ServeTypes
    DEF Exits, Down, schemaVars, aafVars, TypeInv, TypeOK, DmaapTypeOK

LEMMA Serving ==
  ASSUME TypeInv, NEW p, Busy(p), p \notin {"idle", "get"}
  PROVE  /\ rq \in Request /\ rq.pc = p /\ boot.pc = "serving" /\ rq.body \in Bodies
         /\ row \in Row /\ rq.i \in 1 .. Len(MgtActions) + 1
         /\ rq.env \in EnvNames /\ rq.op \in {"post", "put"}
  <1>1. rq \in Request /\ rq.pc = p /\ boot.pc = "serving" /\ row \in Row
    <2>1. rq.pc = p /\ boot.pc = "serving" /\ rq # Idle
      BY DEF Busy
    <2>2. rq \in Request \cup {Idle, [pc |-> "get"]} /\ row \in Row
      BY <2>1 DEF TypeInv, TypeOK, DmaapTypeOK, RowThere
    <2>3. rq # [pc |-> "get"]
      BY <2>1
    <2> QED
      BY <2>1, <2>2, <2>3
  <1> QED
    BY <1>1 DEF Request

LEMMA GotoTyped ==
  ASSUME TypeInv, rq \in Request,
         NEW p \in {"update", "mgtPerm", "mgtGrant", "mma", "status"}, Goto(p)
  PROVE  /\ rq' \in Request /\ rq'.pc = p /\ rq'.body = rq.body /\ rq'.i = rq.i
  BY DEF Goto, Request

LEMMA WrongTyped ==
  ASSUME rq \in Request, Wrong PROVE rq' \in Request /\ rq'.pc = "status"
  BY DEF Wrong, Request

LEMMA TypesArrive == ASSUME TypeInv, Arrive \/ GetDmaap, UNCHANGED crashes PROVE TypeInv'
  <1>1. boot.pc = "serving" /\ row \in Row /\ obj \in Row
    BY DEF Arrive, GetDmaap, Busy, TypeInv, RowThere, TypeOK, DmaapTypeOK
  <1>2. requests' \in 0 .. MaxRequests
    <2>1. requests \in 0 .. MaxRequests
      BY DEF TypeInv, TypeOK, DmaapTypeOK
    <2>2. requests' = requests \/ (requests < MaxRequests /\ requests' = requests + 1)
      BY DEF Arrive, GetDmaap
    <2> QED
      BY <2>1, <2>2, Bounds
  <1>3. rq' \in Request \cup {Idle, [pc |-> "get"]} /\ rq'.pc \in {"idle", "get", "check"}
        /\ (rq'.pc = "check" => rq'.i = 1)
    <2>1. "" \in EnvNames /\ 1 \in 1 .. Len(MgtActions) + 1
      BY MgtLen DEF EnvNames
    <2>2. ASSUME NEW op \in {"post", "put"}, NEW b \in Bodies
          PROVE  [pc |-> "check", op |-> op, body |-> b, env |-> "", i |-> 1, wrong |-> FALSE]
                   \in Request
      BY <2>1 DEF Request
    <2>3. CASE rq' = [pc |-> "get"] \/ rq' = Idle
      BY <2>3 DEF Idle
    <2>4. CASE \E op \in {"post", "put"}, b \in Bodies :
                 rq' = [pc |-> "check", op |-> op, body |-> b, env |-> "", i |-> 1,
                        wrong |-> FALSE]
      <3>1. PICK op \in {"post", "put"}, b \in Bodies :
              rq' = [pc |-> "check", op |-> op, body |-> b, env |-> "", i |-> 1,
                     wrong |-> FALSE]
        BY <2>4
      <3>2. rq' \in Request
        BY <2>2, <3>1
      <3>3. rq'.pc = "check" /\ rq'.i = 1
        BY <3>1
      <3> QED
        BY <3>2, <3>3
    <2> QED
      BY <2>3, <2>4 DEF Arrive, GetDmaap
  <1>4. RqOK'
    BY <1>1, <1>3 DEF RqOK, Early, Arrive, GetDmaap
  <1>5. UNCHANGED <<schVer, shape, stored, row, blind, skipped, boot, failures>>
        /\ UNCHANGED <<envPerms, envGrants, mgtPerms, mgtGrants>>
    BY DEF Arrive, GetDmaap, schemaVars, aafVars
  <1>6. obj' \in Row
    BY <1>1 DEF Arrive, GetDmaap, Get
  <1> QED
    BY <1>1, <1>2, <1>3, <1>4, <1>5, <1>6, ServeTypes
    DEF TypeInv, TypeOK, DmaapTypeOK, SchemaTypeOK

LEMMA TypesCheck == ASSUME TypeInv, Check, UNCHANGED crashes PROVE TypeInv'
  <1>1. rq \in Request /\ rq.pc = "check" /\ boot.pc = "serving" /\ row \in Row
    BY Serving DEF Check
  <1>2. rq' = Idle \/ Goto("update") \/ Goto("status")
    <2>1. rq.op \in {"post", "put"}
      BY <1>1 DEF Request
    <2> QED
      BY <2>1 DEF Check
  <1>3. rq' \in Request \cup {Idle} /\ rq'.pc \in {"idle", "update", "status"}
        /\ (rq'.pc = "update" => rq'.i = 1)
    BY <1>1, <1>2, GotoTyped DEF Idle, TypeInv, RqOK, Early
  <1>4. UNCHANGED <<schVer, shape, stored, row, blind, skipped, boot, failures, requests>>
        /\ UNCHANGED <<envPerms, envGrants, mgtPerms, mgtGrants>> /\ obj' = row
    BY DEF Check, schemaVars, aafVars, Get
  <1>5. RqOK'
    BY <1>1, <1>3, <1>4 DEF RqOK, Early
  <1> QED
    BY <1>1, <1>3, <1>4, <1>5, ServeTypes DEF TypeInv, TypeOK, DmaapTypeOK, SchemaTypeOK

LEMMA TypesUpdate == ASSUME TypeInv, Update, UNCHANGED crashes PROVE TypeInv'
  <1>1. rq \in Request /\ rq.pc = "update" /\ boot.pc = "serving" /\ rq.body \in Row
    BY Serving, BodiesAreRows DEF Update
  <1>2. rq' \in Request /\ rq'.pc = "envPerm" /\ rq'.body = rq.body /\ rq'.i = 1
    BY <1>1 DEF Update, Goto, Request, TypeInv, RqOK, Early
  <1>3. UNCHANGED <<schVer, shape, stored, blind, skipped, boot, failures, requests>>
        /\ UNCHANGED <<envPerms, envGrants, mgtPerms, mgtGrants>>
        /\ obj' = rq.body /\ row' = rq.body
    BY DEF Update, aafVars
  <1>4. RqOK'
    BY <1>1, <1>2, <1>3 DEF RqOK, Early
  <1> QED
    BY <1>1, <1>2, <1>3, <1>4, ServeTypes DEF TypeInv, TypeOK, DmaapTypeOK, SchemaTypeOK

LEMMA TypesEnvPerm == ASSUME TypeInv, EnvPerm, UNCHANGED crashes PROVE TypeInv'
  <1>1. /\ rq \in Request /\ rq.pc = "envPerm" /\ boot.pc = "serving"
        /\ row \in Row /\ row.name \in EnvNames /\ obj' = row
    BY Serving DEF EnvPerm, Get, Row, EnvNames
  <1>2. CASE Exits /\ UNCHANGED envPerms
    BY <1>1, <1>2, ExitTypes DEF EnvPerm, aafVars
  <1>3. CASE /\ \/ envPerms' = envPerms \cup {row.name} /\ UNCHANGED failures
                \/ Refused /\ UNCHANGED envPerms
             /\ rq' = [rq EXCEPT !.pc = "envGrant", !.env = row.name]
             /\ UNCHANGED boot
    <2>1. rq' \in Request /\ rq'.pc = "envGrant" /\ rq'.i = 1
      BY <1>1, <1>3 DEF Request, TypeInv, RqOK, Early
    <2>2. failures' \in 0 .. MaxFailures
      BY <1>3, MoreFailures DEF TypeInv, TypeOK, SchemaTypeOK, Refused
    <2>3. envPerms' \subseteq EnvNames /\ envGrants \subseteq envPerms'
      BY <1>1, <1>3 DEF TypeInv, TypeOK, DmaapTypeOK
    <2>4. UNCHANGED <<schVer, shape, stored, row, blind, skipped, requests>>
          /\ UNCHANGED <<envGrants, mgtPerms, mgtGrants>>
      BY DEF EnvPerm, schemaVars
    <2>5. RqOK'
      BY <1>1, <1>3, <2>1 DEF RqOK, Early
    <2> QED
      BY <1>1, <1>3, <2>1, <2>2, <2>3, <2>4, <2>5, ServeTypes DEF TypeInv, TypeOK, DmaapTypeOK
  <1> QED
    BY <1>2, <1>3 DEF EnvPerm

LEMMA TypesEnvGrant == ASSUME TypeInv, EnvGrant, UNCHANGED crashes PROVE TypeInv'
  <1>1. /\ rq \in Request /\ rq.pc = "envGrant" /\ boot.pc = "serving" /\ row \in Row
        /\ UNCHANGED <<schVer, shape, stored, row, blind, skipped, requests, obj>>
        /\ UNCHANGED <<envPerms, mgtPerms, mgtGrants>>
    BY Serving DEF EnvGrant, schemaVars
  <1>2. CASE Exits /\ UNCHANGED envGrants
    BY <1>1, <1>2, ExitTypes DEF aafVars, schemaVars, TypeInv, TypeOK, DmaapTypeOK
  <1>3. CASE /\ \/ rq.env \in envPerms /\ envGrants' = envGrants \cup {rq.env}
                   /\ UNCHANGED failures
                \/ rq.env \notin envPerms /\ UNCHANGED <<envGrants, failures>>
                \/ Refused /\ UNCHANGED envGrants
             /\ Goto("mgtPerm")
             /\ UNCHANGED boot
    <2>1. rq' \in Request /\ rq'.pc = "mgtPerm" /\ rq'.i = 1
      BY <1>1, <1>3, GotoTyped DEF TypeInv, RqOK, Early
    <2>2. failures' \in 0 .. MaxFailures
      BY <1>3, MoreFailures DEF TypeInv, TypeOK, SchemaTypeOK, Refused
    <2>3. envGrants' \subseteq envPerms
      BY <1>3 DEF TypeInv, TypeOK, DmaapTypeOK
    <2>4. RqOK'
      BY <1>1, <1>3, <2>1, MgtLen DEF RqOK, Early
    <2> QED
      BY <1>1, <1>3, <2>1, <2>2, <2>3, <2>4, ServeTypes DEF TypeInv, TypeOK, DmaapTypeOK
  <1> QED
    BY <1>2, <1>3 DEF EnvGrant


LEMMA TypesMgtPerm == ASSUME TypeInv, MgtPerm, UNCHANGED crashes PROVE TypeInv'
  <1>1. /\ rq \in Request /\ rq.pc = "mgtPerm" /\ boot.pc = "serving" /\ row \in Row
        /\ UNCHANGED <<schVer, shape, stored, row, blind, skipped, requests, obj>>
        /\ UNCHANGED <<envPerms, envGrants, mgtGrants>>
        /\ rq.i \in 1 .. Len(MgtActions) /\ rq.body \in Bodies
    BY Serving DEF MgtPerm, schemaVars, TypeInv, RqOK
  <1> DEFINE p == <<rq.body.name, MgtActions[rq.i]>>
  <1>2. p \in (Names \cup {""}) \X Actions
    BY <1>1, MgtLen, InstanceAssumption DEF Actions
  <1>3. CASE Exits /\ UNCHANGED mgtPerms
    BY <1>1, <1>3, ExitTypes DEF aafVars, schemaVars, TypeInv, TypeOK, DmaapTypeOK
  <1>4. CASE mgtPerms' = mgtPerms \cup {p} /\ Goto("mgtGrant") /\ UNCHANGED <<boot, failures>>
    <2>1. /\ rq' \in Request /\ rq'.pc = "mgtGrant" /\ rq'.i = rq.i /\ rq'.body = rq.body
      BY <1>1, <1>4, GotoTyped
    <2>2. RqOK'
      BY <1>1, <1>4, <2>1 DEF RqOK, Early
    <2>3. mgtPerms' \subseteq (Names \cup {""}) \X Actions /\ mgtGrants \subseteq mgtPerms'
      BY <1>2, <1>4 DEF TypeInv, TypeOK, DmaapTypeOK
    <2> HIDE DEF p
    <2> QED
      BY <1>1, <1>4, <2>1, <2>2, <2>3, ServeTypes
      DEF TypeInv, TypeOK, DmaapTypeOK, SchemaTypeOK
  <1>5. CASE Refused /\ Wrong /\ UNCHANGED <<mgtPerms, boot>>
    <2>1. rq' \in Request /\ rq'.pc = "status"
      BY <1>1, <1>5, WrongTyped
    <2>2. RqOK'
      BY <1>1, <1>5, <2>1 DEF RqOK, Early
    <2>3. failures' \in 0 .. MaxFailures
      BY <1>5, MoreFailures DEF TypeInv, Refused
    <2> HIDE DEF p
    <2> QED
      BY <1>1, <1>5, <2>1, <2>2, <2>3, ServeTypes DEF TypeInv, TypeOK, DmaapTypeOK
  <1> QED
    BY <1>3, <1>4, <1>5 DEF MgtPerm

LEMMA TypesMgtGrant == ASSUME TypeInv, MgtGrant, UNCHANGED crashes PROVE TypeInv'
  <1>1. /\ rq \in Request /\ rq.pc = "mgtGrant" /\ boot.pc = "serving" /\ row \in Row
        /\ UNCHANGED <<schVer, shape, stored, row, blind, skipped, requests, obj>>
        /\ UNCHANGED <<envPerms, envGrants, mgtPerms>>
        /\ rq.i \in 1 .. Len(MgtActions)
        /\ <<rq.body.name, MgtActions[rq.i]>> \in mgtPerms
    BY Serving DEF MgtGrant, schemaVars, TypeInv, RqOK
  <1> DEFINE p == <<rq.body.name, MgtActions[rq.i]>>
  <1>3. CASE Exits /\ UNCHANGED mgtGrants
    BY <1>1, <1>3, ExitTypes DEF aafVars, schemaVars, TypeInv, TypeOK, DmaapTypeOK
  <1>4. CASE mgtGrants' = mgtGrants \cup {p} /\ NextAction /\ UNCHANGED <<boot, failures>>
    <2> DEFINE q == IF rq.i < Len(MgtActions) THEN "mgtPerm" ELSE "mma"
    <2>1. rq.i + 1 \in 1 .. Len(MgtActions) + 1
      BY <1>1, MgtLen
    <2>2. rq' = [rq EXCEPT !.pc = q, !.i = rq.i + 1]
      BY <1>4 DEF NextAction
    <2>3. q \in {"mgtPerm", "mma"}
      OBVIOUS
    <2>4. q = "mgtPerm" => rq.i + 1 \in 1 .. Len(MgtActions)
      BY <1>1, MgtLen
    <2> HIDE DEF q
    <2>5. rq' \in Request /\ rq'.pc = q /\ rq'.i = rq.i + 1
      BY <1>1, <2>1, <2>2, <2>3 DEF Request
    <2>6. RqOK'
      BY <1>1, <1>4, <2>3, <2>4, <2>5 DEF RqOK, Early
    <2>7. mgtGrants' \subseteq mgtPerms
      BY <1>1, <1>4 DEF TypeInv, TypeOK, DmaapTypeOK
    <2> HIDE DEF p
    <2> QED
      BY <1>1, <1>4, <2>5, <2>6, <2>7, ServeTypes
      DEF TypeInv, TypeOK, DmaapTypeOK, SchemaTypeOK
  <1>5. CASE Refused /\ Wrong /\ UNCHANGED <<mgtGrants, boot>>
    <2>1. rq' \in Request /\ rq'.pc = "status"
      BY <1>1, <1>5, WrongTyped
    <2>2. RqOK'
      BY <1>1, <1>5, <2>1 DEF RqOK, Early
    <2>3. failures' \in 0 .. MaxFailures
      BY <1>5, MoreFailures DEF TypeInv, Refused
    <2> HIDE DEF p
    <2> QED
      BY <1>1, <1>5, <2>1, <2>2, <2>3, ServeTypes DEF TypeInv, TypeOK, DmaapTypeOK
  <1> QED
    BY <1>3, <1>4, <1>5 DEF MgtGrant

LEMMA TypesMmaTopic == ASSUME TypeInv, MmaTopic, UNCHANGED crashes PROVE TypeInv'
  <1>1. /\ rq \in Request /\ boot.pc = "serving" /\ row \in Row /\ obj' = row
        /\ UNCHANGED <<schVer, shape, stored, row, blind, skipped, requests>>
        /\ UNCHANGED <<envPerms, envGrants, mgtPerms, mgtGrants>>
    BY Serving DEF MmaTopic, schemaVars, aafVars, Get
  <1>2. CASE Exits
    BY <1>1, <1>2, ExitTypes DEF aafVars, schemaVars
  <1>3. CASE /\ Goto("status") \/ Wrong
             /\ UNCHANGED boot
             /\ Refused \/ UNCHANGED failures
    <2>1. rq' \in Request /\ rq'.pc = "status"
      BY <1>1, <1>3, WrongTyped, GotoTyped
    <2>2. RqOK'
      BY <1>1, <1>3, <2>1 DEF RqOK, Early
    <2>3. failures' \in 0 .. MaxFailures
      BY <1>3, MoreFailures DEF TypeInv, TypeOK, SchemaTypeOK, Refused
    <2> QED
      BY <1>1, <1>3, <2>1, <2>2, <2>3, ServeTypes DEF TypeInv, TypeOK, DmaapTypeOK
  <1> QED
    BY <1>2, <1>3 DEF MmaTopic

LEMMA TypesSetStatus == ASSUME TypeInv, SetStatus, UNCHANGED crashes PROVE TypeInv'
  <1>1. /\ rq \in Request /\ boot.pc = "serving" /\ row \in Row /\ rq.body \in Row
        /\ rq' = Idle /\ Idle.pc = "idle"
        /\ UNCHANGED <<schVer, shape, stored, blind, skipped, requests, boot, failures>>
        /\ UNCHANGED <<envPerms, envGrants, mgtPerms, mgtGrants>>
    BY Serving, BodiesAreRows DEF SetStatus, aafVars, Idle
  <1>2. row' \in Row /\ obj' \in Row
    <2>1. obj \in Row
      BY DEF TypeInv, TypeOK, DmaapTypeOK
    <2>2. ASSUME NEW r \in Row, NEW st \in {"INVALID", "VALID"}
          PROVE  [r EXCEPT !.st = st] \in Row
      BY DEF Row, Statuses
    <2> QED
      BY <1>1, <2>1, <2>2 DEF SetStatus
  <1>3. RqOK'
    BY <1>1 DEF RqOK, Early
  <1> QED
    BY <1>1, <1>2, <1>3, ServeTypes DEF TypeInv, TypeOK, DmaapTypeOK, SchemaTypeOK

LEMMA TypesCrash == ASSUME TypeInv, Crash PROVE TypeInv'
  <1>1. crashes' \in 0 .. MaxCrashes
    <2>1. crashes \in 0 .. MaxCrashes /\ crashes < MaxCrashes /\ crashes' = crashes + 1
      BY DEF Crash, TypeInv, TypeOK
    <2> QED
      BY <2>1, Bounds
  <1>2. boot' \in BootType /\ boot'.pc = "down" /\ rq' = Idle /\ Idle.pc = "idle"
    BY StageTyped DEF Crash, Down, Stages, Idle
  <1>3. UNCHANGED <<schVer, shape, stored, row, blind, skipped, failures, obj, requests>>
        /\ UNCHANGED <<envPerms, envGrants, mgtPerms, mgtGrants>>
    BY DEF Crash, schemaVars, aafVars
  <1>4. SchemaTypeOK' /\ DmaapTypeOK'
    BY <1>2, <1>3 DEF TypeInv, TypeOK, SchemaTypeOK, DmaapTypeOK, BootType
  <1> QED
    BY <1>1, <1>2, <1>3, <1>4 DEF TypeInv, TypeOK, RowThere, RqOK, Early

LEMMA NextTypes == TypeInv /\ [Next]_vars => TypeInv'
  <1> SUFFICES ASSUME TypeInv, [Next]_vars PROVE TypeInv'
    OBVIOUS
  <1>1. CASE Boot
    BY <1>1, BootTypes
  <1>2. CASE Serve /\ UNCHANGED crashes
    BY <1>2, TypesArrive, TypesCheck, TypesUpdate, TypesEnvPerm, TypesEnvGrant,
       TypesMgtPerm, TypesMgtGrant, TypesMmaTopic, TypesSetStatus DEF Serve
  <1>3. CASE PutRows \/ UNCHANGED vars
    BY <1>3 DEF PutRows, vars, schemaVars, aafVars, TypeInv, TypeOK, SchemaTypeOK, DmaapTypeOK,
       RowThere, RqOK
  <1>4. CASE Crash
    BY <1>4, TypesCrash
  <1> QED
    BY <1>1, <1>2, <1>3, <1>4 DEF Next

(* Every reachable state is type correct: a process that serves has a row, *)
(* and a grant is asked for a permission that AAF has.                     *)
THEOREM InstanceTypeCorrect == Spec => []TypeOK
  <1>1. TypeInv => TypeOK
    BY DEF TypeInv
  <1> QED
    BY InitTypes, NextTypes, <1>1, PTL DEF Spec

(* The permissions on the API are made for the name of the request: no     *)
(* step between Update and setEnvMap changes the row it is read from.      *)
THEOREM EnvMapIsForNewName == Spec => EnvMapForNewName
  <1>1. TypeInv /\ [Next]_vars =>
          [rq # Idle /\ rq'.pc = "envGrant" /\ rq.pc = "envPerm" => rq'.env = rq.body.name]_vars
    <2> SUFFICES ASSUME TypeInv, [Next]_vars, rq # Idle, rq'.pc = "envGrant", rq.pc = "envPerm"
                 PROVE  rq'.env = rq.body.name \/ UNCHANGED vars
      OBVIOUS
    <2>1. boot.pc = "serving" /\ row = rq.body
      BY DEF TypeInv, RqOK
    <2>6. rq \in Request
      <3>1. rq # [pc |-> "get"]
        OBVIOUS
      <3> QED
        BY <3>1 DEF TypeInv, TypeOK, DmaapTypeOK
    <2>2. CASE EnvPerm
      <3>1. CASE Exits
        BY <3>1 DEF Exits, Down, Idle
      <3>2. CASE rq' = [rq EXCEPT !.pc = "envGrant", !.env = row.name]
        BY <2>1, <2>6, <3>2 DEF Request
      <3> QED
        BY <2>2, <3>1, <3>2 DEF EnvPerm
    <2>3. CASE rq' = rq
      BY <2>3
    <2>4. CASE Crash
      BY <2>4 DEF Crash, Down, Idle
    <2>5. EnvPerm \/ rq' = rq \/ Crash
      <3>1. CASE Boot
        BY <2>1, <3>1 DEF Boot, Start, Upgrade, ReadVersion, RunStatement, EndScript,
           OpenTables, InitRow, SetDefaults, BootPerm, BootGrant, At
      <3>2. CASE Serve
        BY <2>1, <3>2 DEF Serve, Arrive, GetDmaap, Check, Update, EnvPerm, EnvGrant, MgtPerm,
           MgtGrant, MmaTopic, SetStatus, Busy, Idle
      <3>3. CASE PutRows \/ UNCHANGED vars
        BY <3>3 DEF PutRows, vars
      <3> QED
        BY <3>1, <3>2, <3>3 DEF Next
    <2> QED
      BY <2>2, <2>3, <2>4, <2>5
  <1> QED
    BY InitTypes, NextTypes, <1>1, PTL DEF Spec, EnvMapForNewName

-----------------------------------------------------------------------------
(* The schema.  Unless a version was not read, the script that runs is the *)
(* one after the version, which its last statement sets.                   *)
VersionInv ==
  ~blind =>
    /\ boot.pc = "script" /\ boot.n = 0 => schVer <= 0 /\ (boot.i <= 7 => schVer < 0)
    /\ boot.pc = "script" /\ boot.n > 0 =>
         \/ schVer = boot.n - 1
         \/ schVer = boot.n /\ boot.i > Len(Script(boot.n))

(* What a script has done so far: no start has skipped a statement, so     *)
(* that a table which the script makes is as it was, dropped, or made, and *)
(* behind the statement that makes it, made.                               *)
Dropped(n, t) == \E j \in 1 .. Len(Script(n)) - 1 :
                   Script(n)[j].does = "drop" /\ Script(n)[j].table = t
Between(v) ==
  \A t \in Tables :
    \/ shape[t] = ShapeAt(v)[t]
    \/ /\ v < LastScript /\ Makes(v + 1, t)
       /\ shape[t] = v + 1 \/ (shape[t] = Missing /\ Dropped(v + 1, t))

Done(n, i) ==
  LET c == Script(n) IN
  \A j \in 1 .. Len(c) - 1 :
    /\ j < i /\ c[j].does \in {"create", "alter"} => shape[c[j].table] = n
    /\ j = i - 1 /\ c[j].does = "drop" => shape[c[j].table] = Missing

DropsDone(i) == \A j \in 1 .. 4 : j < i => shape[DropTables[j].table] = Missing

ShapeInv ==
  ~blind /\ ~skipped =>
    /\ schVer >= 0 => Between(schVer)
    /\ boot.pc = "script" /\ boot.n = 0 => DropsDone(boot.i)
    /\ boot.pc = "script" /\ boot.n > 0 => Done(boot.n, boot.i)

LEMMA Versions0 ==
  ASSUME NEW d
  PROVE  /\ Version(d).does = d /\ Version(d).table \notin Tables
         /\ Version(d).at <=> d = "dropVersion"
  BY DEF Version, Tables

(* A statement of script 0, and one of a later script.                     *)
LEMMA FirstScript ==
  ASSUME NEW i \in 1 .. 7
  PROVE  LET s == Script(0)[i] IN
         /\ i \in 1 .. 4 => s = Drop(DropTables[i].table)
                            /\ DropTables[i].table \in Tables
         /\ i = 5 => s = Version("dropVersion")
         /\ i = 6 => s = Version("createVersion")
         /\ i = 7 => s = Version("insertVersion")
  <1> DEFINE c == Script(0)
  <1>1. /\ c[1] = Drop("dmaap") /\ c[2] = Drop("feed") /\ c[3] = Drop("topic")
        /\ c[4] = Drop("mirror_maker") /\ c[5] = Version("dropVersion")
        /\ c[6] = Version("createVersion") /\ c[7] = Version("insertVersion")
    BY ScriptsAre
  <1> DEFINE d == DropTables
  <1>2. /\ d[1] = Drop("dmaap") /\ d[2] = Drop("feed") /\ d[3] = Drop("topic")
        /\ d[4] = Drop("mirror_maker")
    BY DEF DropTables
  <1>3. {"dmaap", "feed", "topic", "mirror_maker"} = Tables
    BY DEF Tables
  <1> HIDE DEF c, d
  <1>4. i \in {1, 2, 3, 4, 5, 6, 7} /\ (i \in 1 .. 4 => i \in {1, 2, 3, 4})
    OBVIOUS
  <1>5. i \in 1 .. 4 => c[i] = Drop(d[i].table) /\ d[i].table \in Tables
    BY <1>1, <1>2, <1>3, <1>4, Statements
  <1>6. /\ i = 5 => c[i] = Version("dropVersion")
        /\ i = 6 => c[i] = Version("createVersion")
        /\ i = 7 => c[i] = Version("insertVersion")
    BY <1>1
  <1> QED
    BY <1>5, <1>6 DEF c, d

LEMMA LaterScript ==
  ASSUME NEW n \in 1 .. 7, NEW i \in 1 .. 10, i <= Len(Script(n))
  PROVE  \/ i = Len(Script(n)) /\ Script(n)[i] = Version("setVersion")
         \/ i \in 1 .. Len(Script(n)) - 1 /\ Change(Script(n)[i])
  <1> DEFINE l == Len(Script(n))
  <1>1. /\ l \in 2 .. 9 /\ i <= l
        /\ Script(n)[l] = Version("setVersion")
        /\ \A j \in 1 .. l - 1 : Change(Script(n)[j])
    BY ScriptsOK DEF ScriptOK, OneByOne
  <1> HIDE DEF l
  <1>2. i = l \/ i \in 1 .. l - 1
    BY <1>1
  <1> QED
    BY <1>1, <1>2 DEF l

LEMMA Numbers ==
  ASSUME TypeInv
  PROVE  /\ boot.n \in 0 .. 7 /\ boot.i \in 1 .. 10 /\ schVer \in Int
         /\ blind \in BOOLEAN /\ shape \in [Tables -> 0 .. 7]
  <1>1. boot.n \in 0 .. 7 /\ boot.i \in 1 .. 10
    BY DEF TypeInv, TypeOK, SchemaTypeOK, LastScript
  <1>2. schVer \in Int
    BY DEF TypeInv, TypeOK, SchemaTypeOK, LastScript, NoTable
  <1>3. blind \in BOOLEAN /\ shape \in [Tables -> 0 .. 7]
    BY DEF TypeInv, TypeOK, SchemaTypeOK, LastScript, Missing
  <1> QED
    BY <1>1, <1>2, <1>3

(* What the statements of a script do to the version.                      *)
LEMMA RunFirst ==
  ASSUME TypeInv, RunStatement, boot.n = 0, schVer < 0
  PROVE  /\ schVer' <= 0 /\ (boot.i < 7 => schVer' < 0)
         /\ boot' = At("tables") => schVer' < 0
  <1> DEFINE s == Script(0)[boot.i]
  <1>1. boot.i \in 1 .. 7 /\ schVer \in Int
    BY Numbers, ScriptLengths DEF RunStatement
  <1>2. UNCHANGED schVer \/ (Execute(s, 0) /\ boot' = Statement(0, boot.i + 1))
    BY DEF RunStatement, NextStatement, schemaVars
  <1>3. CASE boot.i < 7
    <2>1. s.does \in {"drop", "dropVersion", "createVersion"}
      <3>1. boot.i \in 1 .. 4 \/ boot.i = 5 \/ boot.i = 6
        BY <1>1, <1>3
      <3> QED
        BY <3>1, <1>1, FirstScript, Statements, Versions0
    <2> HIDE DEF s
    <2>2. schVer' \in {schVer, -2, -1}
      BY <1>2, <2>1 DEF Execute, NoTable, NoVersion
    <2> QED
      BY <1>1, <1>3, <2>2, <1>2 DEF At, Statement
  <1>4. CASE boot.i = 7
    <2>1. s.does = "insertVersion"
      BY <1>4, FirstScript, Versions0
    <2> HIDE DEF s
    <2>2. schVer' = schVer \/ (schVer' = 0 /\ boot' = Statement(0, boot.i + 1))
      BY <1>2, <2>1 DEF Execute
    <2>3. At("tables") # Statement(0, boot.i + 1)
      <3>1. At("tables").pc = "tables" /\ Statement(0, boot.i + 1).pc = "script"
        BY DEF At, Statement
      <3> QED
        BY <3>1
    <2> QED
      BY <1>1, <1>4, <2>2, <2>3
  <1> QED
    BY <1>1, <1>3, <1>4

LEMMA RunLater ==
  ASSUME TypeInv, RunStatement, boot.n \in 1 .. 7, schVer = boot.n - 1
  PROVE  \/ /\ boot.i = Len(Script(boot.n)) /\ schVer' = boot.n
            /\ boot' = Statement(boot.n, boot.i + 1)
            /\ UNCHANGED <<shape, stored, row, skipped>>
            /\ Script(boot.n)[boot.i] = Version("setVersion")
         \/ /\ boot.i = Len(Script(boot.n)) /\ boot' = At("tables")
            /\ UNCHANGED <<schVer, shape, stored, row, skipped>>
         \/ /\ boot.i \in 1 .. Len(Script(boot.n)) - 1 /\ Change(Script(boot.n)[boot.i])
            /\ UNCHANGED schVer
  <1> DEFINE n == boot.n
             s == Script(n)[boot.i]
  <1>1. boot.i \in 1 .. 10 /\ boot.i <= Len(Script(n))
    BY Numbers DEF RunStatement
  <1>2. CASE boot.i = Len(Script(n)) /\ s = Version("setVersion")
    <2>1. s.does = "setVersion" /\ ~s.at /\ s.table \notin Tables
      BY <1>2, Versions0
    <2>2. \/ Execute(s, n) /\ NextStatement /\ UNCHANGED skipped
          \/ UNCHANGED <<schVer, shape, stored, row, skipped>> /\ boot' = At("tables")
      BY <2>1 DEF RunStatement, schemaVars
    <2>3. CASE Execute(s, n) /\ NextStatement /\ UNCHANGED skipped
      <3> HIDE DEF s
      <3>1. schVer' = n
        BY <2>1, <2>3 DEF Execute
      <3>2. shape' = shape
        BY <2>1, <2>3, Numbers DEF Execute
      <3>3. stored' = stored /\ row' = row
        <4>1. s # Drop("dmaap")
          BY <2>1, Statements DEF Tables
        <4> QED
          BY <2>1, <2>3, <4>1 DEF Execute
      <3> QED
        BY <1>2, <2>3, <3>1, <3>2, <3>3 DEF NextStatement, s
    <2> QED
      BY <1>2, <2>2, <2>3
  <1>3. CASE boot.i \in 1 .. Len(Script(n)) - 1 /\ Change(s)
    <2>1. Execute(s, n) \/ UNCHANGED schVer
      BY DEF RunStatement, schemaVars
    <2>2. s.does \in {"drop", "create", "alter", "delete"}
      BY <1>3 DEF Change
    <2> HIDE DEF s
    <2>3. UNCHANGED schVer
      BY <2>1, <2>2 DEF Execute
    <2> QED
      BY <1>3, <2>3 DEF s
  <1> QED
    BY <1>1, <1>2, <1>3, LaterScript

LEMMA InitVersion == Init => VersionInv
  <1> SUFFICES ASSUME Init PROVE VersionInv
    OBVIOUS
  <1>1. /\ boot = At("down") /\ shape = ShapeAt(schVer) /\ schVer \in NoTable .. LastScript
        /\ schVer < 1 => stored = {} /\ row = NoRow
    BY InstanceAssumption DEF Init
  <1>2. boot.pc = "down"
    BY <1>1 DEF At
  <1>3. ASSUME schVer < 1 PROVE shape["mirror_maker"] = 0
    <2>1. schVer \in NoTable .. 7 /\ \A n \in 1 .. schVer : FALSE
      BY <1>1, <1>3 DEF LastScript, NoTable
    <2>2. "mirror_maker" \in Tables
      BY DEF Tables
    <2> QED
      BY <1>1, <2>1, <2>2, NoShape DEF Missing
  <1> QED
    BY <1>1, <1>2, <1>3 DEF VersionInv

(* A step that leaves the tables alone and starts no script.               *)
LEMMA SameVersion ==
  ASSUME TypeInv, VersionInv, UNCHANGED <<schVer, shape, stored, row>>,
         ~blind' => ~blind, boot' = boot \/ boot'.pc # "script",
         schVer < 1 => boot' = boot \/ boot'.pc \in {"down", "getVer", "tables"}
  PROVE  VersionInv'
  BY DEF VersionInv

LEMMA RunVersion == ASSUME TypeInv, VersionInv, RunStatement PROVE VersionInv'
  <1> SUFFICES ASSUME ~blind PROVE VersionInv'
    BY DEF VersionInv, RunStatement
  <1> DEFINE n == boot.n
             i == boot.i
             s == Script(n)[i]
  <1>1. n \in 0 .. 7 /\ i \in 1 .. 10 /\ schVer \in Int /\ i <= Len(Script(n))
        /\ boot.pc = "script"
    BY Numbers DEF RunStatement
  <1>2. boot' \in {At("tables"), Statement(n, i + 1)}
    BY DEF RunStatement, NextStatement
  <1>3. /\ At("tables").pc = "tables" /\ Statement(n, i + 1).pc = "script"
        /\ Statement(n, i + 1).n = n /\ Statement(n, i + 1).i = i + 1
    BY DEF At, Statement
  <1>4. Execute(s, n) \/ UNCHANGED <<schVer, shape, stored, row>>
    BY DEF RunStatement, schemaVars
  <1> HIDE DEF s
  <1>7. CASE n = 0
    <2>1. Len(Script(0)) = 7
      BY ScriptLengths
    <2>2. schVer < 0
      BY <1>1, <1>7, <2>1 DEF VersionInv
    <2>3. /\ schVer' <= 0 /\ (i < 7 => schVer' < 0)
          /\ boot' = At("tables") => schVer' < 0
      BY <1>7, <2>2, RunFirst
    <2>5. i + 1 <= 7 => i < 7
      BY <1>1
    <2> HIDE DEF n, i
    <2> QED
      BY <1>2, <1>3, <1>7, <2>3, <2>5 DEF VersionInv
  <1>8. CASE n \in 1 .. 7
    <2>1. schVer = n - 1
      BY <1>1, <1>8 DEF VersionInv
    <2>2. /\ schVer' \in {n - 1, n}
          /\ schVer' = n => i = Len(Script(n)) /\ boot' = Statement(n, i + 1)
      BY <1>1, <1>8, <2>1, RunLater
    <2> DEFINE l == Len(Script(n))
    <2>3. l \in Nat
      BY <1>1, ScriptLengths
    <2>4. schVer' = n - 1 \/ (schVer' = n /\ i + 1 > l)
      BY <1>1, <2>2, <2>3
    <2>7. n > 0
      BY <1>8
    <2> HIDE DEF n, i
    <2>8. boot'.pc = "script" => boot' = Statement(n, i + 1)
      BY <1>2, <1>3
    <2> QED
      BY <1>3, <2>4, <2>7, <2>8 DEF VersionInv, l
  <1>9. n = 0 \/ n \in 1 .. 7
    BY <1>1
  <1> QED
    BY <1>7, <1>8, <1>9

LEMMA BootVersion == ASSUME TypeInv, VersionInv, Boot PROVE VersionInv'
  <1>0. schVer \in Int /\ boot.n \in 0 .. 7 /\ boot.i \in 1 .. 10 /\ blind \in BOOLEAN
    BY Numbers
  <1>1. CASE Start \/ BootPerm \/ BootGrant
    <2>1. UNCHANGED <<schVer, shape, stored, row, blind>>
          /\ \E q \in {"getVer", "down", "bootGrant", "serving"} : boot' = At(q)
          /\ (boot.pc = "down" => boot' = At("getVer"))
          /\ boot.pc \in {"down", "bootPerm", "bootGrant"}
      BY <1>1 DEF Start, BootPerm, BootGrant, schemaVars, Exits, Down
    <2>2. \A q \in {"getVer", "down", "bootGrant", "serving"} : At(q).pc = q
      BY DEF At
    <2> QED
      BY <2>1, <2>2 DEF VersionInv
  <1>2. CASE InitRow \/ SetDefaults
    <2>1. UNCHANGED <<schVer, shape, stored, blind>>
          /\ \E q \in {"defaults", "bootPerm", "serving"} : boot' = At(q)
          /\ boot.pc \in {"init", "defaults"}
      BY <1>2 DEF InitRow, SetDefaults
    <2>2. \A q \in {"defaults", "bootPerm", "serving"} : At(q).pc = q
      BY DEF At
    <2> QED
      BY <2>1, <2>2 DEF VersionInv
  <1>3. CASE ReadVersion
    <2> SUFFICES ASSUME ~blind' PROVE VersionInv'
      BY DEF VersionInv
    <2>0. blind' = blind \/ blind' = (blind \/ schVer >= 0)
      BY <1>3 DEF ReadVersion
    <2>1. ~blind
      BY <2>0, Zenon
    <2>8. /\ UNCHANGED <<schVer, shape, stored, row>> /\ boot.pc = "getVer" /\ ~blind
      BY <1>3, <2>1 DEF ReadVersion, schemaVars
    <2>2. \/ boot' = At("tables")
          \/ boot' = Statement(0, 1) /\ schVer < 0
          \/ boot' = Statement(schVer + 1, 1) /\ schVer >= 0
      <3>1. CASE /\ boot' = LET n == IF schVer < 0 THEN 0 ELSE schVer + 1
                            IN IF n > LastScript THEN At("tables") ELSE Statement(n, 1)
        BY <1>0, <3>1 DEF LastScript
      <3>2. CASE boot' = Statement(0, 1) /\ blind' = (blind \/ schVer >= 0)
        <4>1. ~(schVer >= 0)
          BY <3>2, Zenon
        <4> QED
          BY <1>0, <3>2, <4>1
      <3> QED
        BY <1>3, <3>1, <3>2 DEF ReadVersion
    <2>3. /\ At("tables").pc = "tables"
          /\ \A n \in Int : /\ Statement(n, 1).pc = "script"
                            /\ Statement(n, 1).n = n /\ Statement(n, 1).i = 1
      BY DEF At, Statement
    <2>5. CASE boot' = At("tables")
      BY <1>0, <2>8, <2>3, <2>5 DEF VersionInv
    <2>6. CASE boot' = Statement(0, 1) /\ schVer < 0
      BY <1>0, <2>8, <2>3, <2>6 DEF VersionInv
    <2>7. CASE boot' = Statement(schVer + 1, 1) /\ schVer >= 0
      <3>1. boot'.pc = "script" /\ boot'.n = schVer + 1 /\ boot'.n > 0
        BY <1>0, <2>3, <2>7
      <3>2. schVer' = boot'.n - 1
        BY <1>0, <2>8, <3>1
      <3> QED
        BY <2>8, <3>1, <3>2 DEF VersionInv
    <2> QED
      BY <2>2, <2>5, <2>6, <2>7
  <1>4. CASE RunStatement
    BY <1>4, RunVersion
  <1>5. CASE EndScript
    <2> SUFFICES ASSUME ~blind PROVE VersionInv'
      BY <1>5 DEF VersionInv, EndScript
    <2>1. /\ UNCHANGED <<schVer, shape, stored, row>> /\ boot.pc = "script"
      BY <1>5 DEF EndScript, schemaVars
    <2>2. \/ boot' = At("tables")
          \/ schVer = boot.n /\ boot' = Statement(boot.n + 1, 1)
      BY <1>5 DEF EndScript
    <2>3. At("tables").pc = "tables"
      BY DEF At
    <2>5. CASE boot' = At("tables")
      BY <2>1, <2>3, <2>5 DEF VersionInv
    <2>6. CASE schVer = boot.n /\ boot' = Statement(boot.n + 1, 1)
      <3>1. boot'.pc = "script" /\ boot'.n = boot.n + 1
        BY <2>6 DEF Statement
      <3>2. boot'.n > 0 /\ schVer' = boot'.n - 1
        BY <1>0, <2>1, <2>6, <3>1
      <3> QED
        BY <2>1, <3>1, <3>2 DEF VersionInv
    <2> QED
      BY <2>2, <2>5, <2>6
  <1>6. CASE OpenTables
    <2>1. /\ UNCHANGED <<schVer, blind>>
          /\ boot' = At("down") \/ boot' = At("init")
      BY <1>6 DEF OpenTables, schemaVars
    <2>2. At("down").pc = "down" /\ At("init").pc = "init"
      BY DEF At
    <2> QED
      BY <2>1, <2>2 DEF VersionInv
  <1> QED
    BY <1>1, <1>2, <1>3, <1>4, <1>5, <1>6 DEF Boot, Upgrade

LEMMA NextVersion == TypeInv /\ VersionInv /\ [Next]_vars => VersionInv'
  <1> SUFFICES ASSUME TypeInv, VersionInv, [Next]_vars PROVE VersionInv'
    OBVIOUS
  <1>1. CASE Boot
    BY <1>1, BootVersion
  <1>2. CASE Serve
    <2>1. /\ UNCHANGED <<schVer, shape, stored, blind>> /\ boot.pc = "serving"
          /\ boot' = boot \/ boot' = At("down")
      BY <1>2 DEF Serve, Arrive, GetDmaap, Check, Update, EnvPerm, EnvGrant, MgtPerm,
         MgtGrant, MmaTopic, SetStatus, Busy, schemaVars, Exits, Down
    <2>2. At("down").pc = "down"
      BY DEF At
    <2> QED
      BY <2>1, <2>2 DEF VersionInv
  <1>3. CASE PutRows
    BY <1>3 DEF PutRows, VersionInv
  <1>4. CASE Crash
    <2>1. At("down").pc = "down"
      BY DEF At
    <2> QED
      BY <1>4, <2>1 DEF Crash, Down, schemaVars, VersionInv
  <1>5. CASE UNCHANGED vars
    BY <1>5 DEF vars, schemaVars, VersionInv
  <1> QED
    BY <1>1, <1>2, <1>3, <1>4, <1>5 DEF Next

Loses == IF schVer < 6 THEN {"mirror_maker"} ELSE {}
Keeps == schVer > 0 /\ ~blind' =>
           /\ stored \ Loses \subseteq stored'
           /\ row # NoRow /\ row.ver # "0" /\ row' # row => rq # Idle

LEMMA RunKeeps == ASSUME TypeInv, VersionInv, RunStatement PROVE Keeps
  <1> SUFFICES ASSUME ~blind PROVE Keeps
    BY DEF Keeps, RunStatement
  <1> DEFINE n == boot.n
             i == boot.i
             s == Script(n)[i]
  <1>1. n \in 0 .. 7 /\ i \in 1 .. 10 /\ schVer \in Int /\ i <= Len(Script(n))
        /\ boot.pc = "script"
    BY Numbers DEF RunStatement
  <1>2. Execute(s, n) \/ UNCHANGED <<schVer, shape, stored, row>>
    BY DEF RunStatement, schemaVars
  <1>3. CASE schVer < 1
    BY <1>1, <1>3 DEF Keeps
  <1>4. CASE n = 0
    <2>1. schVer < 0
      BY <1>1, <1>4, ScriptLengths DEF VersionInv
    <2> QED
      BY <1>1, <1>3, <2>1
  <1>5. CASE schVer >= 1 /\ n \in 1 .. 7
    <2>1. schVer = n - 1 /\ n > 1
      BY <1>1, <1>5 DEF VersionInv
    <2>2. CASE UNCHANGED <<stored, row>>
      BY <2>2 DEF Keeps
    <2>3. CASE i \in 1 .. Len(Script(n)) - 1 /\ Change(s) /\ Execute(s, n)
      <3>1. s.does \in {"drop", "delete"} => n \in 3 .. 6 /\ s.table = "mirror_maker"
        <4> DEFINE l == Len(Script(n)) - 1
        <4>1. OneByOne(n, Script(n), l)
          BY <1>5, ScriptsOK DEF ScriptOK
        <4>2. i \in 1 .. l
          BY <2>3
        <4> HIDE DEF l
        <4>3. s.does \in {"drop", "delete"} =>
                n = 1 \/ (n \in 3 .. 6 /\ s.table = "mirror_maker")
          BY <4>1, <4>2 DEF OneByOne
        <4> QED
          BY <2>1, <4>3
      <3>2. n \in 3 .. 6 => schVer < 6
        BY <1>1, <2>1
      <3>3. s # Drop("dmaap")
        BY <3>1, Statements DEF Tables
      <3> HIDE DEF s, n
      <3>4. row' = row
        BY <2>3, <3>3 DEF Execute
      <3>5. stored' = stored \/ (stored' = stored \ {"mirror_maker"} /\ schVer < 6)
        BY <2>3, <3>1, <3>2 DEF Execute
      <3> QED
        BY <3>4, <3>5 DEF Keeps, Loses
    <2> QED
      BY <1>2, <1>5, <2>1, <2>2, <2>3, RunLater
  <1>6. n = 0 \/ n \in 1 .. 7
    BY <1>1
  <1>7. schVer < 1 \/ schVer >= 1
    BY <1>1
  <1> QED
    BY <1>3, <1>4, <1>5, <1>6, <1>7

LEMMA NextKeeps == TypeInv /\ VersionInv /\ [Next]_vars => Keeps
  <1> SUFFICES ASSUME TypeInv, VersionInv, [Next]_vars PROVE Keeps
    OBVIOUS
  <1>1. CASE UNCHANGED <<stored, row>>
    BY <1>1 DEF Keeps
  <1>2. CASE RunStatement
    BY <1>2, RunKeeps
  <1>3. CASE InitRow \/ SetDefaults
    BY <1>3 DEF InitRow, SetDefaults, Keeps
  <1>4. CASE Update \/ SetStatus
    BY <1>4 DEF Update, SetStatus, Busy, Keeps
  <1>5. CASE PutRows
    BY <1>5 DEF PutRows, Keeps, TypeInv, TypeOK, SchemaTypeOK
  <1> QED
    BY <1>1, <1>2, <1>3, <1>4, <1>5
    DEF Next, Boot, Start, Upgrade, ReadVersion, EndScript, OpenTables, BootPerm, BootGrant,
        Serve, Arrive, GetDmaap, Check, EnvPerm, EnvGrant, MgtPerm, MgtGrant, MmaTopic, Crash,
        schemaVars, vars

(* From version 1 on no start loses what a server has stored, nor replaces *)
(* settings whose version is not 0, however many starts are cut short, by  *)
(* failed statements, exits and crashes, and from whichever release they   *)
(* come (LoadSchema, DatabaseClass).                                       *)
THEOREM RowsAreKept == Spec => RowsKept
  <1>1. TypeInv /\ VersionInv /\ [Next]_vars =>
          [schVer > 0 /\ ~blind' =>
             /\ stored \ (IF schVer < 6 THEN {"mirror_maker"} ELSE {}) \subseteq stored'
             /\ row # NoRow /\ row.ver # "0" /\ row' # row => rq # Idle]_vars
    BY NextKeeps DEF Keeps, Loses
  <1> QED
    BY InitTypes, NextTypes, InitVersion, NextVersion, <1>1, PTL DEF Spec, RowsKept

-----------------------------------------------------------------------------
LEMMA AllMade == ASSUME NEW t \in Tables PROVE Makes(1, t)
  <1> DEFINE c == Script(1)
  <1>1. Len(c) = 9
    BY ScriptsAre
  <1>2. /\ c[2] = Create("dmaap") /\ c[4] = Create("feed")
        /\ c[6] = Create("topic") /\ c[8] = Create("mirror_maker")
    BY ScriptsAre
  <1>3. {"dmaap", "feed", "topic", "mirror_maker"} = Tables
    BY DEF Tables
  <1> HIDE DEF c
  <1>4. \E i \in {2, 4, 6, 8} : c[i] = Create(t)
    BY <1>2, <1>3
  <1>5. PICK i \in {2, 4, 6, 8} : c[i].table = t /\ c[i].does = "create"
    BY <1>4, Statements
  <1>6. i \in 1 .. Len(c)
    BY <1>1
  <1> QED
    BY <1>5, <1>6 DEF Makes, c

LEMMA ShapeMade ==
  ASSUME NEW v \in 1 .. 7, NEW t \in Tables PROVE ShapeAt(v)[t] \in 1 .. v
  <1>1. \E n \in 1 .. v : Makes(n, t)
    BY AllMade
  <1>2. PICK k \in 1 .. v : Makes(k, t) /\ \A m \in k + 1 .. v : ~Makes(m, t)
    BY <1>1, LastMaker
  <1> QED
    BY <1>2, ShapeIs

LEMMA InitShape == Init => ShapeInv
  <1> SUFFICES ASSUME Init PROVE ShapeInv
    OBVIOUS
  <1>1. boot.pc = "down" /\ shape = ShapeAt(schVer)
    BY DEF Init, At
  <1> QED
    BY <1>1 DEF ShapeInv, Between

(* A script is done once its version is set.                               *)
LEMMA ScriptEnds ==
  ASSUME NEW n \in 1 .. 7, Between(n - 1), Done(n, Len(Script(n)))
  PROVE  Between(n)
  <1> SUFFICES ASSUME NEW t \in Tables PROVE shape[t] = ShapeAt(n)[t]
    BY DEF Between
  <1> DEFINE c == Script(n)
             l == Len(c) - 1
  <1>1. Len(c) \in 2 .. 9 /\ c[Len(c)] = Version("setVersion")
    BY ScriptsOK DEF ScriptOK
  <1>2. CASE Makes(n, t)
    <2>1. PICK j \in 1 .. Len(c) : c[j].table = t /\ c[j].does \in {"create", "alter"}
      BY <1>2 DEF Makes
    <2>2. j # Len(c)
      BY <1>1, <2>1, Versions0
    <2>3. j \in 1 .. l /\ j < Len(c)
      <3> DEFINE m == Len(c)
      <3>1. m \in 2 .. 9 /\ j \in 1 .. m /\ j # m
        BY <1>1, <2>2
      <3> HIDE DEF m
      <3>2. j \in 1 .. m - 1 /\ j < m
        BY <3>1
      <3> QED
        BY <3>2 DEF m
    <2>4. shape[t] = n
      BY <2>1, <2>3 DEF Done
    <2> QED
      BY <1>2, <2>4, ShapeNext
  <1>3. CASE ~Makes(n, t)
    <2>1. (n - 1) + 1 = n
      OBVIOUS
    <2>2. shape[t] = ShapeAt(n - 1)[t]
      BY <1>3, <2>1 DEF Between
    <2> QED
      BY <1>3, <2>2, ShapeNext
  <1> QED
    BY <1>2, <1>3

(* One statement of a script.                                              *)
LEMMA OneChange ==
  ASSUME TypeInv, NEW n \in 1 .. 7, NEW i \in 1 .. Len(Script(n)) - 1,
         Change(Script(n)[i]), Between(n - 1), Done(n, i),
         \/ Execute(Script(n)[i], n)
         \/ Inapplicable(Script(n)[i], n) /\ UNCHANGED shape
  PROVE  Between(n - 1)' /\ Done(n, i + 1)'
  <1> DEFINE c == Script(n)
             l == Len(c) - 1
             s == c[i]
             t == s.table
  <1>0. i \in 1 .. l /\ l \in 1 .. 8
    <2> DEFINE m == Len(c)
    <2>1. m \in 2 .. 9
      BY ScriptsOK DEF ScriptOK
    <2> HIDE DEF m
    <2>2. m - 1 \in 1 .. 8
      BY <2>1
    <2> QED
      BY <2>2 DEF m
  <1>1. OneByOne(n, c, l) /\ MakesOnce(c, l)
    BY ScriptsOK DEF ScriptOK
  <1>2. t \in Tables /\ s.does \in {"drop", "create", "alter", "delete"}
    BY DEF Change
  <1>3. \A j \in 1 .. l : j < i /\ c[j].does \in {"create", "alter"} => shape[c[j].table] = n
    BY <1>0 DEF Done
  <1>4. \A j \in 1 .. l : j = i - 1 /\ c[j].does = "drop" => shape[c[j].table] = Missing
    BY <1>0 DEF Done
  <1>5. s.does \in {"create", "alter", "drop"} => Makes(n, t)
    <2>1. ASSUME NEW j \in 1 .. l PROVE j \in 1 .. Len(c)
      BY <1>0
    <2>2. CASE s.does \in {"create", "alter"}
      BY <1>0, <2>1, <2>2 DEF Makes
    <2>3. CASE s.does = "drop"
      <3>1. i + 1 \in 1 .. l /\ c[i + 1] = Create(t)
        BY <1>0, <1>1, <2>3 DEF OneByOne
      <3>2. c[i + 1].table = t /\ c[i + 1].does = "create"
        BY <1>2, <3>1, Statements
      <3> QED
        BY <2>1, <3>1, <3>2 DEF Makes
    <2> QED
      BY <2>2, <2>3
  <1>6. s.does = "drop" => Dropped(n, t)
    BY <1>0 DEF Dropped
  <1>7. s.does = "create" => shape[t] = Missing
    <2> SUFFICES ASSUME s.does = "create" PROVE shape[t] = Missing
      OBVIOUS
    <2>1. i > 1 /\ c[i - 1] = Drop(t)
      BY <1>0, <1>1 DEF OneByOne
    <2>2. i - 1 \in 1 .. l
      BY <1>0, <2>1
    <2> QED
      BY <1>2, <1>4, <2>1, <2>2, Statements
  <1>8. s.does = "alter" => shape[t] # Missing
    <2> SUFFICES ASSUME s.does = "alter" PROVE shape[t] # Missing
      OBVIOUS
    <2>1. n > 1
      BY <1>0, <1>1 DEF OneByOne
    <2>2. ~Dropped(n, t)
      BY <1>0, <1>1 DEF MakesOnce, Dropped
    <2>3. n - 1 \in 1 .. 7 /\ (n - 1) + 1 = n
      BY <2>1
    <2>4. ShapeAt(n - 1)[t] # Missing
      BY <1>2, <2>3, ShapeMade DEF Missing
    <2> QED
      BY <1>2, <2>1, <2>2, <2>3, <2>4 DEF Between, Missing
  <1>9. /\ \A u \in Tables : u # t => shape'[u] = shape[u]
        /\ s.does \in {"create", "alter"} => shape'[t] = n
        /\ s.does = "drop" => shape'[t] = Missing
        /\ s.does = "delete" => shape'[t] = shape[t]
    <2>1. CASE Execute(s, n)
      BY <1>2, <2>1 DEF Execute
    <2>2. CASE Inapplicable(s, n) /\ UNCHANGED shape
      <3> HIDE DEF s
      <3>1. /\ s.does = "drop" => shape[t] = Missing
            /\ s.does = "create" => shape[t] # Missing
            /\ s.does = "alter" => shape[t] \in {Missing, n}
        BY <2>2 DEF Inapplicable
      <3> QED
        BY <1>2, <1>7, <1>8, <2>2, <3>1
    <2> QED
      BY <2>1, <2>2
  <1> HIDE DEF l
  <1>10. Between(n - 1)'
    <2>1. (n - 1) + 1 = n /\ n - 1 < LastScript
      BY DEF LastScript
    <2> HIDE DEF s, t
    <2> SUFFICES ASSUME NEW u \in Tables
                 PROVE  \/ shape'[u] = ShapeAt(n - 1)[u]
                        \/ /\ Makes(n, u)
                           /\ shape'[u] = n \/ (shape'[u] = Missing /\ Dropped(n, u))
      BY <2>1 DEF Between
    <2>2. \/ shape[u] = ShapeAt(n - 1)[u]
          \/ /\ Makes(n, u)
             /\ shape[u] = n \/ (shape[u] = Missing /\ Dropped(n, u))
      BY <2>1 DEF Between
    <2> QED
      BY <1>2, <1>5, <1>6, <1>9, <2>2 DEF t
  <1>11. Done(n, i + 1)'
    <2> SUFFICES ASSUME NEW j \in 1 .. l
                 PROVE  /\ j < i + 1 /\ c[j].does \in {"create", "alter"} => shape'[c[j].table] = n
                        /\ j = i + 1 - 1 /\ c[j].does = "drop" => shape'[c[j].table] = Missing
      BY DEF Done, l
    <2>1. CASE j = i
      BY <1>0, <1>9, <2>1
    <2>2. CASE j < i /\ c[j].does \in {"create", "alter"}
      <3>1. shape[c[j].table] = n
        BY <1>3, <2>2
      <3>2. c[j].table = t => s.does = "delete"
        BY <1>0, <1>1, <2>2 DEF MakesOnce
      <3>3. c[j].table \in Tables
        BY <1>1 DEF OneByOne, Change
      <3>4. shape'[c[j].table] = n
        BY <1>9, <3>1, <3>2, <3>3
      <3> QED
        BY <1>0, <2>2, <3>4
    <2>3. j < i + 1 => j = i \/ j < i
      BY <1>0
    <2>4. j = i + 1 - 1 => j = i
      BY <1>0
    <2> QED
      BY <2>1, <2>2, <2>3, <2>4
  <1> QED
    BY <1>10, <1>11

LEMMA FirstShape ==
  ASSUME TypeInv, RunStatement, boot.n = 0, schVer < 0, ~skipped',
         NEW i \in 1 .. 10, boot.i = i, DropsDone(i)
  PROVE  /\ schVer' >= 0 => Between(schVer)'
         /\ boot'.pc = "script" => DropsDone(i + 1)'
  <1> DEFINE s == Script(0)[i]
             d(j) == DropTables[j].table
  <1>1. i \in 1 .. 7 /\ schVer \in Int /\ shape \in [Tables -> 0 .. 7]
    <2> DEFINE l == Len(Script(0))
    <2>1. i <= l
      BY DEF RunStatement
    <2>2. l = 7
      BY ScriptLengths
    <2> HIDE DEF l
    <2>3. i \in 1 .. 7
      BY <2>1, <2>2
    <2> QED
      BY <2>3, Numbers
  <1>2. \/ Execute(s, 0)
        \/ UNCHANGED <<schVer, shape>> /\ (boot'.pc = "script" => Inapplicable(s, 0))
    <2>1. At("tables").pc = "tables"
      BY DEF At
    <2> QED
      BY <1>1, <2>1 DEF RunStatement, schemaVars
  <1>3. CASE i \in 1 .. 4
    <2>1. s = Drop(d(i)) /\ d(i) \in Tables /\ s.does = "drop" /\ s.table = d(i)
      BY <1>3, FirstScript, Statements
    <2>2. schVer' < 0
      BY <1>1, <1>3, RunFirst
    <2>3. ASSUME boot'.pc = "script", NEW j \in 1 .. 4, j < i + 1 PROVE shape'[d(j)] = Missing
      <3>1. d(j) \in Tables
        BY FirstScript
      <3>2. j = i \/ (j < i /\ shape[d(j)] = Missing)
        BY <1>1, <2>3 DEF DropsDone
      <3>3. CASE Execute(s, 0)
        <4> HIDE DEF s, d
        <4> QED
          BY <2>1, <3>1, <3>2, <3>3 DEF Execute
      <3>4. CASE Inapplicable(s, 0) /\ UNCHANGED shape
        <4> HIDE DEF s, d
        <4>1. shape[d(i)] = Missing
          BY <2>1, <3>4 DEF Inapplicable
        <4> QED
          BY <3>2, <3>4, <4>1
      <3> QED
        BY <1>2, <2>3, <3>3, <3>4
    <2>4. ~(schVer' >= 0)
      <3>1. schVer' \in Int
        <4> HIDE DEF s
        <4> QED
          BY <1>1, <1>2 DEF Execute, NoTable, NoVersion
      <3> QED
        BY <2>2, <3>1
    <2>5. boot'.pc = "script" => DropsDone(i + 1)'
      BY <2>3 DEF DropsDone
    <2> QED
      BY <2>4, <2>5
  <1>4. CASE i \in 5 .. 7
    <2>1. s.table \notin Tables
      <3>1. i = 5 \/ i = 6 \/ i = 7
        BY <1>4
      <3> QED
        BY <1>1, <3>1, FirstScript, Versions0
    <2>2. shape' = shape
      <3> HIDE DEF s
      <3> QED
        BY <1>1, <1>2, <2>1 DEF Execute
    <2>3. \A j \in 1 .. 4 : shape[d(j)] = Missing
      BY <1>1, <1>4 DEF DropsDone
    <2>4. \A t \in Tables : shape[t] = Missing
      <3> DEFINE c == DropTables
      <3>1. /\ c[1] = Drop("dmaap") /\ c[2] = Drop("feed") /\ c[3] = Drop("topic")
            /\ c[4] = Drop("mirror_maker")
        BY DEF DropTables
      <3> HIDE DEF c
      <3>2. Tables = {"dmaap", "feed", "topic", "mirror_maker"}
        BY DEF Tables
      <3>3. \A j \in 1 .. 4 : shape[c[j].table] = Missing
        BY <2>3 DEF c
      <3>4. 1 \in 1 .. 4 /\ 2 \in 1 .. 4 /\ 3 \in 1 .. 4 /\ 4 \in 1 .. 4
        OBVIOUS
      <3> QED
        BY <3>1, <3>2, <3>3, <3>4, Statements
    <2>5. \A t \in Tables : ShapeAt(0)[t] = Missing
      <3>1. 0 \in NoTable .. 7 /\ \A n \in 1 .. 0 : FALSE
        BY DEF NoTable
      <3> QED
        BY <3>1, NoShape
    <2>6. schVer' >= 0 => schVer' = 0
      <3>1. schVer' <= 0
        BY RunFirst
      <3>2. schVer' \in Int
        <4> HIDE DEF s
        <4> QED
          BY <1>1, <1>2 DEF Execute, NoTable, NoVersion
      <3> QED
        BY <3>1, <3>2
    <2> QED
      BY <2>2, <2>3, <2>4, <2>5, <2>6 DEF Between, DropsDone
  <1>5. i \in 1 .. 4 \/ i \in 5 .. 7
    BY <1>1
  <1> QED
    BY <1>3, <1>4, <1>5

LEMMA RunShape == ASSUME TypeInv, VersionInv, ShapeInv, RunStatement PROVE ShapeInv'
  <1>1. (skipped' = skipped \/ skipped' = TRUE) /\ UNCHANGED blind
    BY DEF RunStatement
  <1> SUFFICES ASSUME ~blind, ~skipped, ~skipped' PROVE ShapeInv'
    <2>1. ~skipped' => ~skipped
      BY <1>1, Zenon
    <2> QED
      BY <1>1, <2>1 DEF ShapeInv
  <1>7. PICK n \in 0 .. 7, i \in 1 .. 10 : n = boot.n /\ i = boot.i
    BY Numbers
  <1> DEFINE s == Script(n)[i]
  <1>2. schVer \in Int /\ i <= Len(Script(n)) /\ boot.pc = "script"
    BY <1>7, Numbers DEF RunStatement
  <1>3. /\ At("tables").pc = "tables" /\ Statement(n, i + 1).pc = "script"
        /\ Statement(n, i + 1).n = n /\ Statement(n, i + 1).i = i + 1
        /\ boot' \in {At("tables"), Statement(n, i + 1)}
    BY <1>7 DEF At, Statement, RunStatement, NextStatement
  <1>4. CASE n = 0
    <2>1. schVer < 0
      BY <1>2, <1>4, <1>7, ScriptLengths DEF VersionInv
    <2>2. DropsDone(i)
      BY <1>2, <1>4, <1>7 DEF ShapeInv
    <2>3. /\ schVer' >= 0 => Between(schVer)'
          /\ boot'.pc = "script" => DropsDone(i + 1)'
      BY <1>4, <1>7, <2>1, <2>2, FirstShape
    <2>4. boot'.pc = "script" => boot'.n = 0 /\ boot'.i = i + 1
      BY <1>3, <1>4
    <2>5. boot'.pc = "script" => DropsDone(boot.i)'
      BY <2>3, <2>4 DEF DropsDone
    <2> QED
      BY <2>3, <2>4, <2>5 DEF ShapeInv
  <1>5. CASE n \in 1 .. 7
    <2>1. schVer = n - 1 /\ schVer >= 0
      BY <1>2, <1>5, <1>7 DEF VersionInv
    <2>2. Between(n - 1) /\ Done(n, i)
      BY <1>2, <1>5, <1>7, <2>1 DEF ShapeInv
    <2>3. boot'.pc = "script" => boot'.n = n /\ boot'.i = i + 1
      BY <1>3
    <2> SUFFICES Between(schVer)' /\ (boot'.pc = "script" => Done(n, i + 1)')
      <3>1. boot'.pc = "script" /\ Done(n, i + 1)' => Done(boot.n, boot.i)'
        BY <2>3 DEF Done
      <3> QED
        BY <1>5, <2>3, <3>1 DEF ShapeInv
    <2>4. CASE /\ i = Len(Script(n)) /\ schVer' = n
               /\ UNCHANGED shape
      <3>1. Between(n)
        BY <1>5, <2>2, <2>4, ScriptEnds
      <3>2. Between(schVer)'
        BY <2>4, <3>1 DEF Between
      <3>3. Done(n, i + 1)'
        <4> DEFINE c == Script(n)
                   l == Len(c) - 1
        <4>1. i = l + 1 /\ l \in 1 .. 8
          <5> DEFINE m == Len(c)
          <5>1. m \in 2 .. 9 /\ i = m
            BY <1>5, <2>4, ScriptsOK DEF ScriptOK
          <5> HIDE DEF m
          <5>2. i = (m - 1) + 1 /\ m - 1 \in 1 .. 8
            BY <5>1
          <5> QED
            BY <5>2 DEF m
        <4> HIDE DEF l
        <4>2. \A j \in 1 .. l : j < i /\ j # i + 1 - 1
          BY <4>1
        <4>3. \A j \in 1 .. l : c[j].does \in {"create", "alter"} => shape[c[j].table] = n
          BY <2>2, <4>2 DEF Done, l
        <4> QED
          BY <2>4, <4>2, <4>3 DEF Done, l
      <3> QED
        BY <3>2, <3>3
    <2>5. CASE /\ boot' = At("tables") /\ UNCHANGED <<schVer, shape>>
      BY <1>3, <2>1, <2>2, <2>5 DEF Between
    <2>6. CASE /\ i \in 1 .. Len(Script(n)) - 1 /\ Change(s) /\ UNCHANGED schVer
               /\ boot' # At("tables")
      <3>1. \/ Execute(s, n)
            \/ Inapplicable(s, n) /\ UNCHANGED shape
        BY <1>7, <2>6 DEF RunStatement, schemaVars
      <3>2. Between(n - 1)' /\ Done(n, i + 1)'
        BY <1>5, <2>2, <2>6, <3>1, OneChange
      <3> QED
        BY <2>1, <2>6, <3>2 DEF Between
    <2>7. boot' = At("tables") /\ UNCHANGED schVer
            => UNCHANGED shape
      <3>1. At("tables") # Statement(n, i + 1)
        BY <1>3
      <3> QED
        BY <1>7, <3>1 DEF RunStatement, NextStatement, schemaVars
    <2> QED
      BY <1>5, <1>7, <2>1, <2>4, <2>5, <2>6, <2>7, RunLater
  <1>6. n = 0 \/ n \in 1 .. 7
    BY <1>2
  <1> QED
    BY <1>4, <1>5, <1>6

(* A step that leaves the tables alone and runs no statement.              *)
LEMMA SameShape ==
  ASSUME ShapeInv, UNCHANGED <<schVer, shape>>, ~blind' => ~blind, ~skipped' => ~skipped,
         boot'.pc = "script" => boot'.i = 1 \/ boot' = boot,
         boot.n \in 0 .. 7
  PROVE  ShapeInv'
  <1> SUFFICES ASSUME ~blind, ~skipped PROVE ShapeInv'
    BY DEF ShapeInv
  <1>1. schVer' >= 0 => Between(schVer)'
    BY DEF ShapeInv, Between
  <1>2. CASE boot'.pc = "script" /\ boot'.i = 1
    <2>1. \A j \in 1 .. 4 : ~(j < 1)
      OBVIOUS
    <2>2. DropsDone(boot.i)'
      BY <1>2, <2>1 DEF DropsDone
    <2>3. ASSUME NEW n PROVE Done(n, 1)'
      <3> DEFINE l == Len(Script(n)) - 1
      <3> HIDE DEF l
      <3>1. \A j \in 1 .. l : ~(j < 1) /\ j # 1 - 1
        OBVIOUS
      <3> QED
        BY <3>1 DEF Done, l
    <2>4. Done(boot.n, boot.i)'
      BY <1>2, <2>3 DEF Done
    <2> QED
      BY <1>1, <2>2, <2>4 DEF ShapeInv
  <1>3. CASE boot' = boot
    BY <1>1, <1>3 DEF ShapeInv, DropsDone, Done
  <1>4. CASE boot'.pc # "script"
    BY <1>1, <1>4 DEF ShapeInv
  <1> QED
    BY <1>2, <1>3, <1>4

LEMMA NextShape == TypeInv /\ VersionInv /\ ShapeInv /\ [Next]_vars => ShapeInv'
  <1> SUFFICES ASSUME TypeInv, VersionInv, ShapeInv, [Next]_vars PROVE ShapeInv'
    OBVIOUS
  <1>1. boot.n \in 0 .. 7
    BY Numbers
  <1>2. CASE RunStatement
    BY <1>2, RunShape
  <1>3. CASE ReadVersion \/ EndScript
    <2>1. UNCHANGED <<schVer, shape, skipped>>
      BY <1>3 DEF ReadVersion, EndScript, schemaVars
    <2>2. ~blind' => ~blind
      <3>1. blind' = blind \/ blind' = (blind \/ schVer >= 0)
        BY <1>3 DEF ReadVersion, EndScript
      <3> QED
        BY <3>1, Zenon
    <2>3. boot'.pc = "script" => boot'.i = 1
      <3>1. At("tables").pc = "tables" /\ \A k : Statement(k, 1).i = 1
        BY DEF At, Statement
      <3> QED
        BY <1>3, <3>1 DEF ReadVersion, EndScript
    <2> QED
      BY <1>1, <2>1, <2>2, <2>3, SameShape
  <1>4. CASE UNCHANGED <<schVer, shape, blind, skipped>>
             /\ (boot' = boot \/ \E q \in Stages \ {"script"} : boot' = At(q))
    <2>1. \A q \in Stages \ {"script"} : At(q).pc # "script"
      BY DEF At
    <2> QED
      BY <1>1, <1>4, <2>1, SameShape
  <1>5. \/ RunStatement \/ ReadVersion \/ EndScript
        \/ /\ UNCHANGED <<schVer, shape, blind, skipped>>
           /\ boot' = boot \/ \E q \in Stages \ {"script"} : boot' = At(q)
    <2>1. CASE Start \/ OpenTables \/ InitRow \/ SetDefaults \/ BootPerm \/ BootGrant
      BY <2>1 DEF Start, OpenTables, InitRow, SetDefaults, BootPerm, BootGrant, Exits, Down,
         schemaVars, Stages
    <2>2. CASE Serve
      BY <2>2 DEF Serve, Arrive, GetDmaap, Check, Update, EnvPerm, EnvGrant, MgtPerm,
         MgtGrant, MmaTopic, SetStatus, Exits, Down, schemaVars, Stages
    <2>3. CASE PutRows \/ Crash \/ UNCHANGED vars
      BY <2>3 DEF PutRows, Crash, Down, vars, schemaVars, Stages
    <2> QED
      BY <2>1, <2>2, <2>3 DEF Next, Boot, Upgrade
  <1> QED
    BY <1>2, <1>3, <1>4, <1>5

(* The version tells what the tables are, whatever starts were cut short   *)
(* and from whichever release they come: a start that finds a script begun *)
(* runs it again from the first statement (LoadSchema).                    *)
THEOREM VersionTellsSchema == Spec => []SchemaOfVersion
  <1>1. ShapeInv => SchemaOfVersion
    BY DEF ShapeInv, SchemaOfVersion, Between
  <1> QED
    BY InitTypes, NextTypes, InitVersion, NextVersion, InitShape, NextShape, <1>1, PTL DEF Spec
=============================================================================
