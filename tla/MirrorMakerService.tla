------------------------- MODULE MirrorMakerService -------------------------
(***************************************************************************)
(* TopicService.checkForBridge and MirrorMakerService.updateMirrorMaker.   *)
(* For each location of the topic's graph the bridges of its replication   *)
(* case are made one after the other: read the mirror_maker row, append    *)
(* the topic, tell the agent, write the row back.                          *)
(***************************************************************************)
EXTENDS Dbc

(* checkForBridge begins.                                                  *)
StartBridge(w) ==
  LET th == t[w]
      g  == GraphOf(th.view, TRUE, layer)
  IN /\ th.pc = "bridge"
     /\ IF th.repl = None THEN Go(w, BridgeReturns(th, TRUE))
        ELSE IF \E c \in th.view : IsNull(c) THEN Go(w, ServerError)
        ELSE \E c \in CentralChoices(g, layer, NoLoc) :
               Go(w, [th EXCEPT !.locs = g, !.hub = c, !.wrong = FALSE, !.pc = "loc"])
     /\ UNCHANGED <<layer, clusters, topics, clients, mirrors, aafVars, mrVars, ctlVars>>

(* Mutant: the iteration over the graph does not advance.                  *)
VisitLocAgain(w) ==
  LET th == t[w] IN
  /\ th.pc = "loc"
  /\ \E l \in th.locs :
       Go(w, IF th.repl = NotSpecified THEN [th EXCEPT !.wrong = TRUE]
             ELSE [th EXCEPT !.pc = "plan",
                     !.plan = StepsAt(th.repl, th.hub, l, l \in ClusterLocs)])
  /\ UNCHANGED <<layer, clusters, topics, clients, mirrors, aafVars, mrVars, ctlVars>>

(* One location of the graph: which bridges it needs.                      *)
VisitLoc(w) ==
  LET th == t[w] IN
  /\ th.pc = "loc"
  /\ \E l \in th.locs :
       LET rest == [th EXCEPT !.locs = @ \ {l}] IN
       Go(w, IF th.repl = NotSpecified THEN [rest EXCEPT !.wrong = TRUE]
             ELSE [rest EXCEPT !.pc = "plan",
                     !.plan = StepsAt(th.repl, th.hub, l, l \in ClusterLocs)])
  /\ UNCHANGED <<layer, clusters, topics, clients, mirrors, aafVars, mrVars, ctlVars>>

(* No location left: checkForBridge returns.                               *)
EndBridge(w) ==
  LET th == t[w] IN
  /\ th.pc = "loc" /\ th.locs = {}
  /\ Go(w, BridgeReturns(th, ~th.wrong))
  /\ UNCHANGED <<layer, clusters, topics, clients, mirrors, aafVars, mrVars, ctlVars>>

(* Mutant: a new MirrorMaker object instead of the stored one.             *)
ReadMmNew(w) ==
  LET th == t[w]
      b  == Head(th.plan)
  IN /\ th.pc = "plan"
     /\ Go(w, IF th.plan = <<>> THEN [th EXCEPT !.pc = "loc"]
              ELSE IF b = Npe THEN ServerError
              ELSE [th EXCEPT !.pc = "mmCreate", !.mm = <<th.fqtn>>])
     /\ UNCHANGED <<layer, clusters, topics, clients, mirrors, aafVars, mrVars, ctlVars>>

(* getMirrorMaker and addTopic for the next bridge.                        *)
ReadMm(w) ==
  LET th == t[w]
      b  == Head(th.plan)
  IN /\ th.pc = "plan"
     /\ Go(w, IF th.plan = <<>> THEN [th EXCEPT !.pc = "loc"]
              ELSE IF b = Npe THEN ServerError
              ELSE [th EXCEPT !.pc = "mmCreate",
                      !.mm = Append(IF b \in DOMAIN mirrors THEN mirrors[b] ELSE <<>>,
                                    th.fqtn)])
     /\ UNCHANGED <<layer, clusters, topics, clients, mirrors, aafVars, mrVars, ctlVars>>

(* updateMirrorMaker: the createMirrorMaker message, through the first     *)
(* central cluster if there is one.  When it fails the object becomes      *)
(* INVALID, which no table keeps, and nothing else is sent.  An exception  *)
(* ends checkForBridge.                                                    *)
SendCreate(w) ==
  LET th == t[w] IN
  /\ th.pc = "mmCreate"
  /\ \/ /\ CentralsNpe
        /\ Go(w, [th EXCEPT !.err = "fail", !.wrong = TRUE, !.locs = {}, !.plan = <<>>,
                        !.pc = "loc"])
     \/ /\ ~CentralsNpe /\ Centrals = {}
        /\ Go(w, [th EXCEPT !.pc = "mmPut"])
     \/ /\ ~CentralsNpe /\ Centrals # {}
        /\ Go(w, [th EXCEPT !.pc = "mmWhitelist"])
     \/ /\ ~CentralsNpe /\ Centrals # {} /\ "mm" \in Faults
        /\ Go(w, [th EXCEPT !.pc = "mmPut"])
  /\ UNCHANGED <<layer, clusters, topics, clients, mirrors, aafVars, mrVars, ctlVars>>

(* Mutant: the whitelist sent has the new topic only.                      *)
SendWhitelistNewOnly(w) ==
  LET th == t[w] IN
  /\ th.pc = "mmWhitelist"
  /\ agent' = Set(agent, Head(th.plan), <<th.fqtn>>)
  /\ Go(w, [th EXCEPT !.pc = "mmPut"])
  /\ UNCHANGED <<layer, clusters, topics, clients, mirrors, aafVars, created, ctlVars>>

(* The updateWhiteList message, which replaces the agent's list.           *)
SendWhitelist(w) ==
  LET th == t[w]
      delivered == Set(agent, Head(th.plan), th.mm)
  IN /\ th.pc = "mmWhitelist"
     /\ \/ agent' = delivered
        \/ "mm" \in Faults /\ UNCHANGED agent
     /\ Go(w, [th EXCEPT !.pc = "mmPut"])
     /\ UNCHANGED <<layer, clusters, topics, clients, mirrors, aafVars, created, ctlVars>>

(* mirrors.put                                                             *)
PutMm(w) ==
  LET th == t[w] IN
  /\ th.pc = "mmPut"
  /\ mirrors' = Set(mirrors, Head(th.plan), th.mm)
  /\ Go(w, [th EXCEPT !.plan = Tail(@), !.pc = "plan"])
  /\ UNCHANGED <<layer, clusters, topics, clients, aafVars, mrVars, ctlVars>>

BridgeNext(w) ==
  \/ StartBridge(w) \/ VisitLoc(w) \/ EndBridge(w) \/ ReadMm(w) \/ SendCreate(w)
  \/ SendWhitelist(w) \/ PutMm(w)
=============================================================================
