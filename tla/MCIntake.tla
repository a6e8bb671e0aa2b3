------------------------------- MODULE MCIntake -------------------------------
(***************************************************************************)
(* The intake for TLC: capture and sync, chat sessions and deferred        *)
(* analysis share no state, so a behaviour picks one of them and leaves    *)
(* the others at their initial states.  The sizes of the state graphs add  *)
(* up instead of multiplying.                                              *)
(***************************************************************************)
EXTENDS RemoteInbox, WhatsAppSessions, DeferredAnalysis, TLC

CONSTANTS m1, m2, f1, c1, c2, o1, w1, w2, p1

VARIABLE part

vars == <<part, inboxVars, chatVars, analysisVars>>

MCFileOf == m1 :> f1 @@ m2 :> f1
MCDeployments == {{c1, c2}, {c1, o1}}
MCSentBy == w1 :> p1 @@ w2 :> p1
MCKindOf == w1 :> "DOCUMENT" @@ w2 :> "KEYWORD"
MCAt == w1 :> 0 @@ w2 :> 1

Init ==
  /\ InboxInit /\ ChatInit /\ AnalysisInit
  /\ part \in {"inbox", "chat", "analysis"}
  /\ backend = "emulator" => atWork = {c1, o1}
  /\ part # "inbox" => backend = "worker" /\ atWork = {c1, c2}
  /\ part # "analysis" => caption = "none" /\ paper = "UPLOADED"

Next ==
  \/ part = "inbox" /\ InboxNext /\ UNCHANGED <<part, chatVars, analysisVars>>
  \/ part = "chat" /\ ChatNext /\ UNCHANGED <<part, inboxVars, analysisVars>>
  \/ part = "analysis" /\ AnalysisNext /\ UNCHANGED <<part, inboxVars, chatVars>>

\* The fairness of each part, in the behaviours that pick it.
Fairness ==
  /\ \A c \in Client : WF_inboxVars(part = "inbox" /\ c \in atWork /\ ClientStep(c))
  /\ \A m \in Message : WF_inboxVars(part = "inbox" /\ LeaseExpires(m))
  /\ WF_chatVars(part = "chat" /\ Tick)
  /\ \A h \in Handler : WF_chatVars(part = "chat" /\ HandlerStep(h))
  /\ \A n \in Notifier : WF_chatVars(part = "chat" /\ NotifierStep(n))
  /\ \A p \in Phone : WF_chatVars(part = "chat" /\ EndBatch(p))
  /\ \A r \in Row : WF_chatVars(part = "chat" /\ ClaimGoesStale(r))
  /\ WF_analysisVars(part = "analysis" /\ WorkerStep)

Spec == Init /\ [][Next]_vars /\ Fairness
=============================================================================
