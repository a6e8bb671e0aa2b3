-------------------------- MODULE WhatsAppSessions --------------------------
(***************************************************************************)
(* Candidate document sessions of WhatsApp chats: handlers of inbound      *)
(* messages (WhatsAppWebhookService.handle) claim a message and record it  *)
(* in a session of its sender; notifiers (deliver_pending_notifications)   *)
(* finalize the sessions whose window is over and acknowledge each of them *)
(* in the chat.  Both talk to the state endpoints of api/v1/whatsapp_state *)
(* and may run many at once: tasks of the poller, of the webhook and of    *)
(* the notification loop.                                                  *)
(*                                                                         *)
(* A handler's last request is two steps, what it reads and its commit,    *)
(* with the lock that SELECT ... FOR UPDATE takes held between them; the   *)
(* requests of a notifier lock what they read and are one step each.       *)
(*                                                                         *)
(* Time is counted in units of which Quiet are 60 s and HardMax 120 s.     *)
(* A definition headed "Mutation" is no part of the specification.         *)
(***************************************************************************)
EXTENDS Integers, FiniteSets

CONSTANTS
  Wamid,      \* inbound messages
  Phone,      \* senders
  SentBy,     \* the sender of each message
  KindOf,     \* "DOCUMENT", "KEYWORD" (a text with a financial word) or "CHAT"
  At,         \* provider_timestamp of each message
  Handler, Notifier,
  NoWamid,
  Quiet, HardMax, Slack, LateWindow, \* 60, 120, 10 and 300 seconds
  Horizon,    \* bound: the time at which the clock stops
  MaxTrouble, \* bound: crashes and failed sends
  MaxBatches  \* bound: batches the poller handles

ASSUME ChatAssumption ==
  /\ IsFiniteSet(Wamid) /\ SentBy \in [Wamid -> Phone]
  /\ KindOf \in [Wamid -> {"DOCUMENT", "KEYWORD", "CHAT"}]
  /\ At \in [Wamid -> Nat]
  /\ NoWamid \notin Wamid
  /\ Quiet \in Nat /\ HardMax \in Nat /\ Slack \in Nat /\ LateWindow \in Nat
  /\ Horizon \in Nat /\ MaxTrouble \in Nat /\ MaxBatches \in Nat

VARIABLES
  now,
  claimed,    \* messages with a row in whatsapp_message_logs
  chat,       \* whatsapp_document_sessions, in the order of created_at
  handler,
  notifier,
  batched,    \* _active_batch_senders
  batches,
  sent,       \* history: acknowledgements sent, by session
  reasons,    \* history: claims that took over a stale or a failed one, by session
  trouble

chatVars == <<now, claimed, chat, handler, notifier, batched, batches, sent, reasons, trouble>>

\* Every session starts with a message of its own, so there are enough rows.
Row == 1..Cardinality(Wamid)

ChatSession == [status: {"ABSENT", "OPEN", "FINALIZED"}, phone: Phone, first: Nat, last: Nat,
                wamids: SUBSET Wamid, late: SUBSET Wamid,
                ack: {"none", "fresh", "stale", "FAILED", "DELIVERED"}, acked: BOOLEAN]
\* ack is the delivery_status of the session's outbound log, PROCESSING told
\* apart by its age; session_metadata.ack_status says the same.

Handling == [pc: {"idle", "claimed", "finishing"}, wamid: Wamid \cup {NoWamid},
             open: {0} \cup Row, latest: {0} \cup Row, late: SUBSET Wamid]
Notice == [pc: {"idle", "notices", "sending", "reporting"},
           todo: SUBSET Row, row: {0} \cup Row, ok: BOOLEAN]

NoMessage == [pc |-> "idle", wamid |-> NoWamid, open |-> 0, latest |-> 0, late |-> {}]
NoNotice == [pc |-> "idle", todo |-> {}, row |-> 0, ok |-> FALSE]

(* Every variable holds what its column or local variable may hold.        *)
ChatTypeOK ==
  /\ now \in 0..Horizon
  /\ claimed \subseteq Wamid
  /\ chat \in [Row -> ChatSession]
  /\ handler \in [Handler -> Handling]
  /\ notifier \in [Notifier -> Notice]
  /\ batched \subseteq Phone /\ batches \in 0..MaxBatches
  /\ sent \in [Row -> Nat] /\ reasons \in [Row -> Nat]
  /\ trouble \in 0..MaxTrouble

ChatInit ==
  /\ now = 0
  /\ claimed = {}
  /\ chat = [r \in Row |-> [status |-> "ABSENT", phone |-> CHOOSE p \in Phone : TRUE, first |-> 0,
                            last |-> 0, wamids |-> {}, late |-> {}, ack |-> "none", acked |-> FALSE]]
  /\ handler = [h \in Handler |-> NoMessage]
  /\ notifier = [n \in Notifier |-> NoNotice]
  /\ batched = {} /\ batches = 0
  /\ sent = [r \in Row |-> 0] /\ reasons = [r \in Row |-> 0]
  /\ trouble = 0

Tick ==
  /\ now < Horizon
  /\ now' = now + 1
  /\ UNCHANGED <<claimed, chat, handler, notifier, batched, batches, sent, reasons, trouble>>

-----------------------------------------------------------------------------
(* Recording a message.                                                    *)

RowsWith(p, statuses) == {r \in Row : chat[r].status \in statuses /\ chat[r].phone = p}
Newest(rows) == IF rows = {} THEN 0 ELSE CHOOSE r \in rows : \A q \in rows : q <= r

\* Mutation: the row is read without FOR UPDATE.
NeverLocked(r) == FALSE

Locked(r) == \E h \in Handler : handler[h].pc = "finishing" /\ handler[h].open = r

\* uq_wa_log_org_wamid: a second delivery of the message is not claimed.
ClaimMessage(h, m) ==
  /\ handler[h].pc = "idle"
  /\ At[m] <= now
  /\ m \notin claimed
  /\ claimed' = claimed \cup {m}
  /\ handler' = [handler EXCEPT ![h] = [NoMessage EXCEPT !.pc = "claimed", !.wamid = m]]
  /\ UNCHANGED <<now, chat, notifier, batched, batches, sent, reasons, trouble>>

\* The document has been submitted or has failed: the session does not care.
FinishReads(h) ==
  /\ handler[h].pc = "claimed"
  /\ LET p == SentBy[handler[h].wamid]
         open == Newest(RowsWith(p, {"OPEN"}))
         latest == Newest(RowsWith(p, {"OPEN", "FINALIZED"}))
     IN  /\ open # 0 => ~Locked(open)
         /\ handler' = [handler EXCEPT ![h].pc = "finishing", ![h].open = open, ![h].latest = latest,
                                       ![h].late = IF latest = 0 THEN {} ELSE chat[latest].late]
  /\ UNCHANGED <<now, claimed, chat, notifier, batched, batches, sent, reasons, trouble>>

\* is_relevant_message: chat alone does not start a session.
Relevant(m, open) == KindOf[m] # "CHAT" \/ open # 0

Fits(m, r) ==
  LET gap == At[m] - chat[r].last
      maxGap == IF chat[r].phone \in batched THEN HardMax ELSE Quiet
  IN  -Slack <= gap /\ gap <= maxGap /\ At[m] - chat[r].first <= HardMax

\* A text that comes after its session is a late caption of it.
IsLate(m, r) ==
  /\ KindOf[m] # "DOCUMENT"
  /\ r # 0
  /\ At[m] - chat[r].last <= LateWindow

Joined(m, r) ==
  [chat EXCEPT ![r].wamids = @ \cup {m}, ![r].last = IF At[m] > @ THEN At[m] ELSE @]

\* The open session, if there is one, is over.
Closed(r) == IF r = 0 THEN chat ELSE [chat EXCEPT ![r].status = "FINALIZED"]

Used(table) == {r \in Row : table[r].status # "ABSENT"}

Opened(m, table) ==
  LET r == Cardinality(Used(table)) + 1
  IN  [table EXCEPT ![r] = [@ EXCEPT !.status = "OPEN", !.phone = SentBy[m],
                                     !.first = At[m], !.last = At[m], !.wamids = {m}]]

FinishCommits(h) ==
  LET m == handler[h].wamid
      open == handler[h].open
      latest == handler[h].latest
  IN  /\ handler[h].pc = "finishing"
      /\ chat' =
           IF ~Relevant(m, open) THEN chat
           ELSE IF open # 0 /\ Fits(m, open) THEN Joined(m, open)
           ELSE IF IsLate(m, latest)
             THEN [Closed(open) EXCEPT ![latest].late = handler[h].late \cup {m}]
           ELSE Opened(m, Closed(open))
      /\ handler' = [handler EXCEPT ![h] = NoMessage]
      /\ UNCHANGED <<now, claimed, notifier, batched, batches, sent, reasons, trouble>>

HandlerCrashes(h) ==
  /\ trouble < MaxTrouble
  /\ handler[h].pc # "idle"
  /\ handler' = [handler EXCEPT ![h] = NoMessage]
  /\ trouble' = trouble + 1
  /\ UNCHANGED <<now, claimed, chat, notifier, batched, batches, sent, reasons>>

\* batch_scope of the poller, around the handling of what it has polled; two
\* pollers share one set, and the first that leaves it takes the sender out.
BeginBatch(p) ==
  /\ batches < MaxBatches
  /\ \E m \in Wamid \ claimed : SentBy[m] = p /\ At[m] <= now
  /\ batched' = batched \cup {p}
  /\ batches' = batches + 1
  /\ UNCHANGED <<now, claimed, chat, handler, notifier, sent, reasons, trouble>>

EndBatch(p) ==
  /\ p \in batched
  /\ batched' = batched \ {p}
  /\ UNCHANGED <<now, claimed, chat, handler, notifier, batches, sent, reasons, trouble>>

-----------------------------------------------------------------------------
(* Finalizing and acknowledging.                                           *)

WindowOver(r) == chat[r].last + Quiet <= now \/ chat[r].first + HardMax <= now

Expired == {r \in Row : chat[r].status = "OPEN" /\ WindowOver(r)}

Finalized(rows) ==
  [r \in Row |-> IF r \in rows /\ chat[r].phone \notin batched
                 THEN [chat[r] EXCEPT !.status = "FINALIZED"] ELSE chat[r]]

\* Mutation: a claim of any age may be taken over.
ClaimableByAnyone(row) ==
  row.status = "FINALIZED" /\ ~row.acked /\ row.ack # "DELIVERED"

\* Mutation: a claim stays its owner's, dead or alive.
ClaimableOnce(row) ==
  row.status = "FINALIZED" /\ ~row.acked /\ row.ack \in {"none", "FAILED"}

Claimable(row) ==
  row.status = "FINALIZED" /\ ~row.acked /\ row.ack \in {"none", "stale", "FAILED"}

\* POST /notifications: finalize what is over, list what needs an acknowledgement.
PendingNotifications(n) ==
  /\ notifier[n].pc = "idle"
  /\ \A r \in Expired : ~Locked(r)
  /\ chat' = Finalized(Expired)
  /\ LET rows == {r \in Row : Claimable(Finalized(Expired)[r])}
     IN  notifier' = [notifier EXCEPT ![n].pc = IF rows = {} THEN "idle" ELSE "notices", ![n].todo = rows]
  /\ UNCHANGED <<now, claimed, handler, batched, batches, sent, reasons, trouble>>

\* POST /notifications/claim looks again, under a lock on the session; its
\* state endpoint is the only writer of ack.
ClaimNotice(n, r) ==
  /\ notifier[n].pc = "notices"
  /\ r \in notifier[n].todo
  /\ Claimable(chat[r])
  /\ chat' = [chat EXCEPT ![r].ack = "fresh"]
  /\ reasons' = [reasons EXCEPT ![r] = IF chat[r].ack \in {"stale", "FAILED"} THEN @ + 1 ELSE @]
  /\ notifier' = [notifier EXCEPT ![n] =
       [notifier[n] EXCEPT !.pc = "sending", !.todo = notifier[n].todo \ {r}, !.row = r]]
  /\ UNCHANGED <<now, claimed, handler, batched, batches, sent, trouble>>

AfterNotice(n, todo) ==
  notifier' = [notifier EXCEPT ![n] =
    [NoNotice EXCEPT !.pc = IF todo = {} THEN "idle" ELSE "notices", !.todo = todo]]

ClaimRefused(n, r) ==
  /\ notifier[n].pc = "notices"
  /\ r \in notifier[n].todo
  /\ ~Claimable(chat[r])
  /\ AfterNotice(n, notifier[n].todo \ {r})
  /\ UNCHANGED <<now, claimed, chat, handler, batched, batches, sent, reasons, trouble>>

Send(n) ==
  /\ notifier[n].pc = "sending"
  /\ sent' = [sent EXCEPT ![notifier[n].row] = @ + 1]
  /\ notifier' = [notifier EXCEPT ![n].pc = "reporting", ![n].ok = TRUE]
  /\ UNCHANGED <<now, claimed, chat, handler, batched, batches, reasons, trouble>>

\* ProviderError: a timeout leaves open whether the text has gone out.
SendFails(n) ==
  /\ trouble < MaxTrouble
  /\ notifier[n].pc = "sending"
  /\ \E gone \in {0, 1} : sent' = [sent EXCEPT ![notifier[n].row] = @ + gone]
  /\ notifier' = [notifier EXCEPT ![n].pc = "reporting", ![n].ok = FALSE]
  /\ trouble' = trouble + 1
  /\ UNCHANGED <<now, claimed, chat, handler, batched, batches, reasons>>

\* Mutation: a late report of a failure takes the acknowledgement back.
ReportedLast(row, ok) ==
  [row EXCEPT !.ack = IF ok THEN "DELIVERED" ELSE "FAILED", !.acked = ok]

\* mark_session_ack_confirmed and _failed: a failure leaves ack_sent_at alone.
Reported(row, ok) ==
  [row EXCEPT !.ack = IF ok THEN "DELIVERED" ELSE "FAILED", !.acked = row.acked \/ ok]

FinishNotice(n) ==
  /\ notifier[n].pc = "reporting"
  /\ chat' = [chat EXCEPT ![notifier[n].row] = Reported(chat[notifier[n].row], notifier[n].ok)]
  /\ AfterNotice(n, notifier[n].todo)
  /\ UNCHANGED <<now, claimed, handler, batched, batches, sent, reasons, trouble>>

NotifierCrashes(n) ==
  /\ trouble < MaxTrouble
  /\ notifier[n].pc # "idle"
  /\ notifier' = [notifier EXCEPT ![n] = NoNotice]
  /\ trouble' = trouble + 1
  /\ UNCHANGED <<now, claimed, chat, handler, batched, batches, sent, reasons>>

\* 30 s after a claim, whether its owner is dead or only slow.
ClaimGoesStale(r) ==
  /\ chat[r].ack = "fresh"
  /\ chat' = [chat EXCEPT ![r].ack = "stale"]
  /\ UNCHANGED <<now, claimed, handler, notifier, batched, batches, sent, reasons, trouble>>

-----------------------------------------------------------------------------
HandlerStep(h) == FinishReads(h) \/ FinishCommits(h)

NotifierStep(n) ==
  \/ PendingNotifications(n) \/ Send(n) \/ FinishNotice(n)
  \/ \E r \in Row : ClaimNotice(n, r) \/ ClaimRefused(n, r)

ChatNext ==
  \/ Tick
  \/ \E h \in Handler : HandlerStep(h) \/ HandlerCrashes(h) \/ \E m \in Wamid : ClaimMessage(h, m)
  \/ \E p \in Phone : BeginBatch(p) \/ EndBatch(p)
  \/ \E n \in Notifier : NotifierStep(n) \/ SendFails(n) \/ NotifierCrashes(n)
  \/ \E r \in Row : ClaimGoesStale(r)

ChatSafety == ChatInit /\ [][ChatNext]_chatVars

\* Tasks run on, the notification loop comes round, clocks tick.
ChatFairness ==
  /\ WF_chatVars(Tick)
  /\ \A h \in Handler : WF_chatVars(HandlerStep(h))
  /\ \A n \in Notifier : WF_chatVars(NotifierStep(n))
  /\ \A p \in Phone : WF_chatVars(EndBatch(p))
  /\ \A r \in Row : WF_chatVars(ClaimGoesStale(r))

ChatSpec == ChatSafety /\ ChatFairness

-----------------------------------------------------------------------------
(* Properties.                                                             *)

(* What a session that has been finalized, and perhaps acknowledged, is    *)
(* made of never changes any more: late texts go to its captions only.     *)
FinalizedKeepTheirMessages ==
  [][\A r \in Row : chat[r].status = "FINALIZED" =>
       chat'[r].status = "FINALIZED" /\ chat'[r].wamids = chat[r].wamids]_chatVars

(* A session is acknowledged once more in the chat only after a claim of   *)
(* its acknowledgement had failed or grown stale, and for each of these at *)
(* most once, whoever crashes and whatever a slow notifier still reports:  *)
(* two notifiers never both act on the same claim.  This is what the code  *)
(* does for the acknowledgement; it promises OneAckPerSession.             *)
AcksAreAccountedFor ==
  \A r \in Row : sent[r] <= 1 + reasons[r]

(* Exactly one acknowledgement per session: retries and restarts never     *)
(* duplicate it.  That is the service's own rule, and it does not hold.    *)
OneAckPerSession ==
  \A r \in Row : sent[r] <= 1

(* No acknowledgement is sent for a session that was already confirmed     *)
(* when its claim was made.                                                *)
ConfirmedStaysConfirmed ==
  [][\A r \in Row : chat[r].acked => chat'[r].acked /\ reasons'[r] = reasons[r]]_chatVars

(* A session that has been opened is in the end finalized and acknowledged.*)
OpenedIsAcked ==
  \A r \in Row : chat[r].status = "OPEN" ~> chat[r].acked
=============================================================================
