----------------------------- MODULE RemoteInbox ----------------------------
(***************************************************************************)
(* Durable capture of WhatsApp messages while the Finance PC is off: the   *)
(* edge relay (a Cloudflare worker over D1, or the emulator the tests use  *)
(* in its place), RemoteInboxClient, which pulls from it, and the local    *)
(* inbox it fills (RemoteInboxService), up to the documents and sessions   *)
(* that it opens for DeferredAnalysis.                                     *)
(*                                                                         *)
(* A step is one SQL statement of the relay, which has no transactions, or *)
(* one part of a local transaction: what it reads, and its commit.  The    *)
(* writes between the two stay invisible until the commit; a unique index  *)
(* that refuses one of them rolls everything back, so it is enough to look *)
(* at the index at the commit.                                             *)
(*                                                                         *)
(* A definition headed "Mutation" is no part of the specification: it is   *)
(* the bug that a property named in PROJECT.json would find.               *)
(***************************************************************************)
EXTENDS Naturals, FiniteSets

CONSTANTS
  Message,    \* wamids
  Barred,     \* the messages of senders the allowlist refuses
  BadMedia,   \* the messages whose media is missing or fails its SHA-256
  File,       \* contents of attachments
  NoFile,     \* a message without attachment
  FileOf,     \* the first attachment of each message
  Client,     \* runs of RemoteInboxClient, on one PC or on two
  Operator,   \* users of the /inbox routes
  Deployments,\* which clients and operators may be at work together
  Limit,      \* how many messages a pull asks for
  MaxCrashes  \* bound: crashes and failed local transactions

ASSUME InboxAssumption ==
  /\ Barred \subseteq Message /\ BadMedia \subseteq Message
  /\ NoFile \notin File
  /\ FileOf \in [Message -> File \cup {NoFile}]
  /\ Client \cap Operator = {}
  /\ Deployments \subseteq {D \in SUBSET (Client \cup Operator) : D \cap Client # {}}
  /\ Limit \in Nat \ {0}
  /\ MaxCrashes \in Nat

VARIABLES
  backend,    \* which relay the clients talk to; never changes
  atWork,     \* the clients and operators there are; never changes
  relay,      \* inbound_messages at the edge
  inbox,      \* inbox_messages: the status of each message
  documents,  \* the contents stored; uq_documents_org_file_hash allows one each
  sessions,   \* document_sessions, by message and by who opened them
  syncer,     \* what each client and each operator is doing
  crashes,
  overlap     \* history: the messages two open transactions synced at once

setup == <<backend, atWork>>
inboxVars == <<setup, relay, inbox, documents, sessions, syncer, crashes, overlap>>

Syncer == Client \cup Operator

Capture == [status: {"ABSENT", "PENDING_LOCAL", "LEASED", "SYNCED"},
            lease: {"none", "live", "expired"}, received_at: Nat]

Idle == [pc |-> "idle", items |-> {}, todo |-> {}, new |-> {}, backlog |-> {}, made |-> {}]
Cycle == [pc: {"idle", "leasing", "pulled", "read", "acking"},
          items: SUBSET Message, todo: SUBSET Message,
          new: SUBSET Message, backlog: SUBSET Message, made: SUBSET File]

(* Every variable holds what its column or local variable may hold.        *)
InboxTypeOK ==
  /\ backend \in {"worker", "emulator"}
  /\ atWork \in Deployments
  /\ relay \in [Message -> Capture]
  /\ inbox \in [Message -> {"ABSENT", "RECEIVED", "SYNCED"}]
  /\ documents \subseteq File
  /\ sessions \subseteq Message \X Syncer
  /\ syncer \in [Syncer -> Cycle]
  /\ crashes \in 0..MaxCrashes
  /\ overlap \subseteq Message

InboxInit ==
  /\ backend \in {"worker", "emulator"}
  /\ atWork \in Deployments
  /\ relay = [m \in Message |-> [status |-> "ABSENT", lease |-> "none", received_at |-> 0]]
  /\ inbox = [m \in Message |-> "ABSENT"]
  /\ documents = {}
  /\ sessions = {}
  /\ syncer = [p \in Syncer |-> Idle]
  /\ crashes = 0
  /\ overlap = {}

-----------------------------------------------------------------------------
(* The relay.                                                              *)

Captured == {m \in Message : relay[m].status # "ABSENT"}

\* The webhook; a wamid it has is passed over, so Meta may deliver it again.
HandleInboundWebhook(m) ==
  /\ m \notin Barred
  /\ m \notin Captured
  /\ relay' = [relay EXCEPT ![m] = [status |-> "PENDING_LOCAL", lease |-> "none",
                                    received_at |-> Cardinality(Captured) + 1]]
  /\ UNCHANGED <<setup, inbox, documents, sessions, syncer, crashes, overlap>>

\* Mutation: what a crashed client had leased is not offered again.
DueUnleased == {m \in Message : relay[m].status = "PENDING_LOCAL"}

Due == {m \in Message : \/ relay[m].status = "PENDING_LOCAL"
                        \/ relay[m].status = "LEASED" /\ relay[m].lease = "expired"}

\* What SELECT ... ORDER BY received_at LIMIT returns.
OldestDue(S) ==
  /\ S # {} /\ S \subseteq Due
  /\ Cardinality(S) <= Limit
  /\ S # Due => Cardinality(S) = Limit
  /\ \A m \in S, k \in Due \ S : relay[m].received_at <= relay[k].received_at

LeasedRow(m) == [relay[m] EXCEPT !.status = "LEASED", !.lease = "live"]

\* The worker selects first and updates afterwards, row by row.
SelectPending(c) ==
  /\ backend = "worker"
  /\ syncer[c].pc = "idle"
  /\ \E S \in SUBSET Message :
       /\ OldestDue(S)
       /\ syncer' = [syncer EXCEPT ![c] = [Idle EXCEPT !.pc = "leasing", !.items = S, !.todo = S]]
  /\ UNCHANGED <<setup, relay, inbox, documents, sessions, crashes, overlap>>

\* UPDATE ... WHERE id = ?: whatever has become of the row since it was selected.
LeaseItem(c) ==
  /\ syncer[c].pc = "leasing"
  /\ \E m \in syncer[c].todo :
       /\ \A k \in syncer[c].todo : relay[m].received_at <= relay[k].received_at
       /\ relay' = [relay EXCEPT ![m] = LeasedRow(m)]
       /\ syncer' = [syncer EXCEPT ![c].todo = @ \ {m},
                                   ![c].pc = IF syncer[c].todo = {m} THEN "pulled" ELSE @]
  /\ UNCHANGED <<setup, inbox, documents, sessions, crashes, overlap>>

\* The emulator does both in one call.
PullFromEmulator(c) ==
  /\ backend = "emulator"
  /\ syncer[c].pc = "idle"
  /\ \E S \in SUBSET Message :
       /\ OldestDue(S)
       /\ relay' = [m \in Message |-> IF m \in S THEN LeasedRow(m) ELSE relay[m]]
       /\ syncer' = [syncer EXCEPT ![c] = [Idle EXCEPT !.pc = "pulled", !.items = S]]
  /\ UNCHANGED <<setup, inbox, documents, sessions, crashes, overlap>>

LeaseExpires(m) ==
  /\ relay[m].lease = "live"
  /\ relay' = [relay EXCEPT ![m].lease = "expired"]
  /\ UNCHANGED <<setup, inbox, documents, sessions, syncer, crashes, overlap>>

\* Mutation: an acknowledgement that comes after the lease is ignored.
AcknowledgedInTime(m) ==
  IF relay[m].lease # "live" THEN relay[m]
  ELSE [relay[m] EXCEPT !.status = "SYNCED", !.lease = "none"]

\* Only the emulator asks whether the message is still leased; nobody reads the
\* lease of a SYNCED row.
Acknowledged(m) ==
  IF backend = "emulator" /\ relay[m].status # "LEASED" THEN relay[m]
  ELSE [relay[m] EXCEPT !.status = "SYNCED", !.lease = "none"]

AckItem(c) ==
  /\ syncer[c].pc = "acking"
  /\ \E m \in syncer[c].todo :
       /\ relay' = [relay EXCEPT ![m] = Acknowledged(m)]
       /\ syncer' = [syncer EXCEPT ![c] =
                       IF syncer[c].todo = {m} THEN Idle
                       ELSE [syncer[c] EXCEPT !.todo = syncer[c].todo \ {m}]]
  /\ UNCHANGED <<setup, inbox, documents, sessions, crashes, overlap>>

-----------------------------------------------------------------------------
(* The local database.                                                     *)

Verified(items) == items \ BadMedia
Present == {m \in Message : inbox[m] # "ABSENT"}

\* Mutation: the sync takes messages of any status.
ReceivedOrSynced == {m \in Message : inbox[m] # "ABSENT"}

Received == {m \in Message : inbox[m] = "RECEIVED"}

Attached(S) == {FileOf[m] : m \in S} \ {NoFile}

\* The part of a transaction that reads: which messages are new, which are in
\* the backlog with them, which documents those lack.
Reads(p, items, acks) ==
  LET new == items \ Present
      backlog == Received \cup new
  IN  /\ syncer' = [syncer EXCEPT ![p] =
                      [Idle EXCEPT !.pc = "read", !.todo = acks, !.new = new,
                         !.backlog = backlog, !.made = Attached(backlog) \ documents]]
      /\ overlap' = overlap \cup
           {m \in backlog : \E q \in Syncer \ {p} : syncer[q].pc = "read" /\ m \in syncer[q].backlog}

\* Mutation: everything that was pulled is acknowledged.
EveryPulled(items) == items

\* successful_ids: what the cycle will acknowledge.
Successful(items) == Verified(items)

ClientReads(c) ==
  /\ syncer[c].pc = "pulled"
  /\ Reads(c, Verified(syncer[c].items), Successful(syncer[c].items))
  /\ UNCHANGED <<setup, relay, inbox, documents, sessions, crashes>>

OperatorReads(o) ==
  /\ syncer[o].pc = "idle"
  /\ Received # {}
  /\ Reads(o, {}, {})
  /\ UNCHANGED <<setup, relay, inbox, documents, sessions, crashes>>

\* uq_inbox_message_external_id and uq_documents_org_file_hash.
Refused(p) == syncer[p].new \cap Present # {} \/ syncer[p].made \cap documents # {}

\* The messages in T leave the inbox; those the transaction read get a session
\* per attachment.
TakesFromInbox(p, T) ==
  /\ inbox' = [m \in Message |-> IF m \in T THEN "SYNCED" ELSE inbox[m]]
  /\ documents' = documents \cup syncer[p].made
  /\ sessions' = sessions \cup ({m \in syncer[p].backlog : FileOf[m] # NoFile} \X {p})

\* Mutation: it takes whatever is in the inbox when it commits.
SyncedByStatus(p) == TakesFromInbox(p, syncer[p].backlog \cup Received)

\* What sync_backlog writes.
Synced(p) == TakesFromInbox(p, syncer[p].backlog)

\* Then the client acknowledges what it ingested.
ClientCommits(c) ==
  /\ syncer[c].pc = "read"
  /\ ~Refused(c)
  /\ Synced(c)
  /\ syncer' = [syncer EXCEPT ![c] =
                  IF syncer[c].todo = {} THEN Idle
                  ELSE [Idle EXCEPT !.pc = "acking", !.todo = syncer[c].todo]]
  /\ UNCHANGED <<setup, relay, crashes, overlap>>

OperatorCommits(o) ==
  /\ syncer[o].pc = "read"
  /\ ~Refused(o)
  /\ Synced(o)
  /\ syncer' = [syncer EXCEPT ![o] = Idle]
  /\ UNCHANGED <<setup, relay, crashes, overlap>>

\* The insert that an index refuses fails the whole cycle.
RolledBack(p) ==
  /\ syncer[p].pc = "read"
  /\ Refused(p)
  /\ syncer' = [syncer EXCEPT ![p] = Idle]
  /\ UNCHANGED <<setup, relay, inbox, documents, sessions, crashes, overlap>>

\* POST /inbox/capture, a transaction of its own.
IngestRemoteCapture(m) ==
  /\ inbox[m] = "ABSENT"
  /\ inbox' = [inbox EXCEPT ![m] = "RECEIVED"]
  /\ UNCHANGED <<setup, relay, documents, sessions, syncer, crashes, overlap>>

Crash(p) ==
  /\ crashes < MaxCrashes
  /\ syncer[p].pc # "idle"
  /\ syncer' = [syncer EXCEPT ![p] = Idle]
  /\ crashes' = crashes + 1
  /\ UNCHANGED <<setup, relay, inbox, documents, sessions, overlap>>

-----------------------------------------------------------------------------
ClientStep(c) ==
  \/ SelectPending(c) \/ LeaseItem(c) \/ PullFromEmulator(c)
  \/ ClientReads(c) \/ ClientCommits(c) \/ RolledBack(c) \/ AckItem(c)

OperatorStep(o) == OperatorReads(o) \/ OperatorCommits(o) \/ RolledBack(o)

InboxNext ==
  \/ \E m \in Message : HandleInboundWebhook(m) \/ LeaseExpires(m) \/ IngestRemoteCapture(m)
  \/ \E c \in Client \cap atWork : ClientStep(c)
  \/ \E o \in Operator \cap atWork : OperatorStep(o)
  \/ \E p \in Syncer : Crash(p)

InboxSafety == InboxInit /\ [][InboxNext]_inboxVars

\* The Finance PC keeps running its cycles, and clocks run.
InboxFairness ==
  /\ \A c \in Client : WF_inboxVars(c \in atWork /\ ClientStep(c))
  /\ \A m \in Message : WF_inboxVars(LeaseExpires(m))

InboxSpec == InboxSafety /\ InboxFairness

-----------------------------------------------------------------------------
(* Properties.                                                             *)

Settled == {m \in Message : relay[m].status = "SYNCED"}

(* The relay forgets a message (SYNCED) only when the local database has   *)
(* it: in spite of crashes between commit and acknowledgement, of stale    *)
(* pulls and of batches some of whose media fail verification.             *)
AckedIsIngested == Settled \subseteq Present

(* A message that left the backlog with an attachment has a session to     *)
(* analyse and a document that the session shows, although syncs overlap   *)
(* with each other and with captures.                                      *)
SyncedHasSession ==
  \A m \in Message :
    inbox[m] = "SYNCED" /\ FileOf[m] # NoFile =>
      FileOf[m] \in documents /\ \E p \in Syncer : <<m, p>> \in sessions

(* Redelivery, crashes and retries never open a second session for a       *)
(* message; only two syncs that had read it at the same time do.           *)
DuplicatesOnlyByOverlap ==
  \A m \in Message, p \in Syncer, q \in Syncer :
    p # q /\ <<m, p>> \in sessions /\ <<m, q>> \in sessions => m \in overlap

(* The relay, the clients and the local inbox together are a mailbox.      *)
Abstract == INSTANCE Mailbox WITH
  captured <- Captured, delivered <- Present, settled <- Settled,
  Deliverable <- Message \ BadMedia
ImplementsMailbox == Abstract!MailboxSpec

(* A captured message with intact media is in the end acknowledged, after  *)
(* whatever crashes, conflicts and redeliveries.                           *)
CapturedIsSettled ==
  \A m \in Message \ BadMedia : m \in Captured ~> m \in Settled
=============================================================================
