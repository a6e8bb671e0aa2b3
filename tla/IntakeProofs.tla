---------------------------- MODULE IntakeProofs ----------------------------
(***************************************************************************)
(* Proofs about the two ways a message comes in.  RemoteInbox, for every   *)
(* set of messages, any number of clients and operators, every limit and   *)
(* any number of crashes: what it guarantees, and that its steps are steps *)
(* of Mailbox.  WhatsAppSessions, for every finite set of messages and any *)
(* number of senders, handlers, notifiers, crashes and batches.            *)
(***************************************************************************)
EXTENDS RemoteInbox, WhatsAppSessions, FiniteSetTheorems, WellFoundedInduction,
        TLAPS

-----------------------------------------------------------------------------
(* The remote inbox.                                                       *)

\* A client works on captured messages, and acknowledges what is in the inbox
\* or will be when its transaction commits.
SyncerOK(k, captured, present, docs) ==
  /\ k \in Cycle
  /\ k.items \subseteq captured /\ k.todo \subseteq captured
  /\ k.pc = "acking" => k.todo \subseteq present
  /\ k.pc = "read" => /\ k.todo \subseteq present \cup k.backlog
                      /\ Attached(k.backlog) \subseteq docs \cup k.made

\* A session is opened in the transaction that takes its message from the inbox.
SessionsSynced == \A m \in Message, p \in Syncer : <<m, p>> \in sessions => inbox[m] = "SYNCED"

Reading(p, m) == syncer[p].pc = "read" /\ m \in syncer[p].backlog

\* Two transactions that have both read a message were open at once; so were
\* the one that opened its session and one that has it still to commit.
OverlapsRecorded ==
  \A m \in Message, p \in Syncer, q \in Syncer :
    p # q /\ Reading(p, m) /\ (Reading(q, m) \/ <<m, q>> \in sessions) => m \in overlap

InboxInv ==
  /\ InboxTypeOK
  /\ IsFiniteSet(Captured)
  /\ \A p \in Syncer : SyncerOK(syncer[p], Captured, Present, documents)
  /\ AckedIsIngested
  /\ SyncedHasSession
  /\ SessionsSynced
  /\ OverlapsRecorded
  /\ DuplicatesOnlyByOverlap

-----------------------------------------------------------------------------
(* Lemmas.                                                                 *)

LEMMA IdleOK ==
  ASSUME NEW captured, NEW present, NEW docs
  PROVE  SyncerOK(Idle, captured, present, docs)
  BY DEF SyncerOK, Idle, Cycle

LEMMA SyncerOf ==
  ASSUME InboxInv, NEW p \in Syncer
  PROVE  SyncerOK(syncer[p], Captured, Present, documents) /\ syncer[p] \in Cycle
  BY DEF InboxInv, SyncerOK

LEMMA RowsTyped ==
  ASSUME InboxTypeOK, NEW m \in Message
  PROVE  /\ LeasedRow(m) \in Capture /\ LeasedRow(m).status = "LEASED"
         /\ Acknowledged(m) \in Capture
         /\ Acknowledged(m) = relay[m] \/ Acknowledged(m).status = "SYNCED"
  BY DEF InboxTypeOK, Capture, LeasedRow, Acknowledged

\* A step of the relay and of one client that is not reading the inbox.
LEMMA RelayStep ==
  ASSUME InboxInv, NEW p \in Syncer, NEW k,
         syncer' = [syncer EXCEPT ![p] = k],
         SyncerOK(k, Captured, Present, documents), k.pc # "read",
         Captured' = Captured, Settled' \subseteq Present,
         relay' \in [Message -> Capture], crashes' \in 0..MaxCrashes,
         UNCHANGED <<setup, inbox, documents, sessions, overlap>>
  PROVE  InboxInv'
<1>1. syncer \in [Syncer -> Cycle] /\ k \in Cycle /\ Present' = Present
  BY DEF InboxInv, InboxTypeOK, SyncerOK, Present
<1>2. syncer'[p] = k /\ \A q \in Syncer \ {p} : syncer'[q] = syncer[q]
  BY <1>1
<1>3. InboxTypeOK'
  BY <1>1 DEF InboxInv, InboxTypeOK, setup
<1>4. \A q \in Syncer : SyncerOK(syncer'[q], Captured', Present', documents')
  <2> TAKE q \in Syncer
  <2>1. SyncerOK(syncer[q], Captured, Present, documents)
    BY SyncerOf
  <2> QED BY <1>1, <1>2, <2>1
<1>5. AckedIsIngested' /\ IsFiniteSet(Captured')
  BY <1>1 DEF InboxInv, AckedIsIngested
<1>6. SyncedHasSession' /\ SessionsSynced' /\ DuplicatesOnlyByOverlap'
  BY DEF InboxInv, SyncedHasSession, SessionsSynced, DuplicatesOnlyByOverlap
<1>7. OverlapsRecorded'
  <2>1. \A q \in Syncer, m \in Message : Reading(q, m)' => Reading(q, m)
    BY <1>2 DEF Reading
  <2> QED BY <2>1 DEF InboxInv, OverlapsRecorded
<1> QED BY <1>3, <1>4, <1>5, <1>6, <1>7 DEF InboxInv

\* A step that only the relay or the inbox makes.
LEMMA OutsideStep ==
  ASSUME InboxInv, relay' \in [Message -> Capture], IsFiniteSet(Captured'),
         inbox' \in [Message -> {"ABSENT", "RECEIVED", "SYNCED"}],
         Captured \subseteq Captured', Present \subseteq Present', Settled' \subseteq Present',
         \A m \in Message : inbox'[m] = "SYNCED" <=> inbox[m] = "SYNCED",
         UNCHANGED <<setup, documents, sessions, syncer, crashes, overlap>>
  PROVE  InboxInv'
<1>1. InboxTypeOK'
  BY DEF InboxInv, InboxTypeOK, setup
<1>2. \A q \in Syncer : SyncerOK(syncer'[q], Captured', Present', documents')
  <2> TAKE q \in Syncer
  <2>1. SyncerOK(syncer[q], Captured, Present, documents)
    BY SyncerOf
  <2>2. SyncerOK(syncer[q], Captured', Present', documents)
    BY <2>1 DEF SyncerOK
  <2> QED BY <2>2
<1>3. AckedIsIngested'
  BY DEF AckedIsIngested
<1>4. SyncedHasSession' /\ SessionsSynced' /\ DuplicatesOnlyByOverlap' /\ OverlapsRecorded'
  BY DEF InboxInv, SyncedHasSession, SessionsSynced, DuplicatesOnlyByOverlap, OverlapsRecorded, Reading
<1> QED BY <1>1, <1>2, <1>3, <1>4 DEF InboxInv

-----------------------------------------------------------------------------
(* The relay.                                                              *)

LEMMA WebhookKeeps ==
  ASSUME InboxInv, NEW m \in Message, HandleInboundWebhook(m)
  PROVE  InboxInv' /\ Captured' = Captured \cup {m} /\ Settled' = Settled
<1> DEFINE row == [status |-> "PENDING_LOCAL", lease |-> "none",
                   received_at |-> Cardinality(Captured) + 1]
<1>1. relay \in [Message -> Capture] /\ IsFiniteSet(Captured) /\ m \notin Captured
  BY DEF InboxInv, InboxTypeOK, HandleInboundWebhook
<1>2. row \in Capture
  <2>1. Cardinality(Captured) \in Nat
    BY <1>1, FS_CardinalityType
  <2> QED BY <2>1 DEF Capture
<1>3. relay' = [relay EXCEPT ![m] = row] /\ relay' \in [Message -> Capture]
  BY <1>1, <1>2 DEF HandleInboundWebhook
<1>4. Captured' = Captured \cup {m} /\ Settled' = Settled
  BY <1>1, <1>3 DEF Captured, Settled
<1>5. IsFiniteSet(Captured')
  BY <1>1, <1>4, FS_AddElement
<1>6. UNCHANGED <<setup, inbox, documents, sessions, syncer, crashes, overlap>> /\ Present' = Present
  BY DEF HandleInboundWebhook, Present
<1>7. Settled \subseteq Present /\ inbox \in [Message -> {"ABSENT", "RECEIVED", "SYNCED"}]
  BY DEF InboxInv, AckedIsIngested, InboxTypeOK
<1>8. InboxInv'
  BY <1>3, <1>4, <1>5, <1>6, <1>7, OutsideStep
<1> QED BY <1>4, <1>8

LEMMA ExpiryKeeps ==
  ASSUME InboxInv, NEW m \in Message, LeaseExpires(m)
  PROVE  InboxInv' /\ Captured' = Captured /\ Settled' = Settled
<1>1. relay \in [Message -> Capture] /\ IsFiniteSet(Captured)
  BY DEF InboxInv, InboxTypeOK
<1>2. /\ relay' \in [Message -> Capture]
      /\ \A n \in Message : relay'[n].status = relay[n].status
  BY <1>1 DEF LeaseExpires, Capture
<1>3. Captured' = Captured /\ Settled' = Settled
  BY <1>2 DEF Captured, Settled
<1>4. UNCHANGED <<setup, inbox, documents, sessions, syncer, crashes, overlap>> /\ Present' = Present
  BY DEF LeaseExpires, Present
<1>5. Settled \subseteq Present /\ inbox \in [Message -> {"ABSENT", "RECEIVED", "SYNCED"}]
  BY DEF InboxInv, AckedIsIngested, InboxTypeOK
<1>6. InboxInv'
  BY <1>1, <1>2, <1>3, <1>4, <1>5, OutsideStep
<1> QED BY <1>3, <1>6

LEMMA SelectKeeps ==
  ASSUME InboxInv, NEW c \in Client, SelectPending(c)
  PROVE  InboxInv'
<1>1. PICK S \in SUBSET Message :
        /\ OldestDue(S)
        /\ syncer' = [syncer EXCEPT ![c] = [Idle EXCEPT !.pc = "leasing", !.items = S, !.todo = S]]
  BY DEF SelectPending
<1> DEFINE k == [Idle EXCEPT !.pc = "leasing", !.items = S, !.todo = S]
<1>2. k.pc = "leasing" /\ SyncerOK(k, Captured, Present, documents)
  <2>1. S \subseteq Captured
    BY <1>1 DEF OldestDue, Due, Captured
  <2> QED BY <2>1 DEF SyncerOK, Idle, Cycle
<1>3. /\ c \in Syncer /\ Captured' = Captured /\ Settled' \subseteq Present
      /\ relay' \in [Message -> Capture] /\ crashes' \in 0..MaxCrashes
      /\ UNCHANGED <<setup, inbox, documents, sessions, overlap>>
  BY DEF SelectPending, Syncer, Captured, Settled, InboxInv, InboxTypeOK, AckedIsIngested
<1> HIDE DEF k
<1>4. syncer' = [syncer EXCEPT ![c] = k]
  BY <1>1 DEF k
<1> QED BY <1>2, <1>3, <1>4, RelayStep

\* What a lease or an acknowledgement of one message does to the sets.
LEMMA LeaseItemKeeps ==
  ASSUME InboxInv, NEW c \in Client, LeaseItem(c)
  PROVE  /\ InboxInv' /\ Captured' = Captured
         /\ \E m \in Message : Settled' = Settled \ {m}
<1>1. syncer[c] \in Cycle /\ SyncerOK(syncer[c], Captured, Present, documents) /\ c \in Syncer
  BY SyncerOf DEF Syncer
<1>2. PICK m \in syncer[c].todo :
        /\ relay' = [relay EXCEPT ![m] = LeasedRow(m)]
        /\ syncer' = [syncer EXCEPT ![c].todo = @ \ {m},
                                    ![c].pc = IF syncer[c].todo = {m} THEN "pulled" ELSE @]
  BY DEF LeaseItem
<1>3. m \in Captured /\ m \in Message /\ relay \in [Message -> Capture]
  BY <1>1 DEF SyncerOK, Captured, InboxInv, InboxTypeOK
<1>4. /\ relay' \in [Message -> Capture] /\ Captured' = Captured /\ Settled' = Settled \ {m}
  BY <1>2, <1>3, RowsTyped DEF Captured, Settled, InboxInv
<1> DEFINE k == [syncer[c] EXCEPT !.todo = syncer[c].todo \ {m},
                                  !.pc = IF syncer[c].todo = {m} THEN "pulled" ELSE "leasing"]
<1>5. syncer[c].pc = "leasing" /\ syncer \in [Syncer -> Cycle]
  BY DEF LeaseItem, InboxInv, InboxTypeOK
<1>6. syncer' = [syncer EXCEPT ![c] = k]
  BY <1>1, <1>2, <1>5 DEF Cycle
<1>7. k.pc \in {"pulled", "leasing"} /\ SyncerOK(k, Captured, Present, documents)
  BY <1>1, <1>5 DEF SyncerOK, Cycle
<1>8. /\ Settled' \subseteq Present /\ crashes' \in 0..MaxCrashes
      /\ UNCHANGED <<setup, inbox, documents, sessions, overlap>>
  BY <1>4 DEF LeaseItem, InboxInv, InboxTypeOK, AckedIsIngested
<1> HIDE DEF k
<1>9. InboxInv'
  BY <1>1, <1>4, <1>6, <1>7, <1>8, RelayStep
<1> QED BY <1>3, <1>4, <1>9

LEMMA PullKeeps ==
  ASSUME InboxInv, NEW c \in Client, PullFromEmulator(c)
  PROVE  InboxInv' /\ Captured' = Captured /\ Settled' = Settled
<1>1. PICK S \in SUBSET Message :
        /\ OldestDue(S)
        /\ relay' = [m \in Message |-> IF m \in S THEN LeasedRow(m) ELSE relay[m]]
        /\ syncer' = [syncer EXCEPT ![c] = [Idle EXCEPT !.pc = "pulled", !.items = S]]
  BY DEF PullFromEmulator
<1> DEFINE k == [Idle EXCEPT !.pc = "pulled", !.items = S]
<1>2. \A m \in S : m \in Captured /\ m \notin Settled
  BY <1>1 DEF OldestDue, Due, Captured, Settled
<1>3. k.pc = "pulled" /\ SyncerOK(k, Captured, Present, documents)
  BY <1>2 DEF SyncerOK, Idle, Cycle
<1>4. relay' \in [Message -> Capture] /\ Captured' = Captured /\ Settled' = Settled
  <2>1. relay \in [Message -> Capture]
    BY DEF InboxInv, InboxTypeOK
  <2>2. \A m \in S : LeasedRow(m) \in Capture /\ LeasedRow(m).status = "LEASED"
    BY RowsTyped DEF InboxInv
  <2> QED BY <1>1, <1>2, <2>1, <2>2 DEF Captured, Settled
<1>5. /\ c \in Syncer /\ Settled' \subseteq Present /\ crashes' \in 0..MaxCrashes
      /\ UNCHANGED <<setup, inbox, documents, sessions, overlap>>
  BY <1>4 DEF PullFromEmulator, Syncer, InboxInv, InboxTypeOK, AckedIsIngested
<1> HIDE DEF k
<1>6. syncer' = [syncer EXCEPT ![c] = k]
  BY <1>1 DEF k
<1>7. InboxInv'
  BY <1>3, <1>4, <1>5, <1>6, RelayStep
<1> QED BY <1>4, <1>7

LEMMA AckKeeps ==
  ASSUME InboxInv, NEW c \in Client, AckItem(c)
  PROVE  /\ InboxInv' /\ Captured' = Captured
         /\ \E m \in Captured \cap Present : Settled' \in {Settled, Settled \cup {m}}
<1>1. syncer[c] \in Cycle /\ SyncerOK(syncer[c], Captured, Present, documents) /\ c \in Syncer
  BY SyncerOf DEF Syncer
<1>2. PICK m \in syncer[c].todo :
        /\ relay' = [relay EXCEPT ![m] = Acknowledged(m)]
        /\ syncer' = [syncer EXCEPT ![c] =
                        IF syncer[c].todo = {m} THEN Idle
                       ELSE [syncer[c] EXCEPT !.todo = syncer[c].todo \ {m}]]
  BY DEF AckItem
<1>3. syncer[c].pc = "acking" /\ syncer \in [Syncer -> Cycle]
  BY DEF AckItem, InboxInv, InboxTypeOK
<1>4. m \in Captured \cap Present /\ m \in Message /\ relay \in [Message -> Capture]
  BY <1>1, <1>3 DEF SyncerOK, Captured, InboxInv, InboxTypeOK
<1>5. /\ relay' \in [Message -> Capture] /\ Captured' = Captured
      /\ Settled' \in {Settled, Settled \cup {m}}
  <2>1. /\ Acknowledged(m) \in Capture
        /\ Acknowledged(m) = relay[m] \/ Acknowledged(m).status = "SYNCED"
    BY <1>4, RowsTyped DEF InboxInv
  <2>2. CASE Acknowledged(m) = relay[m]
    <3>1. relay' = relay
      BY <1>2, <1>4, <2>2
    <3> QED BY <1>4, <3>1 DEF Captured, Settled
  <2>3. CASE Acknowledged(m).status = "SYNCED"
    BY <1>2, <1>4, <2>1, <2>3 DEF Captured, Settled
  <2> QED BY <2>1, <2>2, <2>3
<1> DEFINE k == IF syncer[c].todo = {m} THEN Idle ELSE [syncer[c] EXCEPT !.todo = syncer[c].todo \ {m}]
<1>6. syncer' = [syncer EXCEPT ![c] = k]
  BY <1>1, <1>2, <1>3
<1>7. k.pc # "read" /\ SyncerOK(k, Captured, Present, documents)
  <2>1. CASE syncer[c].todo = {m}
    BY <2>1, IdleOK DEF Idle
  <2>2. CASE syncer[c].todo # {m}
    BY <1>1, <1>3, <2>2 DEF SyncerOK, Cycle
  <2> QED BY <2>1, <2>2
<1>8. /\ Settled' \subseteq Present /\ crashes' \in 0..MaxCrashes
      /\ UNCHANGED <<setup, inbox, documents, sessions, overlap>>
  BY <1>4, <1>5 DEF AckItem, InboxInv, InboxTypeOK, AckedIsIngested
<1> HIDE DEF k
<1>9. InboxInv'
  BY <1>1, <1>5, <1>6, <1>7, <1>8, RelayStep
<1> QED BY <1>4, <1>5, <1>9

\* Whoever gives up, by a crash or because an index refuses its transaction.
LEMMA IdleKeeps ==
  ASSUME InboxInv, NEW p \in Syncer, syncer' = [syncer EXCEPT ![p] = Idle],
         crashes' \in 0..MaxCrashes,
         UNCHANGED <<setup, relay, inbox, documents, sessions, overlap>>
  PROVE  InboxInv'
<1>1. Idle.pc # "read" /\ SyncerOK(Idle, Captured, Present, documents)
  BY IdleOK DEF Idle
<1>2. /\ Captured' = Captured /\ Settled' \subseteq Present /\ relay' \in [Message -> Capture]
      /\ UNCHANGED <<setup, inbox, documents, sessions, overlap>>
  BY DEF Captured, Settled, InboxInv, InboxTypeOK, AckedIsIngested
<1> QED BY <1>1, <1>2, RelayStep

-----------------------------------------------------------------------------
(* The local transactions.                                                 *)

\* What a transaction reads is in order for its commit, and what it reads
\* while another has read it is on record.
LEMMA ReadsKeeps ==
  ASSUME InboxInv, NEW p \in Syncer, NEW items, NEW acks,
         items \subseteq Captured, acks \subseteq items,
         Reads(p, items, acks),
         UNCHANGED <<setup, relay, inbox, documents, sessions, crashes>>
  PROVE  InboxInv'
<1> DEFINE new == items \ Present
           backlog == Received \cup new
           k == [Idle EXCEPT !.pc = "read", !.todo = acks, !.new = new,
                   !.backlog = backlog, !.made = Attached(backlog) \ documents]
<1>1. /\ syncer' = [syncer EXCEPT ![p] = k]
      /\ overlap' = overlap \cup
           {m \in backlog : \E q \in Syncer \ {p} : syncer[q].pc = "read" /\ m \in syncer[q].backlog}
  BY DEF Reads
<1>2. backlog \subseteq Message /\ Attached(backlog) \subseteq File /\ items \subseteq Message
  <2>1. backlog \subseteq Message /\ items \subseteq Message
    BY DEF Received, Captured
  <2> HIDE DEF backlog
  <2> QED BY <2>1, InboxAssumption DEF Attached
<1>3. \A m \in backlog : inbox[m] # "SYNCED"
  BY <1>2 DEF Received, Present
<1>4. acks \subseteq Present \cup backlog
  OBVIOUS
<1> HIDE DEF backlog
<1>5. /\ k \in Cycle /\ k.pc = "read" /\ k.items = {} /\ k.todo = acks /\ k.backlog = backlog
      /\ k.made = Attached(backlog) \ documents
  BY <1>2 DEF Idle, Cycle
<1> HIDE DEF k
<1>6. SyncerOK(k, Captured, Present, documents)
  BY <1>4, <1>5 DEF SyncerOK
<1>7. syncer \in [Syncer -> Cycle] /\ Captured' = Captured /\ Present' = Present /\ Settled' = Settled
  BY DEF InboxInv, InboxTypeOK, Captured, Present, Settled
<1>8. syncer'[p] = k /\ \A q \in Syncer \ {p} : syncer'[q] = syncer[q]
  BY <1>1, <1>7
<1>9. InboxTypeOK'
  <2>1. overlap' \subseteq Message
    BY <1>1, <1>2 DEF InboxInv, InboxTypeOK
  <2>2. syncer' \in [Syncer -> Cycle]
    BY <1>1, <1>5, <1>7
  <2>3. /\ backend' = backend /\ atWork' = atWork /\ relay' = relay /\ inbox' = inbox
        /\ documents' = documents /\ sessions' = sessions /\ crashes' = crashes
    BY DEF setup
  <2> QED BY <2>1, <2>2, <2>3 DEF InboxInv, InboxTypeOK
<1>10. \A q \in Syncer : SyncerOK(syncer'[q], Captured', Present', documents')
  <2> TAKE q \in Syncer
  <2>1. SyncerOK(syncer[q], Captured, Present, documents)
    BY SyncerOf
  <2> QED BY <1>6, <1>7, <1>8, <2>1
<1>11. AckedIsIngested' /\ IsFiniteSet(Captured') /\ SyncedHasSession' /\ SessionsSynced'
  BY <1>7 DEF InboxInv, AckedIsIngested, SyncedHasSession, SessionsSynced
<1>12. DuplicatesOnlyByOverlap'
  BY <1>1 DEF InboxInv, DuplicatesOnlyByOverlap
<1>13. OverlapsRecorded'
  <2> SUFFICES ASSUME NEW m \in Message, NEW q \in Syncer, NEW r \in Syncer, q # r, Reading(q, m)',
                      Reading(r, m)' \/ <<m, r>> \in sessions
               PROVE  m \in overlap'
    BY DEF OverlapsRecorded
  <2>1. Reading(p, m)' => m \in backlog
    BY <1>5, <1>8 DEF Reading
  <2>2. \A t \in Syncer \ {p} : Reading(t, m)' => Reading(t, m)
    BY <1>8 DEF Reading
  <2>3. CASE q # p /\ r # p
    BY <1>1, <2>2, <2>3 DEF InboxInv, OverlapsRecorded
  <2>4. CASE q = p
    <3>1. m \in backlog /\ <<m, r>> \notin sessions
      BY <1>3, <2>1, <2>4 DEF InboxInv, SessionsSynced
    <3>2. Reading(r, m)
      BY <2>2, <2>4, <3>1
    <3> QED BY <1>1, <2>4, <3>1, <3>2 DEF Reading
  <2>5. CASE r = p
    <3>1. Reading(q, m)
      BY <2>2, <2>5
    <3>2. CASE <<m, r>> \in sessions
      BY <1>1, <3>1, <3>2 DEF InboxInv, OverlapsRecorded
    <3>3. CASE Reading(r, m)'
      <4>1. m \in backlog
        BY <2>1, <2>5, <3>3
      <4> QED BY <1>1, <2>5, <3>1, <4>1 DEF Reading
    <3> QED BY <3>2, <3>3
  <2> QED BY <2>3, <2>4, <2>5
<1> QED BY <1>9, <1>10, <1>11, <1>12, <1>13 DEF InboxInv

LEMMA ClientReadsKeeps ==
  ASSUME InboxInv, NEW c \in Client, ClientReads(c)
  PROVE  InboxInv'
<1>1. c \in Syncer /\ syncer[c].items \subseteq Captured
  BY SyncerOf DEF Syncer, SyncerOK
<1>2. Verified(syncer[c].items) \subseteq Captured
  BY <1>1 DEF Verified
<1>3. /\ Reads(c, Verified(syncer[c].items), Verified(syncer[c].items))
      /\ UNCHANGED <<setup, relay, inbox, documents, sessions, crashes>>
  BY DEF ClientReads, Successful
<1> QED BY <1>1, <1>2, <1>3, ReadsKeeps

LEMMA OperatorReadsKeeps ==
  ASSUME InboxInv, NEW o \in Operator, OperatorReads(o)
  PROVE  InboxInv'
<1>1. o \in Syncer /\ Reads(o, {}, {}) /\ UNCHANGED <<setup, relay, inbox, documents, sessions, crashes>>
  BY DEF OperatorReads, Syncer
<1> QED BY <1>1, ReadsKeeps

\* What a commit makes of the inbox, the documents and the sessions.
LEMMA CommitKeeps ==
  ASSUME InboxInv, NEW p \in Syncer, syncer[p].pc = "read", Synced(p), NEW k,
         syncer' = [syncer EXCEPT ![p] = k], k \in Cycle, k.pc # "read", k.items = {},
         k.todo = {} \/ k.todo = syncer[p].todo,
         UNCHANGED <<setup, relay, crashes, overlap>>
  PROVE  InboxInv' /\ Present' = Present \cup syncer[p].backlog
<1> DEFINE backlog == syncer[p].backlog
           opened == {m \in backlog : FileOf[m] # NoFile} \X {p}
<1>1. /\ SyncerOK(syncer[p], Captured, Present, documents) /\ syncer[p] \in Cycle
      /\ syncer \in [Syncer -> Cycle]
  BY SyncerOf DEF InboxInv, InboxTypeOK
<1>2. /\ inbox' = [m \in Message |-> IF m \in backlog THEN "SYNCED" ELSE inbox[m]]
      /\ documents' = documents \cup syncer[p].made
      /\ sessions' = sessions \cup opened
  BY DEF Synced, TakesFromInbox
<1>3. backlog \subseteq Message /\ syncer[p].made \subseteq File
  BY <1>1 DEF Cycle
<1>4. Present' = Present \cup backlog /\ Captured' = Captured /\ Settled' = Settled
  BY <1>2, <1>3 DEF Present, Captured, Settled, InboxInv, InboxTypeOK
<1>5. syncer'[p] = k /\ \A q \in Syncer \ {p} : syncer'[q] = syncer[q]
  BY <1>1
<1>6. InboxTypeOK'
  BY <1>1, <1>2, <1>3 DEF InboxInv, InboxTypeOK, setup
<1>7. SyncerOK(k, Captured', Present', documents')
  BY <1>1, <1>4 DEF SyncerOK
<1>8. ASSUME NEW q \in Syncer
      PROVE  SyncerOK(syncer'[q], Captured', Present', documents')
  <2>1. CASE q = p
    BY <1>5, <1>7, <2>1
  <2>2. CASE q # p
    <3>1. SyncerOK(syncer[q], Captured, Present, documents)
      BY SyncerOf
    <3>2. SyncerOK(syncer[q], Captured', Present', documents')
      BY <1>2, <1>4, <3>1 DEF SyncerOK
    <3> QED BY <1>5, <2>2, <3>2
  <2> QED BY <2>1, <2>2
<1>9. AckedIsIngested' /\ IsFiniteSet(Captured')
  BY <1>4 DEF InboxInv, AckedIsIngested
<1>10. SyncedHasSession'
  <2> SUFFICES ASSUME NEW m \in Message, inbox'[m] = "SYNCED", FileOf[m] # NoFile
               PROVE  FileOf[m] \in documents' /\ \E q \in Syncer : <<m, q>> \in sessions'
    BY DEF SyncedHasSession
  <2>1. CASE m \in backlog
    <3>1. FileOf[m] \in Attached(backlog) /\ <<m, p>> \in opened
      BY <2>1 DEF Attached
    <3> QED BY <1>1, <1>2, <3>1 DEF SyncerOK
  <2>2. CASE m \notin backlog
    BY <1>2, <2>2 DEF InboxInv, SyncedHasSession
  <2> QED BY <2>1, <2>2
<1>11. SessionsSynced'
  <2> SUFFICES ASSUME NEW m \in Message, NEW q \in Syncer, <<m, q>> \in sessions'
               PROVE  inbox'[m] = "SYNCED"
    BY DEF SessionsSynced
  <2>1. CASE <<m, q>> \in sessions
    BY <1>2, <2>1 DEF InboxInv, SessionsSynced
  <2>2. CASE <<m, q>> \in opened
    BY <1>2, <2>2
  <2> QED BY <1>2, <2>1, <2>2
<1>12. \A m, q : <<m, q>> \in opened => q = p /\ Reading(p, m)
  BY DEF Reading
<1> HIDE DEF opened
<1>13. DuplicatesOnlyByOverlap'
  <2> SUFFICES ASSUME NEW m \in Message, NEW q \in Syncer, NEW r \in Syncer, q # r,
                      <<m, q>> \in sessions', <<m, r>> \in sessions'
               PROVE  m \in overlap
    BY DEF DuplicatesOnlyByOverlap
  <2>1. CASE <<m, q>> \in sessions /\ <<m, r>> \in sessions
    BY <2>1 DEF InboxInv, DuplicatesOnlyByOverlap
  <2>2. CASE <<m, q>> \in opened /\ <<m, r>> \in sessions
    BY <1>12, <2>2 DEF InboxInv, OverlapsRecorded
  <2>3. CASE <<m, q>> \in sessions /\ <<m, r>> \in opened
    BY <1>12, <2>3 DEF InboxInv, OverlapsRecorded
  <2>4. CASE <<m, q>> \in opened /\ <<m, r>> \in opened
    BY <1>12, <2>4
  <2> QED BY <1>2, <2>1, <2>2, <2>3, <2>4
<1>14. OverlapsRecorded'
  <2> SUFFICES ASSUME NEW m \in Message, NEW q \in Syncer, NEW r \in Syncer, q # r, Reading(q, m)',
                      Reading(r, m)' \/ <<m, r>> \in sessions'
               PROVE  m \in overlap
    BY DEF OverlapsRecorded
  <2>1. \A t \in Syncer : Reading(t, m)' => Reading(t, m)
    BY <1>5 DEF Reading
  <2>2. Reading(q, m) /\ (Reading(r, m) \/ <<m, r>> \in sessions)
    BY <1>2, <1>12, <2>1
  <2> QED BY <2>2 DEF InboxInv, OverlapsRecorded
<1>15. InboxInv'
  BY <1>6, <1>8, <1>9, <1>10, <1>11, <1>13, <1>14 DEF InboxInv
<1> QED BY <1>4, <1>15

LEMMA ClientCommitsKeeps ==
  ASSUME InboxInv, NEW c \in Client, ClientCommits(c)
  PROVE  InboxInv' /\ Present' = Present \cup syncer[c].backlog
<1> DEFINE k == IF syncer[c].todo = {} THEN Idle
                ELSE [Idle EXCEPT !.pc = "acking", !.todo = syncer[c].todo]
<1>1. c \in Syncer /\ syncer[c] \in Cycle
  BY SyncerOf DEF Syncer
<1>2. /\ syncer[c].pc = "read" /\ Synced(c) /\ syncer' = [syncer EXCEPT ![c] = k]
      /\ UNCHANGED <<setup, relay, crashes, overlap>>
  BY DEF ClientCommits
<1>3. k \in Cycle /\ k.pc # "read" /\ k.items = {} /\ (k.todo = {} \/ k.todo = syncer[c].todo)
  BY <1>1 DEF Idle, Cycle
<1> HIDE DEF k
<1> QED BY <1>1, <1>2, <1>3, CommitKeeps

LEMMA OperatorCommitsKeeps ==
  ASSUME InboxInv, NEW o \in Operator, OperatorCommits(o)
  PROVE  InboxInv' /\ Present' = Present \cup syncer[o].backlog
<1>1. /\ o \in Syncer /\ syncer[o].pc = "read" /\ Synced(o) /\ syncer' = [syncer EXCEPT ![o] = Idle]
      /\ UNCHANGED <<setup, relay, crashes, overlap>>
  BY DEF OperatorCommits, Syncer
<1>2. Idle \in Cycle /\ Idle.pc # "read" /\ Idle.items = {} /\ Idle.todo = {}
  BY DEF Idle, Cycle
<1> QED BY <1>1, <1>2, CommitKeeps

LEMMA IngestKeeps ==
  ASSUME InboxInv, NEW m \in Message, IngestRemoteCapture(m)
  PROVE  InboxInv' /\ Present' = Present \cup {m} /\ m \notin Present
<1>1. /\ inbox \in [Message -> {"ABSENT", "RECEIVED", "SYNCED"}] /\ Settled \subseteq Present
      /\ relay \in [Message -> Capture] /\ IsFiniteSet(Captured)
  BY DEF InboxInv, InboxTypeOK, AckedIsIngested
<1>2. /\ inbox' \in [Message -> {"ABSENT", "RECEIVED", "SYNCED"}]
      /\ \A n \in Message : inbox'[n] = "SYNCED" <=> inbox[n] = "SYNCED"
      /\ Present' = Present \cup {m} /\ m \notin Present
  BY <1>1 DEF IngestRemoteCapture, Present
<1>3. /\ Captured' = Captured /\ Settled' = Settled /\ relay' = relay
      /\ UNCHANGED <<setup, documents, sessions, syncer, crashes, overlap>>
  BY DEF IngestRemoteCapture, Captured, Settled
<1>4. InboxInv'
  BY <1>1, <1>2, <1>3, OutsideStep
<1> QED BY <1>2, <1>4

-----------------------------------------------------------------------------
(* The invariant.                                                          *)

LEMMA InboxInvInit == InboxInit => InboxInv
<1> SUFFICES ASSUME InboxInit PROVE InboxInv
  OBVIOUS
<1>1. Captured = {} /\ Settled = {}
  BY DEF InboxInit, Captured, Settled
<1>2. \A p \in Syncer : syncer[p] = Idle /\ Idle \in Cycle /\ Idle.pc = "idle"
  BY DEF InboxInit, Idle, Cycle
<1>3. InboxTypeOK
  BY <1>2, InboxAssumption DEF InboxInit, InboxTypeOK, Capture
<1>4. \A p \in Syncer : SyncerOK(syncer[p], Captured, Present, documents)
  BY <1>2, IdleOK
<1>5. IsFiniteSet(Captured)
  BY <1>1, FS_EmptySet
<1>6. AckedIsIngested
  BY <1>1 DEF AckedIsIngested
<1>7. SyncedHasSession /\ SessionsSynced /\ DuplicatesOnlyByOverlap
  BY DEF InboxInit, SyncedHasSession, SessionsSynced, DuplicatesOnlyByOverlap
<1>8. OverlapsRecorded
  BY <1>2 DEF OverlapsRecorded, Reading
<1> QED BY <1>3, <1>4, <1>5, <1>6, <1>7, <1>8 DEF InboxInv

LEMMA GiveUpKeeps ==
  ASSUME InboxInv, NEW p \in Syncer, RolledBack(p) \/ Crash(p)
  PROVE  InboxInv' /\ UNCHANGED <<Captured, Present, Settled>>
<1>1. crashes \in 0..MaxCrashes /\ MaxCrashes \in Nat
  BY InboxAssumption DEF InboxInv, InboxTypeOK
<1>2. /\ syncer' = [syncer EXCEPT ![p] = Idle] /\ crashes' \in 0..MaxCrashes
      /\ UNCHANGED <<setup, relay, inbox, documents, sessions, overlap>>
  BY <1>1 DEF RolledBack, Crash
<1>3. UNCHANGED <<Captured, Present, Settled>>
  BY <1>2 DEF Captured, Present, Settled
<1> QED BY <1>2, <1>3, IdleKeeps

LEMMA InboxInvStep == InboxInv /\ [InboxNext]_inboxVars => InboxInv'
<1> SUFFICES ASSUME InboxInv, [InboxNext]_inboxVars PROVE InboxInv'
  OBVIOUS
<1>1. CASE UNCHANGED inboxVars
  <2>1. /\ UNCHANGED <<setup, relay, inbox, documents, sessions, syncer, crashes, overlap>>
        /\ Captured' = Captured /\ Present' = Present /\ Settled' = Settled
    BY <1>1 DEF inboxVars, Captured, Present, Settled
  <2>2. /\ relay \in [Message -> Capture] /\ IsFiniteSet(Captured) /\ Settled \subseteq Present
        /\ inbox \in [Message -> {"ABSENT", "RECEIVED", "SYNCED"}]
    BY DEF InboxInv, InboxTypeOK, AckedIsIngested
  <2> QED BY <2>1, <2>2, OutsideStep
<1>2. ASSUME NEW m \in Message, HandleInboundWebhook(m) \/ LeaseExpires(m) \/ IngestRemoteCapture(m)
      PROVE  InboxInv'
  BY <1>2, WebhookKeeps, ExpiryKeeps, IngestKeeps
<1>3. ASSUME NEW c \in Client, ClientStep(c)
      PROVE  InboxInv'
  BY <1>3, SelectKeeps, LeaseItemKeeps, PullKeeps, ClientReadsKeeps, ClientCommitsKeeps, AckKeeps,
     GiveUpKeeps DEF ClientStep, Syncer
<1>4. ASSUME NEW o \in Operator, OperatorStep(o)
      PROVE  InboxInv'
  BY <1>4, OperatorReadsKeeps, OperatorCommitsKeeps, GiveUpKeeps DEF OperatorStep, Syncer
<1>5. ASSUME NEW p \in Syncer, Crash(p)
      PROVE  InboxInv'
  BY <1>5, GiveUpKeeps
<1> QED BY <1>1, <1>2, <1>3, <1>4, <1>5 DEF InboxNext

-----------------------------------------------------------------------------
(* The refinement.                                                         *)

LEMMA MailboxInitial == InboxInit => Abstract!MailboxInit
  BY DEF InboxInit, Abstract!MailboxInit, Captured, Present, Settled

\* A local transaction delivers what it takes from the inbox.
LEMMA CommitIsMailbox ==
  ASSUME InboxInv, NEW p \in Syncer, UNCHANGED <<relay, crashes>>,
         Present' = Present \cup syncer[p].backlog
  PROVE  [Abstract!MailboxNext]_(Abstract!mailbox)
<1> DEFINE S == Present' \ Present
<1>1. Captured' = Captured /\ Settled' = Settled
  BY DEF Captured, Settled
<1>2. CASE S = {}
  <2>1. Present' = Present
    BY <1>2
  <2> QED BY <1>1, <2>1 DEF Abstract!mailbox
<1>3. CASE S # {}
  <2>1. PICK T : T = S
    OBVIOUS
  <2>2. T \in SUBSET Message /\ T # {} /\ T \cap Present = {} /\ Present' = Present \cup T
    BY <1>3, <2>1 DEF Present
  <2> HIDE DEF S
  <2> QED BY <1>1, <2>2 DEF Abstract!MailboxNext, Abstract!Deliver
<1> QED BY <1>2, <1>3

\* A step of the client is a step of the mailbox, or none.
LEMMA ClientIsMailbox ==
  ASSUME InboxInv, NEW c \in Client, ClientStep(c)
  PROVE  [Abstract!MailboxNext]_(Abstract!mailbox)
<1>1. ASSUME UNCHANGED <<Captured, Present, Settled>>
      PROVE  [Abstract!MailboxNext]_(Abstract!mailbox)
  BY <1>1 DEF Abstract!mailbox
<1>2. CASE SelectPending(c) \/ ClientReads(c)
  <2>1. relay' = relay /\ inbox' = inbox
    BY <1>2 DEF SelectPending, ClientReads
  <2>2. UNCHANGED <<Captured, Present, Settled>>
    BY <2>1 DEF Captured, Present, Settled
  <2> QED BY <1>1, <2>2
<1>3. CASE RolledBack(c)
  BY <1>1, <1>3, GiveUpKeeps DEF Syncer
<1>4. CASE PullFromEmulator(c)
  <2>1. UNCHANGED <<Captured, Present, Settled>>
    BY <1>4, PullKeeps DEF PullFromEmulator, Present
  <2> QED BY <1>1, <2>1
<1>5. CASE LeaseItem(c)
  <2>1. PICK m \in Message : Settled' = Settled \ {m}
    BY <1>5, LeaseItemKeeps
  <2>2. Captured' = Captured /\ Present' = Present
    BY <1>5, LeaseItemKeeps DEF LeaseItem, Present
  <2>3. CASE m \in Settled
    BY <2>1, <2>2, <2>3 DEF Abstract!MailboxNext, Abstract!Reopen
  <2>4. CASE m \notin Settled
    <3>1. Settled' = Settled
      BY <2>1, <2>4
    <3> QED BY <1>1, <2>2, <3>1
  <2> QED BY <2>3, <2>4
<1>6. CASE AckItem(c)
  <2>1. PICK m \in Captured \cap Present : Settled' \in {Settled, Settled \cup {m}}
    BY <1>6, AckKeeps
  <2>2. Captured' = Captured /\ Present' = Present
    BY <1>6, AckKeeps DEF AckItem, Present
  <2>3. CASE Settled' = Settled
    BY <1>1, <2>2, <2>3
  <2>4. CASE Settled' = Settled \cup {m}
    <3>1. m \in Message
      BY DEF Captured
    <3> QED BY <2>1, <2>2, <2>4, <3>1 DEF Abstract!MailboxNext, Abstract!Settle
  <2> QED BY <2>1, <2>3, <2>4
<1>7. CASE ClientCommits(c)
  BY <1>7, ClientCommitsKeeps, CommitIsMailbox DEF ClientCommits, Syncer
<1> QED BY <1>2, <1>3, <1>4, <1>5, <1>6, <1>7 DEF ClientStep

LEMMA OperatorIsMailbox ==
  ASSUME InboxInv, NEW o \in Operator, OperatorStep(o)
  PROVE  [Abstract!MailboxNext]_(Abstract!mailbox)
<1>1. CASE OperatorReads(o)
  <2>1. UNCHANGED <<Captured, Present, Settled>>
    BY <1>1 DEF OperatorReads, Captured, Present, Settled
  <2> QED BY <2>1 DEF Abstract!mailbox
<1>2. CASE RolledBack(o)
  <2>1. UNCHANGED <<Captured, Present, Settled>>
    BY <1>2, GiveUpKeeps DEF Syncer
  <2> QED BY <2>1 DEF Abstract!mailbox
<1>3. CASE OperatorCommits(o)
  BY <1>3, OperatorCommitsKeeps, CommitIsMailbox DEF OperatorCommits, Syncer
<1> QED BY <1>1, <1>2, <1>3 DEF OperatorStep

LEMMA MailboxStep ==
  InboxInv /\ [InboxNext]_inboxVars => [Abstract!MailboxNext]_(Abstract!mailbox)
<1> SUFFICES ASSUME InboxInv, [InboxNext]_inboxVars
             PROVE  [Abstract!MailboxNext]_(Abstract!mailbox)
  OBVIOUS
<1>1. ASSUME UNCHANGED <<Captured, Present, Settled>>
      PROVE  [Abstract!MailboxNext]_(Abstract!mailbox)
  BY <1>1 DEF Abstract!mailbox
<1>2. CASE UNCHANGED inboxVars
  <2>1. UNCHANGED <<Captured, Present, Settled>>
    BY <1>2 DEF inboxVars, Captured, Present, Settled
  <2> QED BY <1>1, <2>1
<1>3. ASSUME NEW m \in Message, HandleInboundWebhook(m)
      PROVE  [Abstract!MailboxNext]_(Abstract!mailbox)
  <2>1. Captured' = Captured \cup {m} /\ Settled' = Settled /\ m \notin Captured
    BY <1>3, WebhookKeeps DEF HandleInboundWebhook
  <2>2. Present' = Present
    BY <1>3 DEF HandleInboundWebhook, Present
  <2> QED BY <2>1, <2>2 DEF Abstract!MailboxNext, Abstract!Accept
<1>4. ASSUME NEW m \in Message, LeaseExpires(m)
      PROVE  [Abstract!MailboxNext]_(Abstract!mailbox)
  <2>1. UNCHANGED <<Captured, Present, Settled>>
    BY <1>4, ExpiryKeeps DEF LeaseExpires, Present
  <2> QED BY <1>1, <2>1
<1>5. ASSUME NEW m \in Message, IngestRemoteCapture(m)
      PROVE  [Abstract!MailboxNext]_(Abstract!mailbox)
  <2>1. Present' = Present \cup {m} /\ m \notin Present
    BY <1>5, IngestKeeps
  <2>2. Captured' = Captured /\ Settled' = Settled
    BY <1>5 DEF IngestRemoteCapture, Captured, Settled
  <2>3. {m} \in SUBSET Message /\ {m} # {} /\ {m} \cap Present = {}
    BY <2>1
  <2> QED BY <2>1, <2>2, <2>3 DEF Abstract!MailboxNext, Abstract!Deliver
<1>6. ASSUME NEW p \in Syncer, Crash(p)
      PROVE  [Abstract!MailboxNext]_(Abstract!mailbox)
  BY <1>1, <1>6, GiveUpKeeps
<1> QED BY <1>2, <1>3, <1>4, <1>5, <1>6, ClientIsMailbox, OperatorIsMailbox DEF InboxNext

-----------------------------------------------------------------------------
(* The theorems.                                                           *)

\* Every variable of the capture path holds what its column or local variable
\* may hold.
THEOREM InboxTypes == InboxSafety => []InboxTypeOK
<1>1. InboxInv => InboxTypeOK
  BY DEF InboxInv
<1> QED BY <1>1, InboxInvInit, InboxInvStep, PTL DEF InboxSafety

\* The relay forgets only what the Finance PC has committed: the cycle
\* acknowledges after its commit, and a crash between the two loses nothing.
THEOREM AckedAreIngested == InboxSafety => []AckedIsIngested
<1>1. InboxInv => AckedIsIngested
  BY DEF InboxInv
<1> QED BY <1>1, InboxInvInit, InboxInvStep, PTL DEF InboxSafety

\* sync_remote_to_local and sync_backlog take no message with an attachment
\* from the inbox without its document and its session.
THEOREM SyncedHaveSessions == InboxSafety => []SyncedHasSession
<1>1. InboxInv => SyncedHasSession
  BY DEF InboxInv
<1> QED BY <1>1, InboxInvInit, InboxInvStep, PTL DEF InboxSafety

\* A second session for a message needs two transactions of sync_backlog that
\* are open at once; redelivery and crashes alone never make one.
THEOREM DuplicatesNeedOverlap == InboxSafety => []DuplicatesOnlyByOverlap
<1>1. InboxInv => DuplicatesOnlyByOverlap
  BY DEF InboxInv
<1> QED BY <1>1, InboxInvInit, InboxInvStep, PTL DEF InboxSafety

\* Relay, clients and inbox together are the mailbox that Mailbox describes,
\* its liveness apart.
THEOREM InboxImplementsMailbox == InboxSafety => Abstract!MailboxSafety
<1> QED BY InboxInvInit, InboxInvStep, MailboxInitial, MailboxStep, PTL
        DEF InboxSafety, Abstract!MailboxSafety

-----------------------------------------------------------------------------
(* The document sessions of a chat.                                        *)

\* A handler has a message; the session it has locked stays open.
HandlerOK(j, table) ==
  /\ j.pc # "idle" => j.wamid \in Wamid
  /\ j.pc = "finishing" /\ j.open # 0 => table[j.open].status = "OPEN"

\* FOR UPDATE: no two handlers hold one session.
OwnsItsSession ==
  \A g, h \in Handler :
    g # h /\ handler[g].pc = "finishing" /\ handler[h].pc = "finishing" /\ handler[g].open # 0
      => handler[g].open # handler[h].open

\* Sessions take the rows one after the other.
Packed(table) == \E n \in Nat : Used(table) = 1..n

Sending(r) == {n \in Notifier : notifier[n].pc = "sending" /\ notifier[n].row = r}

\* What has been sent and what may still be: one for the first claim and one
\* for each that took over.
Allowed(r) == (IF chat[r].ack = "none" THEN 0 ELSE 1) + reasons[r]
Paid(r) == IsFiniteSet(Sending(r)) /\ sent[r] + Cardinality(Sending(r)) <= Allowed(r)

ChatInv ==
  /\ ChatTypeOK
  /\ \A h \in Handler : HandlerOK(handler[h], chat)
  /\ OwnsItsSession
  /\ Packed(chat)
  /\ \A r \in Row : Paid(r)

-----------------------------------------------------------------------------
(* Lemmas.                                                                 *)

LEMMA RowIsInterval == Cardinality(Wamid) \in Nat /\ Row = 1..Cardinality(Wamid)
  BY ChatAssumption, FS_CardinalityType DEF Row

\* The rows that begin at x, ordered by inclusion, have a least element.
LEMMA NewestIsARow ==
  ASSUME NEW rows \in SUBSET Row, rows # {}
  PROVE  Newest(rows) \in rows
<1> DEFINE N == Cardinality(Wamid)
           From == {x .. N : x \in rows}
<1>1. N \in Nat /\ Row = 1..N
  BY RowIsInterval
<1>2. From # {} /\ From \subseteq FiniteSubsetsOf(Row)
  <2> SUFFICES ASSUME NEW x \in rows PROVE x..N \in FiniteSubsetsOf(Row)
    OBVIOUS
  <2> QED BY <1>1, FS_Interval DEF FiniteSubsetsOf
<1>3. PICK least \in From : \A T \in From : <<T, least>> \notin StrictSubsetOrdering(Row)
  <2> HIDE DEF From
  <2> QED BY <1>2, FS_StrictSubsetOrderingWellFounded, WFMin
<1>4. PICK r \in rows : least = r..N
  OBVIOUS
<1>5. ASSUME NEW q \in rows PROVE q <= r
  <2>1. <<q..N, r..N>> \notin StrictSubsetOrdering(Row)
    BY <1>3, <1>4
  <2>2. q..N \in SUBSET Row /\ r..N \in SUBSET Row
    BY <1>1
  <2>3. ~(q..N \subseteq r..N /\ q..N # r..N)
    BY <2>1, <2>2 DEF StrictSubsetOrdering
  <2>4. CASE q > r
    <3>1. r \in r..N /\ r \notin q..N /\ q..N \subseteq r..N
      BY <1>1, <2>4
    <3> QED BY <2>3, <3>1
  <2> QED BY <1>1, <2>4
<1> QED BY <1>5 DEF Newest

LEMMA NewestTyped ==
  ASSUME NEW rows \in SUBSET Row
  PROVE  Newest(rows) \in {0} \cup rows /\ (rows = {} => Newest(rows) = 0)
  BY NewestIsARow DEF Newest

\* A table with the used rows of another is as packed.
LEMMA PackedLike ==
  ASSUME NEW before, NEW after, Packed(before), Used(after) = Used(before)
  PROVE  Packed(after)
  BY DEF Packed

\* The locks hold as long as locked sessions are left open.
LEMMA HandlersKeep ==
  ASSUME ChatInv, UNCHANGED handler,
         \A r \in Row : Locked(r) /\ chat[r].status = "OPEN" => chat'[r].status = "OPEN"
  PROVE  (\A h \in Handler : HandlerOK(handler[h], chat))' /\ OwnsItsSession'
<1>1. OwnsItsSession'
  BY DEF ChatInv, OwnsItsSession
<1>2. ASSUME NEW h \in Handler PROVE HandlerOK(handler[h], chat')
  BY DEF Handling, ChatInv, ChatTypeOK, HandlerOK, Locked
<1> QED BY <1>1, <1>2

\* A step of a handler alone: the table keeps the acknowledgements, and no
\* open session is touched but the handler's own.
LEMMA HandlerTakes ==
  ASSUME ChatInv, NEW h \in Handler, NEW j,
         j \in Handling,
         handler' = [handler EXCEPT ![h] = j],
         HandlerOK(j, chat'),
         j.pc = "finishing" /\ j.open # 0 => ~Locked(j.open),
         \A g \in Handler \ {h} : HandlerOK(handler[g], chat')
  PROVE  /\ handler' \in [Handler -> Handling]
         /\ (\A g \in Handler : HandlerOK(handler[g], chat))'
         /\ OwnsItsSession'
<1>1. handler \in [Handler -> Handling]
  BY DEF ChatInv, ChatTypeOK
<1>2. handler'[h] = j /\ \A g \in Handler \ {h} : handler'[g] = handler[g]
  BY <1>1
<1>3. (\A g \in Handler : HandlerOK(handler[g], chat))'
  <2> SUFFICES ASSUME NEW g \in Handler PROVE HandlerOK(handler'[g], chat')
    OBVIOUS
  <2>1. CASE g = h
    BY <1>2, <2>1
  <2>2. CASE g # h
    BY <1>2, <2>2
  <2> QED BY <2>1, <2>2
<1>4. OwnsItsSession'
  <2> SUFFICES ASSUME NEW f \in Handler, NEW g \in Handler, f # g,
                      handler'[f].pc = "finishing", handler'[g].pc = "finishing", handler'[f].open # 0
               PROVE  handler'[f].open # handler'[g].open
    BY DEF OwnsItsSession
  <2>1. CASE f = h
    <3>1. ~Locked(j.open) /\ handler'[g] = handler[g]
      BY <1>2, <2>1
    <3> QED BY <1>2, <2>1, <3>1 DEF Locked
  <2>2. CASE g = h
    <3>1. handler'[f] = handler[f] /\ handler'[g] = j
      BY <1>2, <2>2
    <3>2. CASE j.open = handler[f].open
      BY <3>1, <3>2 DEF Locked
    <3> QED BY <3>1, <3>2
  <2>3. CASE f # h /\ g # h
    BY <1>2, <2>3 DEF ChatInv, OwnsItsSession
  <2> QED BY <2>1, <2>2, <2>3
<1> QED BY <1>1, <1>3, <1>4

\* Nothing is claimed, sent or reported.
LEMMA PaidKeeps ==
  ASSUME ChatInv, UNCHANGED <<notifier, sent, reasons>>,
         \A r \in Row : chat'[r].ack = chat[r].ack
  PROVE  (\A r \in Row : Paid(r))'
  BY DEF ChatInv, Paid, Sending, Allowed

-----------------------------------------------------------------------------
(* Recording a message.                                                    *)

\* What a handler's commit does to a session.
CommitOK(h, r) ==
  /\ chat'[r] \in ChatSession
  /\ chat'[r].ack = chat[r].ack /\ chat'[r].acked = chat[r].acked
  /\ chat[r].status = "FINALIZED" => chat'[r].status = "FINALIZED" /\ chat'[r].wamids = chat[r].wamids
  /\ chat[r].status = "OPEN" /\ r # handler[h].open => chat'[r].status = "OPEN"

LEMMA CommitChanges ==
  ASSUME ChatInv, NEW h \in Handler, FinishCommits(h)
  PROVE  /\ chat' \in [Row -> ChatSession]
         /\ \A r \in Row : CommitOK(h, r)
         /\ Packed(chat')
<1> DEFINE m == handler[h].wamid
           open == handler[h].open
           latest == handler[h].latest
<1>1. /\ chat \in [Row -> ChatSession]
      /\ m \in Wamid /\ open \in {0} \cup Row /\ latest \in {0} \cup Row
      /\ handler[h].late \in SUBSET Wamid
      /\ open # 0 => chat[open].status = "OPEN"
      /\ At[m] \in Nat /\ SentBy[m] \in Phone
  BY ChatAssumption DEF Handling, ChatInv, ChatTypeOK, HandlerOK, FinishCommits
<1>2. 0 \notin Row
  BY RowIsInterval
<1> DEFINE closed == Closed(open)
<1>3. /\ closed \in [Row -> ChatSession]
      /\ \A r \in Row : r # open => closed[r] = chat[r]
      /\ \A r \in Row : /\ closed[r].ack = chat[r].ack /\ closed[r].acked = chat[r].acked
                        /\ closed[r].wamids = chat[r].wamids
                        /\ closed[r].status = "ABSENT" <=> chat[r].status = "ABSENT"
  <2>1. CASE open = 0
    BY <1>1, <1>2, <2>1 DEF Closed
  <2>2. CASE open # 0
    BY <1>1, <2>2 DEF Closed, ChatSession
  <2> QED BY <2>1, <2>2
<1>4. Used(closed) = Used(chat) /\ Packed(closed)
  <2>1. Used(closed) = Used(chat)
    BY <1>3 DEF Used
  <2> QED BY <2>1, PackedLike DEF ChatInv
<1>9. ASSUME NEW r \in Row
      PROVE  /\ closed[r] \in ChatSession
             /\ closed[r].ack = chat[r].ack /\ closed[r].acked = chat[r].acked
             /\ chat[r].status = "FINALIZED" => closed[r].status = "FINALIZED" /\ closed[r].wamids = chat[r].wamids
             /\ chat[r].status = "OPEN" /\ r # open => closed[r].status = "OPEN"
  <2>1. CASE r = open
    BY <1>1, <1>3, <2>1, <1>2
  <2>2. CASE r # open
    BY <1>3, <2>2
  <2> QED BY <2>1, <2>2
<1>5. CASE chat' = chat
  BY <1>1, <1>5 DEF CommitOK, ChatInv
<1>6. CASE open # 0 /\ chat' = Joined(m, open)
  <2>0. chat' \in [Row -> ChatSession]
    BY <1>1, <1>6 DEF Joined, ChatSession
  <2>1. \A r \in Row : CommitOK(h, r)
    <3> TAKE r \in Row
    <3>1. CASE r = open
      <4>1. chat[open] \in ChatSession /\ chat[open].status = "OPEN"
        BY <1>1, <1>6
      <4>2. chat'[open].ack = chat[open].ack /\ chat'[open].acked = chat[open].acked
        BY <1>1, <1>6, <4>1 DEF Joined, ChatSession
      <4> QED BY <1>1, <1>6, <2>0, <3>1, <4>1, <4>2 DEF CommitOK
    <3>2. CASE r # open
      BY <1>1, <1>6, <2>0, <3>2 DEF Joined, CommitOK
    <3> QED BY <3>1, <3>2
  <2>2. Used(chat') = Used(chat)
    BY <1>1, <1>6 DEF Joined, ChatSession, Used
  <2> QED BY <2>0, <2>1, <2>2, PackedLike DEF ChatInv
<1>7. CASE latest # 0 /\ chat' = [closed EXCEPT ![latest].late = handler[h].late \cup {m}]
  <2> HIDE DEF closed
  <2>0. chat' \in [Row -> ChatSession]
    BY <1>1, <1>3, <1>7 DEF ChatSession
  <2>1. \A r \in Row : CommitOK(h, r)
    <3> TAKE r \in Row
    <3>1. chat'[r].ack = closed[r].ack /\ chat'[r].acked = closed[r].acked
          /\ chat'[r].status = closed[r].status /\ chat'[r].wamids = closed[r].wamids
      BY <1>3, <1>7 DEF ChatSession
    <3> QED BY <1>9, <2>0, <3>1 DEF CommitOK
  <2>2. Used(chat') = Used(closed)
    BY <1>3, <1>7 DEF ChatSession, Used
  <2> QED BY <1>4, <2>0, <2>1, <2>2, PackedLike
<1>8. CASE chat' = Opened(m, closed)
  <2> HIDE DEF closed
  <2>1. PICK n \in Nat : Used(closed) = 1..n
    BY <1>4 DEF Packed
  <2>2. Cardinality(Used(closed)) = n
    BY <2>1, FS_Interval
  <2>3. chat' = [closed EXCEPT ![n + 1] = [closed[n + 1] EXCEPT
                   !.status = "OPEN", !.phone = SentBy[m], !.first = At[m], !.last = At[m], !.wamids = {m}]]
    BY <1>8, <2>2 DEF Opened
  <2>4. CASE n + 1 \in Row
    <3>1. closed[n + 1].status = "ABSENT"
      BY <2>1, <2>4 DEF Used
    <3>2. chat[n + 1].status = "ABSENT"
      BY <1>3, <2>4, <3>1
    <3> DEFINE opened == [closed[n + 1] EXCEPT !.status = "OPEN", !.phone = SentBy[m],
                            !.first = At[m], !.last = At[m], !.wamids = {m}]
    <3>a. /\ opened \in ChatSession
          /\ opened.ack = closed[n + 1].ack /\ opened.acked = closed[n + 1].acked
      <4>1. closed[n + 1] \in ChatSession /\ {m} \in SUBSET Wamid
        BY <1>1, <1>3, <2>4
      <4> HIDE DEF m
      <4> QED BY <1>1, <4>1 DEF ChatSession
    <3>b. chat' = [closed EXCEPT ![n + 1] = opened]
      BY <2>3
    <3> HIDE DEF opened
    <3>c. chat' \in [Row -> ChatSession] /\ \A r \in Row : r # n + 1 => chat'[r] = closed[r]
      BY <1>3, <2>4, <3>a, <3>b
    <3>3. chat' \in [Row -> ChatSession] /\ \A r \in Row : CommitOK(h, r)
      <4>1. CommitOK(h, n + 1)
        BY <1>3, <2>4, <3>a, <3>b, <3>2, <3>c DEF CommitOK
      <4>2. ASSUME NEW r \in Row, r # n + 1 PROVE CommitOK(h, r)
        BY <1>9, <3>c, <4>2 DEF CommitOK
      <4> QED BY <3>c, <4>1, <4>2
    <3>4. Used(chat') = Used(closed) \cup {n + 1}
      BY <1>3, <2>3, <2>4, <3>c DEF Used
    <3>5. Used(chat') = 1..(n + 1) /\ n + 1 \in Nat
      BY <2>1, <3>4
    <3> QED BY <3>3, <3>5 DEF Packed
  <2>5. CASE n + 1 \notin Row
    <3>1. chat' = closed
      BY <1>3, <2>3, <2>5
    <3> QED BY <1>3, <1>4, <1>9, <3>1 DEF CommitOK
  <2> QED BY <2>4, <2>5
<1> HIDE DEF closed
<1> QED BY <1>5, <1>6, <1>7, <1>8 DEF FinishCommits, IsLate, closed

LEMMA ClaimMessageKeeps ==
  ASSUME ChatInv, NEW h \in Handler, NEW m \in Wamid, ClaimMessage(h, m)
  PROVE  ChatInv'
<1> DEFINE j == [NoMessage EXCEPT !.pc = "claimed", !.wamid = m]
<1>1. /\ j \in Handling
      /\ j.pc = "claimed" /\ HandlerOK(j, chat)
  BY DEF Handling, NoMessage, HandlerOK
<1>2. handler' = [handler EXCEPT ![h] = j] /\ UNCHANGED chat
  BY DEF ClaimMessage
<1>3. \A g \in Handler : HandlerOK(handler[g], chat')
  BY <1>2 DEF ChatInv
<1> HIDE DEF j
<1>4. /\ handler' \in [Handler -> Handling]
      /\ (\A g \in Handler : HandlerOK(handler[g], chat))' /\ OwnsItsSession'
  BY <1>1, <1>2, <1>3, HandlerTakes
<1>5. ChatTypeOK'
  BY <1>4 DEF ChatInv, ChatTypeOK, ClaimMessage
<1>6. (\A r \in Row : Paid(r))' /\ Packed(chat)'
  BY PaidKeeps DEF ChatInv, ClaimMessage
<1> QED BY <1>4, <1>5, <1>6 DEF ChatInv

LEMMA FinishReadsKeeps ==
  ASSUME ChatInv, NEW h \in Handler, FinishReads(h)
  PROVE  ChatInv'
<1> DEFINE p == SentBy[handler[h].wamid]
           open == Newest(RowsWith(p, {"OPEN"}))
           latest == Newest(RowsWith(p, {"OPEN", "FINALIZED"}))
           late == IF latest = 0 THEN {} ELSE chat[latest].late
           j == [handler[h] EXCEPT !.pc = "finishing", !.open = open, !.latest = latest, !.late = late]
<1>1. open \in {0} \cup RowsWith(p, {"OPEN"}) /\ latest \in {0} \cup RowsWith(p, {"OPEN", "FINALIZED"})
  <2>1. RowsWith(p, {"OPEN"}) \in SUBSET Row /\ RowsWith(p, {"OPEN", "FINALIZED"}) \in SUBSET Row
    BY DEF RowsWith
  <2> QED BY <2>1, NewestTyped
<1>2. /\ handler[h] \in Handling
      /\ handler[h].pc = "claimed" /\ handler[h].wamid \in Wamid
      /\ chat \in [Row -> ChatSession]
  BY DEF ChatInv, ChatTypeOK, HandlerOK, FinishReads
<1>3. open \in {0} \cup Row /\ latest \in {0} \cup Row /\ (open # 0 => chat[open].status = "OPEN")
  BY <1>1 DEF RowsWith
<1>4. late \in SUBSET Wamid
  BY <1>2, <1>3 DEF ChatSession
<1>5. handler' = [handler EXCEPT ![h] = j] /\ UNCHANGED chat /\ (open # 0 => ~Locked(open))
  BY DEF FinishReads
<1>6. /\ j \in Handling
      /\ HandlerOK(j, chat') /\ j.open = open
  <2> HIDE DEF open, latest, late
  <2> QED BY <1>2, <1>3, <1>4, <1>5 DEF Handling, HandlerOK
<1>7. \A g \in Handler : HandlerOK(handler[g], chat')
  BY <1>5 DEF ChatInv
<1> HIDE DEF j, open
<1>8. /\ handler' \in [Handler -> Handling]
      /\ (\A g \in Handler : HandlerOK(handler[g], chat))' /\ OwnsItsSession'
  BY <1>5, <1>6, <1>7, HandlerTakes
<1>9. ChatTypeOK'
  BY <1>8 DEF ChatInv, ChatTypeOK, FinishReads
<1>10. (\A r \in Row : Paid(r))' /\ Packed(chat)'
  BY PaidKeeps DEF ChatInv, FinishReads
<1> QED BY <1>8, <1>9, <1>10 DEF ChatInv

LEMMA FinishCommitsKeeps ==
  ASSUME ChatInv, NEW h \in Handler, FinishCommits(h)
  PROVE  ChatInv'
<1>1. chat' \in [Row -> ChatSession] /\ (\A r \in Row : CommitOK(h, r)) /\ Packed(chat')
  BY CommitChanges
<1>2. /\ NoMessage \in Handling
      /\ NoMessage.pc = "idle" /\ HandlerOK(NoMessage, chat')
  BY DEF Handling, NoMessage, HandlerOK
<1>3. handler' = [handler EXCEPT ![h] = NoMessage]
  BY DEF FinishCommits
<1>4. \A g \in Handler \ {h} : HandlerOK(handler[g], chat')
  <2> TAKE g \in Handler \ {h}
  <2>1. HandlerOK(handler[g], chat) /\ handler[g].open \in {0} \cup Row
    BY DEF Handling, ChatInv, ChatTypeOK
  <2>2. handler[g].pc = "finishing" /\ handler[g].open # 0 => handler[g].open # handler[h].open
    BY DEF ChatInv, OwnsItsSession, FinishCommits
  <2> QED BY <1>1, <2>1, <2>2 DEF HandlerOK, CommitOK
<1>5. /\ handler' \in [Handler -> Handling]
      /\ (\A g \in Handler : HandlerOK(handler[g], chat))' /\ OwnsItsSession'
  BY <1>2, <1>3, <1>4, HandlerTakes
<1>6. ChatTypeOK'
  BY <1>1, <1>5 DEF ChatInv, ChatTypeOK, FinishCommits
<1>7. (\A r \in Row : Paid(r))'
  BY <1>1, PaidKeeps DEF CommitOK, FinishCommits
<1> QED BY <1>1, <1>5, <1>6, <1>7 DEF ChatInv

LEMMA HandlerCrashesKeeps ==
  ASSUME ChatInv, NEW h \in Handler, HandlerCrashes(h)
  PROVE  ChatInv'
<1>1. /\ NoMessage \in Handling
      /\ NoMessage.pc = "idle" /\ HandlerOK(NoMessage, chat')
  BY DEF Handling, NoMessage, HandlerOK
<1>2. handler' = [handler EXCEPT ![h] = NoMessage] /\ UNCHANGED chat
  BY DEF HandlerCrashes
<1>3. \A g \in Handler : HandlerOK(handler[g], chat')
  BY <1>2 DEF ChatInv
<1>4. /\ handler' \in [Handler -> Handling]
      /\ (\A g \in Handler : HandlerOK(handler[g], chat))' /\ OwnsItsSession'
  BY <1>1, <1>2, <1>3, HandlerTakes
<1>5. ChatTypeOK'
  BY <1>4, ChatAssumption DEF ChatInv, ChatTypeOK, HandlerCrashes
<1>6. (\A r \in Row : Paid(r))' /\ Packed(chat)'
  BY PaidKeeps DEF ChatInv, HandlerCrashes
<1> QED BY <1>4, <1>5, <1>6 DEF ChatInv

-----------------------------------------------------------------------------
(* Finalizing and acknowledging.                                           *)

LEMMA NoticeTakes ==
  ASSUME ChatInv, NEW n \in Notifier, NEW j \in Notice, notifier' = [notifier EXCEPT ![n] = j]
  PROVE  /\ notifier' \in [Notifier -> Notice]
         /\ notifier'[n] = j /\ \A k \in Notifier \ {n} : notifier'[k] = notifier[k]
  BY DEF ChatInv, ChatTypeOK

LEMMA AllowedTyped ==
  ASSUME ChatInv, NEW r \in Row
  PROVE  Allowed(r) \in Nat /\ sent[r] \in Nat /\ IsFiniteSet(Sending(r)) /\ Cardinality(Sending(r)) \in Nat
<1>1. IsFiniteSet(Sending(r)) /\ reasons[r] \in Nat /\ sent[r] \in Nat
  BY DEF ChatInv, ChatTypeOK, Paid
<1> QED BY <1>1, FS_CardinalityType DEF Allowed

\* A notifier that leaves a send behind has used up what it was allowed.
LEMMA PaidByOne ==
  ASSUME ChatInv, NEW n \in Notifier, NEW j \in Notice, j.pc # "sending",
         notifier' = [notifier EXCEPT ![n] = j],
         NEW r \in Row, sent'[r] \in Nat,
         sent'[r] <= sent[r] + (IF n \in Sending(r) THEN 1 ELSE 0),
         Allowed(r)' \in Nat, Allowed(r) <= Allowed(r)'
  PROVE  Paid(r)'
<1>1. Sending(r)' = Sending(r) \ {n}
  BY NoticeTakes DEF Sending
<1>2. /\ IsFiniteSet(Sending(r) \ {n})
      /\ Cardinality(Sending(r) \ {n}) = IF n \in Sending(r) THEN Cardinality(Sending(r)) - 1
                                          ELSE Cardinality(Sending(r))
  BY AllowedTyped, FS_RemoveElement
<1>3. sent[r] + Cardinality(Sending(r)) <= Allowed(r)
  BY DEF ChatInv, Paid
<1>4. /\ sent[r] \in Nat /\ Cardinality(Sending(r)) \in Nat /\ Allowed(r) \in Nat
  BY AllowedTyped
<1> DEFINE size == Cardinality(Sending(r))
           size2 == Cardinality(Sending(r) \ {n})
<1>5. sent'[r] + size2 <= Allowed(r)'
  <2> HIDE DEF size, size2
  <2>1. CASE n \in Sending(r)
    <3>1. size2 = size - 1 /\ sent'[r] <= sent[r] + 1 /\ size \in Nat /\ sent[r] + size <= Allowed(r)
      BY <1>2, <1>3, <1>4, <2>1 DEF size, size2
    <3> QED BY <1>4, <3>1
  <2>2. CASE n \notin Sending(r)
    <3>1. size2 = size /\ sent'[r] <= sent[r] /\ size \in Nat /\ sent[r] + size <= Allowed(r)
      BY <1>2, <1>3, <1>4, <2>2 DEF size, size2
    <3> QED BY <1>4, <3>1
  <2> QED BY <2>1, <2>2
<1> QED BY <1>1, <1>2, <1>5 DEF Paid

\* A notifier that sends nothing more, and has sent nothing in this step.
LEMMA PaidByNone ==
  ASSUME ChatInv, NEW n \in Notifier, NEW j \in Notice, j.pc # "sending",
         notifier' = [notifier EXCEPT ![n] = j],
         NEW r \in Row, sent'[r] = sent[r],
         Allowed(r)' \in Nat, Allowed(r) <= Allowed(r)'
  PROVE  Paid(r)'
<1>1. sent[r] \in Nat
  BY AllowedTyped
<1>2. sent'[r] \in Nat /\ sent'[r] <= sent[r] + (IF n \in Sending(r) THEN 1 ELSE 0)
  BY <1>1
<1> QED BY <1>2, PaidByOne

LEMMA PendingNotificationsKeeps ==
  ASSUME ChatInv, NEW n \in Notifier, PendingNotifications(n)
  PROVE  ChatInv'
<1> DEFINE rows == {r \in Row : Claimable(Finalized(Expired)[r])}
           j == [notifier[n] EXCEPT !.pc = IF rows = {} THEN "idle" ELSE "notices", !.todo = rows]
<1>1. /\ chat \in [Row -> ChatSession] /\ notifier[n] \in Notice
      /\ notifier' = [notifier EXCEPT ![n] = j]
  BY DEF ChatInv, ChatTypeOK, PendingNotifications
<1>2. j \in Notice /\ j.pc # "sending"
  <2>1. rows \in SUBSET Row
    OBVIOUS
  <2> HIDE DEF rows
  <2> QED BY <1>1, <2>1 DEF Notice
<1>3. /\ chat' \in [Row -> ChatSession]
      /\ \A r \in Row : /\ chat'[r].ack = chat[r].ack
                        /\ chat'[r].status = "ABSENT" <=> chat[r].status = "ABSENT"
                        /\ Locked(r) => chat'[r] = chat[r]
  <2> SUFFICES ASSUME NEW r \in Row
               PROVE  /\ chat'[r] \in ChatSession /\ chat'[r].ack = chat[r].ack
                      /\ chat'[r].status = "ABSENT" <=> chat[r].status = "ABSENT"
                      /\ Locked(r) => chat'[r] = chat[r]
    BY DEF PendingNotifications, Finalized
  <2>1. CASE r \in Expired /\ chat[r].phone \notin batched
    <3>1. chat'[r] = [chat[r] EXCEPT !.status = "FINALIZED"] /\ ~Locked(r) /\ chat[r].status = "OPEN"
      BY <2>1 DEF PendingNotifications, Finalized, Expired
    <3> QED BY <1>1, <3>1 DEF ChatSession
  <2>2. CASE ~(r \in Expired /\ chat[r].phone \notin batched)
    <3>1. chat'[r] = chat[r]
      BY <2>2 DEF PendingNotifications, Finalized
    <3> QED BY <1>1, <3>1
  <2> QED BY <2>1, <2>2
<1> HIDE DEF j
<1>4. (\A h \in Handler : HandlerOK(handler[h], chat))' /\ OwnsItsSession'
  BY <1>3, HandlersKeep DEF PendingNotifications
<1>5. Packed(chat)'
  <2>1. Used(chat') = Used(chat)
    BY <1>3 DEF Used
  <2> QED BY <2>1, PackedLike DEF ChatInv
<1>6. ChatTypeOK'
  <2>1. notifier' \in [Notifier -> Notice]
    BY <1>1, <1>2, NoticeTakes
  <2> QED BY <1>3, <2>1 DEF ChatInv, ChatTypeOK, PendingNotifications
<1>7. ASSUME NEW r \in Row PROVE Paid(r)'
  <2>1. Allowed(r)' = Allowed(r) /\ sent'[r] = sent[r]
    BY <1>3 DEF Allowed, PendingNotifications
  <2>2. Allowed(r)' \in Nat /\ Allowed(r) <= Allowed(r)'
    BY <2>1, AllowedTyped
  <2> QED BY <1>1, <1>2, <2>1, <2>2, PaidByNone
<1> QED BY <1>4, <1>5, <1>6, <1>7 DEF ChatInv

\* What the steps after it change of a session: its acknowledgement.
LEMMA AckOnly ==
  ASSUME ChatInv, UNCHANGED handler, chat' \in [Row -> ChatSession],
         \A r \in Row : chat'[r].status = chat[r].status
  PROVE  (\A h \in Handler : HandlerOK(handler[h], chat))' /\ OwnsItsSession' /\ Packed(chat)'
<1>1. Used(chat') = Used(chat)
  BY DEF Used
<1> QED BY <1>1, HandlersKeep, PackedLike DEF ChatInv

LEMMA ClaimNoticeKeeps ==
  ASSUME ChatInv, NEW n \in Notifier, NEW q \in Row, ClaimNotice(n, q)
  PROVE  ChatInv'
<1> DEFINE j == [notifier[n] EXCEPT !.pc = "sending", !.todo = notifier[n].todo \ {q}, !.row = q]
<1>1. /\ chat \in [Row -> ChatSession] /\ notifier[n] \in Notice /\ reasons \in [Row -> Nat]
      /\ notifier' = [notifier EXCEPT ![n] = j]
      /\ notifier[n].pc = "notices" /\ chat[q].ack \in {"none", "stale", "FAILED"}
  BY DEF ChatInv, ChatTypeOK, ClaimNotice, Claimable
<1>2. j \in Notice /\ j.pc = "sending" /\ j.row = q
  BY <1>1 DEF Notice
<1>3. /\ chat' \in [Row -> ChatSession] /\ chat'[q].ack = "fresh"
      /\ \A r \in Row : chat'[r].status = chat[r].status
      /\ \A r \in Row \ {q} : chat'[r] = chat[r]
  BY <1>1 DEF ClaimNotice, ChatSession
<1>4. /\ reasons' \in [Row -> Nat]
      /\ reasons'[q] = IF chat[q].ack \in {"stale", "FAILED"} THEN reasons[q] + 1 ELSE reasons[q]
      /\ \A r \in Row \ {q} : reasons'[r] = reasons[r]
  BY <1>1 DEF ClaimNotice
<1> HIDE DEF j
<1>5. ChatTypeOK'
  BY <1>1, <1>2, <1>3, <1>4, NoticeTakes DEF ChatInv, ChatTypeOK, ClaimNotice
<1>6. (\A h \in Handler : HandlerOK(handler[h], chat))' /\ OwnsItsSession' /\ Packed(chat)'
  BY <1>3, AckOnly DEF ClaimNotice
<1>7. Paid(q)'
  <2>1. Sending(q)' = Sending(q) \cup {n} /\ n \notin Sending(q)
    BY <1>1, <1>2, NoticeTakes DEF Sending
  <2>2. /\ IsFiniteSet(Sending(q) \cup {n})
        /\ Cardinality(Sending(q) \cup {n}) = Cardinality(Sending(q)) + 1
    BY <2>1, AllowedTyped, FS_AddElement
  <2>3. Allowed(q)' = Allowed(q) + 1
    BY <1>1, <1>3, <1>4 DEF Allowed
  <2>4. sent' = sent /\ sent[q] + Cardinality(Sending(q)) <= Allowed(q)
    BY DEF ClaimNotice, ChatInv, Paid
  <2> QED BY <2>1, <2>2, <2>3, <2>4, AllowedTyped DEF Paid
<1>8. ASSUME NEW r \in Row, r # q PROVE Paid(r)'
  <2>1. Sending(r)' = Sending(r)
    BY <1>1, <1>2, <1>8, NoticeTakes DEF Sending
  <2>2. Allowed(r)' = Allowed(r) /\ sent' = sent
    BY <1>3, <1>4, <1>8 DEF Allowed, ClaimNotice
  <2> QED BY <2>1, <2>2 DEF ChatInv, Paid
<1> QED BY <1>5, <1>6, <1>7, <1>8 DEF ChatInv

\* A notifier goes on with its list, or has nothing left to do.
LEMMA NextNotice ==
  ASSUME ChatInv, NEW todo \in SUBSET Row
  PROVE  LET j == [NoNotice EXCEPT !.pc = IF todo = {} THEN "idle" ELSE "notices", !.todo = todo]
         IN  j \in Notice /\ j.pc # "sending"
  BY DEF NoNotice, Notice

LEMMA ClaimRefusedKeeps ==
  ASSUME ChatInv, NEW n \in Notifier, NEW q \in Row, ClaimRefused(n, q)
  PROVE  ChatInv'
<1> DEFINE todo == notifier[n].todo \ {q}
           j == [NoNotice EXCEPT !.pc = IF todo = {} THEN "idle" ELSE "notices", !.todo = todo]
<1>1. j \in Notice /\ j.pc # "sending" /\ notifier' = [notifier EXCEPT ![n] = j]
  <2>1. todo \in SUBSET Row
    BY DEF ChatInv, ChatTypeOK, Notice
  <2> QED BY <2>1, NextNotice DEF ClaimRefused, AfterNotice
<1> HIDE DEF j
<1>2. ChatTypeOK'
  BY <1>1, NoticeTakes DEF ChatInv, ChatTypeOK, ClaimRefused
<1>3. (\A h \in Handler : HandlerOK(handler[h], chat))' /\ OwnsItsSession' /\ Packed(chat)'
  BY AckOnly DEF ChatInv, ChatTypeOK, ClaimRefused
<1>4. ASSUME NEW r \in Row PROVE Paid(r)'
  <2>1. Allowed(r)' = Allowed(r) /\ sent'[r] = sent[r]
    BY DEF Allowed, ClaimRefused
  <2>2. Allowed(r)' \in Nat /\ Allowed(r) <= Allowed(r)'
    BY <2>1, AllowedTyped
  <2> QED BY <1>1, <2>1, <2>2, PaidByNone
<1> QED BY <1>2, <1>3, <1>4 DEF ChatInv

\* Send and SendFails.
LEMMA SendKeeps ==
  ASSUME ChatInv, NEW n \in Notifier, notifier[n].pc = "sending", NEW gone \in {0, 1}, NEW ok \in BOOLEAN,
         sent' = [sent EXCEPT ![notifier[n].row] = sent[notifier[n].row] + gone],
         notifier' = [notifier EXCEPT ![n].pc = "reporting", ![n].ok = ok],
         trouble' \in 0..MaxTrouble,
         UNCHANGED <<now, claimed, chat, handler, batched, batches, reasons>>
  PROVE  ChatInv'
<1> DEFINE j == [notifier[n] EXCEPT !.pc = "reporting", !.ok = ok]
<1>1. /\ notifier[n] \in Notice /\ sent \in [Row -> Nat]
      /\ notifier' = [notifier EXCEPT ![n] = j]
  BY DEF ChatInv, ChatTypeOK
<1>2. j \in Notice /\ j.pc # "sending"
  BY <1>1 DEF Notice
<1> HIDE DEF j
<1>3. /\ sent' \in [Row -> Nat]
      /\ \A r \in Row : sent'[r] <= sent[r] + (IF n \in Sending(r) THEN 1 ELSE 0)
  <2>1. sent' \in [Row -> Nat]
    <3>1. sent' = [r \in Row |-> IF r = notifier[n].row THEN sent[r] + gone ELSE sent[r]]
      BY <1>1
    <3>2. \A r \in Row : sent[r] \in Nat /\ sent[r] + gone \in Nat
      BY <1>1
    <3> QED BY <3>1, <3>2
  <2>2. ASSUME NEW r \in Row PROVE sent'[r] <= sent[r] + (IF n \in Sending(r) THEN 1 ELSE 0)
    <3>1. CASE notifier[n].row = r
      <4>1. n \in Sending(r) /\ sent'[r] = sent[r] + gone
        BY <1>1, <3>1 DEF Sending
      <4> QED BY <1>1, <4>1
    <3>2. CASE notifier[n].row # r
      <4>1. n \notin Sending(r) /\ sent'[r] = sent[r]
        BY <1>1, <3>2 DEF Sending
      <4> QED BY <1>1, <4>1
    <3> QED BY <3>1, <3>2
  <2> QED BY <2>1, <2>2
<1>4. ChatTypeOK'
  BY <1>1, <1>2, <1>3, NoticeTakes DEF ChatInv, ChatTypeOK
<1>5. (\A h \in Handler : HandlerOK(handler[h], chat))' /\ OwnsItsSession' /\ Packed(chat)'
  BY AckOnly DEF ChatInv, ChatTypeOK
<1>6. ASSUME NEW r \in Row PROVE Paid(r)'
  <2>1. Allowed(r)' = Allowed(r) /\ sent'[r] \in Nat
    BY <1>3 DEF Allowed
  <2>2. Allowed(r)' \in Nat /\ Allowed(r) <= Allowed(r)'
    BY <2>1, AllowedTyped
  <2>3. sent'[r] <= sent[r] + (IF n \in Sending(r) THEN 1 ELSE 0)
    BY <1>3
  <2> QED BY <1>1, <1>2, <2>1, <2>2, <2>3, PaidByOne
<1> QED BY <1>4, <1>5, <1>6 DEF ChatInv

LEMMA FinishNoticeKeeps ==
  ASSUME ChatInv, NEW n \in Notifier, FinishNotice(n)
  PROVE  ChatInv'
<1> DEFINE todo == notifier[n].todo
           j == [NoNotice EXCEPT !.pc = IF todo = {} THEN "idle" ELSE "notices", !.todo = todo]
           q == notifier[n].row
           row == Reported(chat[q], notifier[n].ok)
<1>1. j \in Notice /\ j.pc # "sending" /\ notifier' = [notifier EXCEPT ![n] = j]
  <2>1. todo \in SUBSET Row
    BY DEF ChatInv, ChatTypeOK, Notice
  <2> QED BY <2>1, NextNotice DEF FinishNotice, AfterNotice
<1>2. /\ chat \in [Row -> ChatSession] /\ notifier[n].ok \in BOOLEAN
      /\ chat' = [chat EXCEPT ![q] = row]
  BY DEF ChatInv, ChatTypeOK, Notice, FinishNotice
<1>3. q \in Row => row \in ChatSession /\ row.status = chat[q].status /\ row.ack # "none"
  <2> SUFFICES ASSUME q \in Row PROVE row \in ChatSession /\ row.status = chat[q].status /\ row.ack # "none"
    OBVIOUS
  <2>1. chat[q] \in ChatSession
    BY <1>2
  <2> QED BY <1>2, <2>1 DEF ChatSession, Reported
<1> HIDE DEF j, row
<1>4. /\ chat' \in [Row -> ChatSession]
      /\ \A r \in Row : chat'[r].status = chat[r].status /\ chat'[r].ack \in {chat[r].ack, row.ack}
      /\ \A r \in Row : chat'[r].ack # chat[r].ack => chat'[r].ack # "none"
  BY <1>2, <1>3
<1>5. ChatTypeOK'
  BY <1>1, <1>4, NoticeTakes DEF ChatInv, ChatTypeOK, FinishNotice
<1>6. (\A h \in Handler : HandlerOK(handler[h], chat))' /\ OwnsItsSession' /\ Packed(chat)'
  BY <1>4, AckOnly DEF FinishNotice
<1>7. ASSUME NEW r \in Row PROVE Paid(r)'
  <2>1. Allowed(r)' \in Nat /\ Allowed(r) <= Allowed(r)' /\ sent'[r] = sent[r]
    BY <1>4 DEF Allowed, ChatInv, ChatTypeOK, FinishNotice
  <2>2. Allowed(r)' \in Nat /\ Allowed(r) <= Allowed(r)'
    BY <2>1, AllowedTyped
  <2> QED BY <1>1, <2>1, <2>2, PaidByNone
<1> QED BY <1>5, <1>6, <1>7 DEF ChatInv

LEMMA NotifierCrashesKeeps ==
  ASSUME ChatInv, NEW n \in Notifier, NotifierCrashes(n)
  PROVE  ChatInv'
<1>1. NoNotice \in Notice /\ NoNotice.pc # "sending" /\ notifier' = [notifier EXCEPT ![n] = NoNotice]
  BY DEF NoNotice, Notice, NotifierCrashes
<1>2. ChatTypeOK'
  BY <1>1, NoticeTakes, ChatAssumption DEF ChatInv, ChatTypeOK, NotifierCrashes
<1>3. (\A h \in Handler : HandlerOK(handler[h], chat))' /\ OwnsItsSession' /\ Packed(chat)'
  BY AckOnly DEF ChatInv, ChatTypeOK, NotifierCrashes
<1>4. ASSUME NEW r \in Row PROVE Paid(r)'
  <2>1. Allowed(r)' = Allowed(r) /\ sent'[r] = sent[r]
    BY DEF Allowed, NotifierCrashes
  <2>2. Allowed(r)' \in Nat /\ Allowed(r) <= Allowed(r)'
    BY <2>1, AllowedTyped
  <2> QED BY <1>1, <2>1, <2>2, PaidByNone
<1> QED BY <1>2, <1>3, <1>4 DEF ChatInv

LEMMA ClaimGoesStaleKeeps ==
  ASSUME ChatInv, NEW q \in Row, ClaimGoesStale(q)
  PROVE  ChatInv'
<1>1. /\ chat' \in [Row -> ChatSession] /\ chat[q].ack = "fresh" /\ chat'[q].ack = "stale"
      /\ \A r \in Row : chat'[r].status = chat[r].status
      /\ \A r \in Row \ {q} : chat'[r] = chat[r]
  BY DEF ClaimGoesStale, ChatInv, ChatTypeOK, ChatSession
<1>2. ChatTypeOK'
  BY <1>1 DEF ChatInv, ChatTypeOK, ClaimGoesStale
<1>3. (\A h \in Handler : HandlerOK(handler[h], chat))' /\ OwnsItsSession' /\ Packed(chat)'
  BY <1>1, AckOnly DEF ClaimGoesStale
<1>4. ASSUME NEW r \in Row PROVE Paid(r)'
  <2>1. Allowed(r)' = Allowed(r) /\ Sending(r)' = Sending(r) /\ sent' = sent
    BY <1>1 DEF Allowed, Sending, ClaimGoesStale
  <2> QED BY <2>1 DEF ChatInv, Paid
<1> QED BY <1>2, <1>3, <1>4 DEF ChatInv

\* The clock, the batches of the poller, and steps of other parts of the system.
LEMMA AsideKeeps ==
  ASSUME ChatInv, Tick \/ (\E p \in Phone : BeginBatch(p) \/ EndBatch(p)) \/ UNCHANGED chatVars
  PROVE  ChatInv'
<1>1. UNCHANGED <<claimed, chat, handler, notifier, sent, reasons, trouble>>
  BY DEF Tick, BeginBatch, EndBatch, chatVars
<1>2. now' \in 0..Horizon /\ batched' \subseteq Phone /\ batches' \in 0..MaxBatches
  BY ChatAssumption DEF ChatInv, ChatTypeOK, Tick, BeginBatch, EndBatch, chatVars
<1>3. ChatTypeOK'
  BY <1>1, <1>2 DEF ChatInv, ChatTypeOK
<1>4. (\A h \in Handler : HandlerOK(handler[h], chat))' /\ OwnsItsSession' /\ Packed(chat)'
  BY <1>1, AckOnly DEF ChatInv, ChatTypeOK
<1>5. (\A r \in Row : Paid(r))'
  BY <1>1, PaidKeeps
<1> QED BY <1>3, <1>4, <1>5 DEF ChatInv

-----------------------------------------------------------------------------
(* Theorems.                                                               *)

LEMMA ChatInvInit ==
  ASSUME ChatInit
  PROVE  ChatInv
<1>1. chat \in [Row -> ChatSession] /\ \A r \in Row : chat[r].status = "ABSENT" /\ chat[r].ack = "none"
  <2> SUFFICES ASSUME NEW r \in Row
               PROVE  chat[r] \in ChatSession /\ chat[r].status = "ABSENT" /\ chat[r].ack = "none"
    BY DEF ChatInit
  <2>1. Wamid # {}
    BY RowIsInterval, FS_EmptySet
  <2>2. (CHOOSE p \in Phone : TRUE) \in Phone
    BY <2>1, ChatAssumption
  <2> QED BY <2>2 DEF ChatInit, ChatSession
<1>2. ChatTypeOK
  BY <1>1, ChatAssumption DEF ChatInit, ChatTypeOK, NoMessage, NoNotice, Handling, Notice
<1>3. (\A h \in Handler : HandlerOK(handler[h], chat)) /\ OwnsItsSession
  BY DEF ChatInit, HandlerOK, OwnsItsSession, NoMessage
<1>4. Packed(chat)
  <2>1. Used(chat) = 1..0
    BY <1>1 DEF Used
  <2> QED BY <2>1 DEF Packed
<1>5. ASSUME NEW r \in Row PROVE Paid(r)
  <2>1. Sending(r) = {}
    BY DEF ChatInit, NoNotice, Sending
  <2>2. sent[r] = 0 /\ Allowed(r) = 0
    BY <1>1 DEF ChatInit, Allowed
  <2> QED BY <2>1, <2>2, FS_EmptySet DEF Paid
<1> QED BY <1>2, <1>3, <1>4, <1>5 DEF ChatInv

LEMMA ChatInvNext ==
  ASSUME ChatInv, [ChatNext]_chatVars
  PROVE  ChatInv'
<1>1. CASE Tick \/ (\E p \in Phone : BeginBatch(p) \/ EndBatch(p)) \/ UNCHANGED chatVars
  BY <1>1, AsideKeeps
<1>2. CASE \E h \in Handler : FinishReads(h) \/ FinishCommits(h) \/ HandlerCrashes(h)
                            \/ \E m \in Wamid : ClaimMessage(h, m)
  BY <1>2, FinishReadsKeeps, FinishCommitsKeeps, HandlerCrashesKeeps, ClaimMessageKeeps
<1>3. ASSUME NEW n \in Notifier, Send(n) PROVE ChatInv'
  BY <1>3, SendKeeps DEF Send, ChatInv, ChatTypeOK
<1>4. ASSUME NEW n \in Notifier, SendFails(n) PROVE ChatInv'
  <2>1. PICK gone \in {0, 1} : sent' = [sent EXCEPT ![notifier[n].row] = sent[notifier[n].row] + gone]
    BY <1>4 DEF SendFails
  <2>2. trouble' \in 0..MaxTrouble
    BY <1>4, ChatAssumption DEF SendFails, ChatInv, ChatTypeOK
  <2> QED BY <1>4, <2>1, <2>2, SendKeeps DEF SendFails
<1>5. CASE \E n \in Notifier : PendingNotifications(n) \/ FinishNotice(n) \/ NotifierCrashes(n)
                             \/ \E r \in Row : ClaimNotice(n, r) \/ ClaimRefused(n, r)
  BY <1>5, PendingNotificationsKeeps, FinishNoticeKeeps, NotifierCrashesKeeps, ClaimNoticeKeeps, ClaimRefusedKeeps
<1>6. CASE \E r \in Row : ClaimGoesStale(r)
  BY <1>6, ClaimGoesStaleKeeps
<1> QED BY <1>1, <1>2, <1>3, <1>4, <1>5, <1>6 DEF ChatNext, HandlerStep, NotifierStep

LEMMA ChatInvariant == ChatSafety => []ChatInv
  BY ChatInvInit, ChatInvNext, PTL DEF ChatSafety

(* The tables, the handlers and the notifiers of the WhatsApp sessions hold *)
(* what their columns and variables may hold (type correctness).           *)
THEOREM ChatTypes == ChatSafety => []ChatTypeOK
  BY ChatInvariant, PTL DEF ChatInv

(* The chat never gets more acknowledgements of a session than one and one *)
(* for each claim that took over a failed or stale one: every claim that   *)
(* may still send is counted beside what was sent (claim_notification and  *)
(* mark_notification of the state endpoints).                              *)
THEOREM AcksAccounted == ChatSafety => []AcksAreAccountedFor
<1>1. ASSUME ChatInv PROVE AcksAreAccountedFor
  <2> SUFFICES ASSUME NEW r \in Row PROVE sent[r] <= 1 + reasons[r]
    BY DEF AcksAreAccountedFor
  <2>1. sent[r] + Cardinality(Sending(r)) <= Allowed(r) /\ reasons[r] \in Nat
    BY <1>1 DEF ChatInv, ChatTypeOK, Paid
  <2>2. Allowed(r) <= 1 + reasons[r]
    BY <2>1 DEF Allowed
  <2> QED BY <1>1, <2>1, <2>2, AllowedTyped
<1> QED BY <1>1, ChatInvariant, PTL

LEMMA KeepsFinalized ==
  ASSUME ChatInv, [ChatNext]_chatVars, NEW r \in Row, chat[r].status = "FINALIZED"
  PROVE  chat'[r].status = "FINALIZED" /\ chat'[r].wamids = chat[r].wamids
<1>1. chat \in [Row -> ChatSession] /\ chat[r] \in ChatSession
  BY DEF ChatInv, ChatTypeOK
<1>2. CASE UNCHANGED chat
  BY <1>2
<1>3. CASE \E h \in Handler : FinishCommits(h)
  BY <1>3, CommitChanges DEF CommitOK
<1>4. CASE \E n \in Notifier : PendingNotifications(n)
  <2>1. r \notin Expired
    BY DEF Expired
  <2>2. chat'[r] = chat[r]
    BY <1>4, <2>1 DEF PendingNotifications, Finalized
  <2> QED BY <2>2
<1>5. CASE \E n \in Notifier : \E q \in Row : ClaimNotice(n, q)
  BY <1>1, <1>5 DEF ClaimNotice, ChatSession
<1>6. ASSUME NEW n \in Notifier, FinishNotice(n)
      PROVE  chat'[r].status = chat[r].status /\ chat'[r].wamids = chat[r].wamids
  <2>1. Reported(chat[r], notifier[n].ok).status = chat[r].status
        /\ Reported(chat[r], notifier[n].ok).wamids = chat[r].wamids
    BY <1>1 DEF Reported, ChatSession
  <2> HIDE DEF Reported
  <2>2. chat'[r] \in {chat[r], Reported(chat[r], notifier[n].ok)}
    BY <1>1, <1>6 DEF FinishNotice
  <2> QED BY <2>1, <2>2
<1>7. CASE \E q \in Row : ClaimGoesStale(q)
  BY <1>1, <1>7 DEF ClaimGoesStale, ChatSession
<1> QED
  BY <1>2, <1>3, <1>4, <1>5, <1>6, <1>7
     DEF ChatNext, HandlerStep, NotifierStep, Tick, FinishReads, HandlerCrashes, ClaimMessage,
         BeginBatch, EndBatch, Send, ClaimRefused, SendFails, NotifierCrashes, chatVars

LEMMA KeepsConfirmed ==
  ASSUME ChatInv, [ChatNext]_chatVars, NEW r \in Row, chat[r].acked
  PROVE  chat'[r].acked /\ reasons'[r] = reasons[r]
<1>1. chat \in [Row -> ChatSession] /\ chat[r] \in ChatSession /\ reasons \in [Row -> Nat]
  BY DEF ChatInv, ChatTypeOK
<1>2. CASE UNCHANGED <<chat, reasons>>
  BY <1>2
<1>3. CASE \E h \in Handler : FinishCommits(h)
  BY <1>3, CommitChanges DEF CommitOK, FinishCommits
<1>4. CASE \E n \in Notifier : PendingNotifications(n)
  <2>1. chat'[r].acked = chat[r].acked
    <3>1. chat'[r] \in {chat[r], [chat[r] EXCEPT !.status = "FINALIZED"]}
      BY <1>4 DEF PendingNotifications, Finalized
    <3> QED BY <1>1, <3>1 DEF ChatSession
  <2> QED BY <1>4, <2>1 DEF PendingNotifications
<1>5. ASSUME NEW n \in Notifier, NEW q \in Row, ClaimNotice(n, q)
      PROVE  chat'[r] = chat[r] /\ reasons'[r] = reasons[r]
  <2>1. q # r
    BY <1>5 DEF ClaimNotice, Claimable
  <2> QED BY <1>1, <1>5, <2>1 DEF ClaimNotice
<1>6. ASSUME NEW n \in Notifier, FinishNotice(n)
      PROVE  chat'[r].acked /\ reasons'[r] = reasons[r]
  <2>1. Reported(chat[r], notifier[n].ok).acked
    BY <1>1 DEF Reported, ChatSession
  <2> HIDE DEF Reported
  <2>2. chat'[r] \in {chat[r], Reported(chat[r], notifier[n].ok)}
    BY <1>1, <1>6 DEF FinishNotice
  <2> QED BY <1>6, <2>1, <2>2 DEF FinishNotice
<1>7. CASE \E q \in Row : ClaimGoesStale(q)
  BY <1>1, <1>7 DEF ClaimGoesStale, ChatSession
<1> QED
  BY <1>2, <1>3, <1>4, <1>5, <1>6, <1>7
     DEF ChatNext, HandlerStep, NotifierStep, Tick, FinishReads, HandlerCrashes, ClaimMessage,
         BeginBatch, EndBatch, Send, ClaimRefused, SendFails, NotifierCrashes, chatVars

(* The messages of a finalized session are its messages for good: what     *)
(* comes later is a caption beside them or a session of its own            *)
(* (finish_message and the window rules of WhatsAppSessionService).        *)
THEOREM FinalizedKept == ChatSafety => FinalizedKeepTheirMessages
<1>1. ASSUME ChatInv, [ChatNext]_chatVars
      PROVE  [\A r \in Row : chat[r].status = "FINALIZED" =>
                chat'[r].status = "FINALIZED" /\ chat'[r].wamids = chat[r].wamids]_chatVars
  BY <1>1, KeepsFinalized
<1> QED BY <1>1, ChatInvariant, PTL DEF ChatSafety, FinalizedKeepTheirMessages

(* A confirmed acknowledgement is never taken back and never claimed       *)
(* again, whatever a slow notifier still reports (mark_notification).      *)
THEOREM ConfirmedKept == ChatSafety => ConfirmedStaysConfirmed
<1>1. ASSUME ChatInv, [ChatNext]_chatVars
      PROVE  [\A r \in Row : chat[r].acked => chat'[r].acked /\ reasons'[r] = reasons[r]]_chatVars
  BY <1>1, KeepsConfirmed
<1> QED BY <1>1, ChatInvariant, PTL DEF ChatSafety, ConfirmedStaysConfirmed
=============================================================================
