------------------------------ MODULE Mailbox -------------------------------
(***************************************************************************)
(* What the durable capture path promises of a message: once the relay has *)
(* captured it, the Finance PC gets it, keeps it, and only then may the    *)
(* relay consider it settled.  How (leases, redelivery, transactions that  *)
(* fail, two PCs) is the business of RemoteInbox, which implements this.   *)
(***************************************************************************)
CONSTANTS
  Message,     \* what senders may send
  Deliverable  \* the messages whose media the relay can hand over intact

VARIABLES
  captured,    \* accepted by the relay
  delivered,   \* in the Finance PC's database
  settled      \* acknowledged: the relay will not offer them again

mailbox == <<captured, delivered, settled>>

MailboxInit == captured = {} /\ delivered = {} /\ settled = {}

Accept(m) ==
  /\ m \notin captured
  /\ captured' = captured \cup {m}
  /\ UNCHANGED <<delivered, settled>>

\* One local transaction delivers any number of messages, none twice.
Deliver(S) ==
  /\ S # {} /\ S \cap delivered = {}
  /\ delivered' = delivered \cup S
  /\ UNCHANGED <<captured, settled>>

Settle(m) ==
  /\ m \in captured \cap delivered
  /\ settled' = settled \cup {m}
  /\ UNCHANGED <<captured, delivered>>

\* A relay that forgets the acknowledgement offers the message once more.
Reopen(m) ==
  /\ m \in settled
  /\ settled' = settled \ {m}
  /\ UNCHANGED <<captured, delivered>>

MailboxNext ==
  \/ \E m \in Message : Accept(m) \/ Settle(m) \/ Reopen(m)
  \/ \E S \in SUBSET Message : Deliver(S)

MailboxSafety == MailboxInit /\ [][MailboxNext]_mailbox

\* A captured message that can be delivered is delivered.
MailboxSpec ==
  /\ MailboxSafety
  /\ \A m \in Deliverable : m \in captured ~> m \in delivered
=============================================================================
