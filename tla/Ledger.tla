-------------------------------- MODULE Ledger --------------------------------
(***************************************************************************)
(* The double-entry ledger of one organization: candidate transactions and *)
(* their review flags, the journal, customer invoices and vendor bills     *)
(* with their payments and retention releases, the settlements of cash     *)
(* movements, and the accounting period that gates every posting.          *)
(*                                                                         *)
(* A request runs in one READ COMMITTED transaction.  Most handlers read   *)
(* without a lock and decide on what they read, so a request is two steps: *)
(* Begin... reads and checks, Commit... writes what the handler computed   *)
(* from the values it had seen.  Whatever else commits in between is not   *)
(* seen.  Three things hold the second step together:                      *)
(*   - whoever writes the journal takes a number from tenant_sequences,    *)
(*     whose row stays locked until the transaction ends, so those commits *)
(*     do not overlap;                                                     *)
(*   - payments and retention releases lock the invoice or bill and read   *)
(*     it again, so their checks are part of the commit;                   *)
(*   - an ORM object is written only in the columns whose value differs    *)
(*     from the value it was loaded with.                                  *)
(* A request can fail at any point (Abort): a guard that is asked again, a *)
(* constraint, a deadlock, a lost connection.  run_in_clean_transaction    *)
(* then starts it anew, which is another Begin.                            *)
(*                                                                         *)
(* Amounts are small naturals.  Every date falls into the one period.      *)
(* ADMIN may do what MANAGER may; VIEWER is refused by the routes.         *)
(*                                                                         *)
(* A definition headed "Mutation" is no part of the specification: it is   *)
(* the bug that a property named in PROJECT.json would find.               *)
(***************************************************************************)
EXTENDS Naturals, FiniteSets, Functions

CONSTANTS
  Trx,        \* transaction identities; bounds how many are ever created
  NoTrx,      \* a foreign key that is NULL
  Flag,       \* identities of the review flags of one transaction
  NoFlag,     \* a request that is about no flag
  Session,    \* requests in flight at a time
  Kinds,      \* transaction types that POST /transactions is asked for
  MaxAmount   \* bound on the amount of a transaction

InvoiceKinds == {"CUSTOMER_INVOICE", "VENDOR_BILL"}
SensitiveKinds == {"OWNER_WITHDRAWAL", "OWNER_CONTRIBUTION", "REVERSAL", "JOURNAL_ADJUSTMENT"}
OtherKinds == {"DIRECT_PURCHASE", "BANK_CHARGE", "INTERBANK_TRANSFER"}
PaymentKinds == {"CUSTOMER_PAYMENT", "PAY_VENDOR_BILL"}
AllKinds == InvoiceKinds \cup SensitiveKinds \cup OtherKinds \cup PaymentKinds
              \cup {"RETENTION_RELEASE"}

ASSUME LedgerAssumption ==
  /\ IsFiniteSet(Trx)
  /\ NoTrx \notin Trx
  /\ NoFlag \notin Flag
  /\ Kinds \subseteq AllKinds \ {"REVERSAL"}
  /\ MaxAmount \in Nat \ {0}

VARIABLES
  trx,      \* transactions, with their review flags
  je,       \* the journal entry of each transaction
  bill,     \* customer_invoices and vendor_bills, by the transaction that issued them
  alloc,    \* the invoice or bill a payment is allocated to
  release,  \* the invoice whose retention a transaction releases
  settled,  \* transactions with a settlement and its money movement
  period,   \* the status of the accounting period
  req       \* the request each session is serving

books == <<trx, je, bill, alloc, release, settled>>
ledgerVars == <<trx, je, bill, alloc, release, settled, period, req>>

Amount == 1..MaxAmount
WorkflowStatus == {"NONE", "STAGED", "REVIEW_REQUIRED", "POSTED", "REVERSED"}
FlagState == {"none", "open", "resolved"}
BillStatus == {"NONE", "UNPAID", "PARTIALLY_PAID", "PAID", "CANCELLED"}
Role == {"OPERATOR", "MANAGER"}

Transaction == [kind: AllKinds \cup {"NONE"}, amount: 0..MaxAmount, retention: 0..MaxAmount,
                status: WorkflowStatus, flags: [Flag -> FlagState], of: Trx \cup {NoTrx}]

Billing == [status: BillStatus, released: 0..MaxAmount]

\* What a request carries from its reads to its writes: the row it is about, its own
\* input (amount, flag), and what it saw: the row's status, whether the flag it resolves
\* was the last open one, and for a reversal the invoice it will touch, the row as it was
\* loaded and as the reversal will leave it.
Request == [op: {"idle", "post", "reverse", "pay", "release", "flag", "resolve"},
            trx: Trx \cup {NoTrx}, amount: 0..MaxAmount, flag: Flag \cup {NoFlag},
            status: WorkflowStatus, last: BOOLEAN, touched: Trx \cup {NoTrx},
            seen: Billing, next: Billing]

TypeOK ==
  /\ trx \in [Trx -> Transaction]
  /\ je \in [Trx -> {"NONE", "LIVE", "REVERSED"}]
  /\ bill \in [Trx -> Billing]
  /\ alloc \in [Trx -> Trx \cup {NoTrx}]
  /\ release \in [Trx -> Trx \cup {NoTrx}]
  /\ settled \subseteq Trx
  /\ period \in {"OPEN", "SOFT_CLOSED", "CLOSED"}
  /\ req \in [Session -> Request]

-----------------------------------------------------------------------------
(* Rows                                                                    *)

NoFlags == [f \in Flag |-> "none"]

NewTransaction(k, a, r, status, flags, original) ==
  [kind |-> k, amount |-> a, retention |-> r, status |-> status, flags |-> flags,
   of |-> original]

NoTransaction == NewTransaction("NONE", 0, 0, "NONE", NoFlags, NoTrx)
NoBill == [status |-> "NONE", released |-> 0]
IssuedBill == [status |-> "UNPAID", released |-> 0]

Exists(t) == trx[t].kind # "NONE"
Unused == {t \in Trx : ~Exists(t)}
OpenFlags(t) == {f \in Flag : trx[t].flags[f] = "open"}

PaymentsOf(i) == {p \in Trx : alloc[p] = i}
Amounts == [t \in Trx |-> trx[t].amount]
Paid(ps) == SumFunctionOnSet(Amounts, ps)
PaidOn(i) == Paid(PaymentsOf(i))

\* What may be paid so far; a vendor bill withholds no retention.
Collectible(i) == trx[i].amount - trx[i].retention + bill[i].released

\* The payment that suits an invoice or a bill.
PaymentFor(k) == IF k = "CUSTOMER_INVOICE" THEN "CUSTOMER_PAYMENT" ELSE "PAY_VENDOR_BILL"

PeriodAllows(role) ==
  \/ period = "OPEN"
  \/ period = "SOFT_CLOSED" /\ role = "MANAGER"

-----------------------------------------------------------------------------
(* Requests                                                                *)

Idle == [op |-> "idle", trx |-> NoTrx, amount |-> 0, flag |-> NoFlag, status |-> "NONE",
         last |-> FALSE, touched |-> NoTrx, seen |-> NoBill, next |-> NoBill]

Start(s, r) == req[s].op = "idle" /\ req' = [req EXCEPT ![s] = r]

\* The transaction of s ends.
Done(s) == req' = [req EXCEPT ![s] = Idle]

\* POST /transactions: nothing it reads can change.  A suspected duplicate of an earlier
\* transaction is flagged and waits for review.
CreateTransaction ==
  /\ \E t \in Unused, k \in Kinds, a \in Amount :
       \E r \in IF k = "CUSTOMER_INVOICE" THEN 0..a ELSE {0} :
         \/ trx' = [trx EXCEPT ![t] = NewTransaction(k, a, r, "STAGED", NoFlags, NoTrx)]
         \/ /\ Unused # Trx
            /\ \E f \in Flag :
                 trx' = [trx EXCEPT ![t] = NewTransaction(k, a, r, "REVIEW_REQUIRED",
                                             [NoFlags EXCEPT ![f] = "open"], NoTrx)]
  /\ UNCHANGED <<je, bill, alloc, release, settled, period, req>>

\* authorize_and_post up to the engine.  It refuses open flags and REVIEW_REQUIRED, no
\* other status: it sets APPROVED before the engine asks, and the engine's query returns
\* the same object.  The engine's own look at the period is in Abort.
MayPost(t, role) ==
  /\ Exists(t)
  /\ OpenFlags(t) = {}
  /\ trx[t].status # "REVIEW_REQUIRED"
  /\ PeriodAllows(role)
  /\ trx[t].kind \in SensitiveKinds => role = "MANAGER"

BeginPost(s) ==
  /\ \E t \in Trx, role \in Role :
       MayPost(t, role) /\ Start(s, [Idle EXCEPT !.op = "post", !.trx = t])
  /\ UNCHANGED <<books, period>>

\* Mutation: the status is asked again, in place of the constraint.
EntryFreeByStatus(t) == trx[t].status # "POSTED"

\* uq_je_transaction_id: a transaction has one entry, whatever its status was.
EntryFree(t) == je[t] = "NONE"

CommitPost(s) ==
  /\ req[s].op = "post"
  /\ LET t == req[s].trx IN
       /\ EntryFree(t)
       /\ je' = [je EXCEPT ![t] = "LIVE"]
       /\ trx' = [trx EXCEPT ![t].status = "POSTED"]
       /\ bill' = IF trx[t].kind \in InvoiceKinds
                  THEN [bill EXCEPT ![t] = IssuedBill] ELSE bill
       /\ settled' = IF trx[t].kind = "INTERBANK_TRANSFER" THEN settled \cup {t} ELSE settled
  /\ Done(s)
  /\ UNCHANGED <<alloc, release, period>>

\* A payment is recorded against one invoice or bill, for its full amount.  The route
\* looks at the invoice first, without a lock.
BeginPay(s) ==
  /\ \E i \in Trx, a \in Amount, role \in Role :
       /\ bill[i].status \notin {"NONE", "CANCELLED"}
       /\ PaidOn(i) + a <= Collectible(i)
       /\ PeriodAllows(role)
       /\ Start(s, [Idle EXCEPT !.op = "pay", !.trx = i, !.amount = a])
  /\ UNCHANGED <<books, period>>

\* Mutation: only the route's unlocked look at the balance is left.
AllocableUnlocked(i, a) == bill[i].status # "CANCELLED"

\* allocate_customer_payment and allocate_vendor_payment, under the lock.
Allocable(i, a) ==
  /\ bill[i].status # "CANCELLED"
  /\ PaidOn(i) + a <= Collectible(i)

StatusWhenPaid(paid, total) ==
  IF paid = 0 THEN "UNPAID" ELSE IF paid < total THEN "PARTIALLY_PAID" ELSE "PAID"

\* The payment, its entry and its allocation are one transaction.  The routes write a settlement
\* with them, when the payment names an account; a payment posted from a document has none.
CommitPay(s) ==
  /\ req[s].op = "pay"
  /\ LET i == req[s].trx
         a == req[s].amount
     IN /\ Allocable(i, a)
        /\ \E p \in Unused :
             /\ trx' = [trx EXCEPT ![p] = NewTransaction(PaymentFor(trx[i].kind), a, 0,
                                              "POSTED", NoFlags, NoTrx)]
             /\ je' = [je EXCEPT ![p] = "LIVE"]
             /\ alloc' = [alloc EXCEPT ![p] = i]
             /\ settled' \in {settled, settled \cup {p}}
        /\ bill' = [bill EXCEPT ![i].status = StatusWhenPaid(PaidOn(i) + a, trx[i].amount)]
  /\ Done(s)
  /\ UNCHANGED <<release, period>>

BeginRelease(s) ==
  /\ \E i \in Trx, a \in Amount, role \in Role :
       /\ trx[i].kind = "CUSTOMER_INVOICE"
       /\ bill[i].status # "NONE"
       /\ PeriodAllows(role)
       /\ Start(s, [Idle EXCEPT !.op = "release", !.trx = i, !.amount = a])
  /\ UNCHANGED <<books, period>>

\* Mutation: a release is compared with the whole retention.
ReleasableAgain(i, a) == bill[i].status # "CANCELLED" /\ a <= trx[i].retention

Releasable(i, a) ==
  bill[i].status # "CANCELLED" /\ bill[i].released + a <= trx[i].retention

\* The invoice is locked; the RETENTION_RELEASE transaction is posted with it.
CommitRelease(s) ==
  /\ req[s].op = "release"
  /\ LET i == req[s].trx
         a == req[s].amount
     IN /\ Releasable(i, a)
        /\ \E t \in Unused :
             /\ trx' = [trx EXCEPT ![t] = NewTransaction("RETENTION_RELEASE", a, 0, "POSTED",
                                              NoFlags, NoTrx)]
             /\ je' = [je EXCEPT ![t] = "LIVE"]
             /\ release' = [release EXCEPT ![t] = i]
        /\ bill' = [bill EXCEPT ![i].released = @ + a]
  /\ Done(s)
  /\ UNCHANGED <<alloc, settled, period>>

Reversible(t) ==
  /\ trx[t].status = "POSTED"
  /\ je[t] = "LIVE"
  /\ trx[t].kind \in InvoiceKinds => PaymentsOf(t) = {}

\* The invoice or bill a reversal will write: the one the transaction issued, paid or
\* released retention of.
Touched(t) ==
  IF trx[t].kind \in InvoiceKinds THEN t
  ELSE IF alloc[t] # NoTrx THEN alloc[t] ELSE release[t]

Row(i) == IF i = NoTrx THEN NoBill ELSE bill[i]

Less(a, b) == IF a > b THEN a - b ELSE 0

\* Mutation: a payment's reversal cancels the invoice, as an invoice's own does.
RestoredByCancelling(t, i) ==
  IF trx[t].kind = "RETENTION_RELEASE" /\ i # NoTrx
  THEN [Row(i) EXCEPT !.released = Less(@, trx[t].amount)]
  ELSE [Row(i) EXCEPT !.status = "CANCELLED"]

\* What reversing t makes of row i: an invoice or bill is cancelled, one that loses a
\* payment gets the status of the payments left, one that loses a release of retention
\* is collectible by that much less.
Restored(t, i) ==
  IF trx[t].kind \in InvoiceKinds THEN [Row(i) EXCEPT !.status = "CANCELLED"]
  ELSE IF i = NoTrx THEN NoBill
  ELSE IF i = alloc[t]
  THEN [Row(i) EXCEPT !.status = StatusWhenPaid(Paid(PaymentsOf(i) \ {t}), trx[i].amount)]
  ELSE [Row(i) EXCEPT !.released = Less(@, trx[t].amount)]

\* reverse_transaction up to its first write.  Nothing it reads is locked.
BeginReverse(s) ==
  /\ PeriodAllows("MANAGER")
  /\ \E t \in Trx :
       /\ Reversible(t)
       /\ LET i == Touched(t)
          IN Start(s, [Idle EXCEPT !.op = "reverse", !.trx = t, !.touched = i,
                         !.seen = Row(i), !.next = Restored(t, i)])
  /\ UNCHANGED <<books, period>>

\* Only the columns that differ from what was loaded are written.
Written(row, old, new) ==
  [status |-> IF new.status = old.status THEN row.status ELSE new.status,
   released |-> IF new.released = old.released THEN row.released ELSE new.released]

\* Mutation: a reversed payment keeps its allocation.
FreedButForAllocations(t) ==
  /\ UNCHANGED alloc
  /\ release' = [release EXCEPT ![t] = NoTrx]
  /\ settled' = settled \ {t}

\* The reversed transaction's allocation, retention release and settlement are deleted.
Freed(t) ==
  /\ alloc' = [alloc EXCEPT ![t] = NoTrx]
  /\ release' = [release EXCEPT ![t] = NoTrx]
  /\ settled' = settled \ {t}

\* A REVERSAL transaction with the inverted entry, and the original REVERSED.
CommitReverse(s) ==
  /\ req[s].op = "reverse"
  /\ LET q == req[s] IN
       /\ \E r \in Unused :
            /\ trx' = [trx EXCEPT ![r] = NewTransaction("REVERSAL", trx[q.trx].amount, 0,
                                             "POSTED", NoFlags, q.trx),
                                  ![q.trx].status = "REVERSED"]
            /\ je' = [je EXCEPT ![r] = "LIVE", ![q.trx] = "REVERSED"]
       /\ Freed(q.trx)
       /\ bill' = IF q.touched = NoTrx THEN bill
                  ELSE [bill EXCEPT ![q.touched] = Written(@, q.seen, q.next)]
  /\ Done(s)
  /\ UNCHANGED period

\* POST /transactions/{id}/review-flags: any transaction, whatever its status.
BeginFlag(s) ==
  /\ \E t \in Trx, f \in Flag :
       /\ Exists(t)
       /\ Start(s, [Idle EXCEPT !.op = "flag", !.trx = t, !.flag = f, !.status = trx[t].status])
  /\ UNCHANGED <<books, period>>

Restatus(t, saw, new) == IF saw = new THEN trx[t].status ELSE new

CommitFlag(s) ==
  /\ req[s].op = "flag"
  /\ LET q == req[s] IN
       /\ trx[q.trx].flags[q.flag] = "none"
       /\ trx' = [trx EXCEPT ![q.trx].flags[q.flag] = "open",
                    ![q.trx].status = Restatus(q.trx, q.status, "REVIEW_REQUIRED")]
  /\ Done(s)
  /\ UNCHANGED <<je, bill, alloc, release, settled, period>>

\* Mutation: the remedy for a posted transaction that is flagged, but not for one reversed.
ResolvedByEntry(t) == IF je[t] = "NONE" THEN "STAGED" ELSE "POSTED"

Resolved(t) == "STAGED"

\* Managers only.  The last open flag takes the transaction back to STAGED.
BeginResolve(s) ==
  /\ \E t \in Trx, f \in Flag :
       /\ f \in OpenFlags(t)
       /\ Start(s, [Idle EXCEPT !.op = "resolve", !.trx = t, !.flag = f,
                      !.status = trx[t].status, !.last = OpenFlags(t) = {f}])
  /\ UNCHANGED <<books, period>>

CommitResolve(s) ==
  /\ req[s].op = "resolve"
  /\ LET q == req[s] IN
       trx' = [trx EXCEPT ![q.trx].flags[q.flag] = "resolved",
                 ![q.trx].status = IF q.last THEN Restatus(q.trx, q.status, Resolved(q.trx))
                                     ELSE @]
  /\ Done(s)
  /\ UNCHANGED <<je, bill, alloc, release, settled, period>>

\* update_period_status moves between any two statuses.
UpdatePeriod ==
  /\ \E p \in {"OPEN", "SOFT_CLOSED", "CLOSED"} \ {period} : period' = p
  /\ UNCHANGED <<books, req>>

Abort(s) ==
  /\ req[s].op # "idle"
  /\ Done(s)
  /\ UNCHANGED <<books, period>>

-----------------------------------------------------------------------------
Init ==
  /\ trx = [t \in Trx |-> NoTransaction]
  /\ je = [t \in Trx |-> "NONE"]
  /\ bill = [t \in Trx |-> NoBill]
  /\ alloc = [t \in Trx |-> NoTrx]
  /\ release = [t \in Trx |-> NoTrx]
  /\ settled = {}
  /\ period = "OPEN"
  /\ req = [s \in Session |-> Idle]

Begin(s) ==
  \/ BeginPost(s) \/ BeginPay(s) \/ BeginRelease(s)
  \/ BeginReverse(s) \/ BeginFlag(s) \/ BeginResolve(s)

Commit(s) ==
  \/ CommitPost(s) \/ CommitPay(s) \/ CommitRelease(s)
  \/ CommitReverse(s) \/ CommitFlag(s) \/ CommitResolve(s)

Next ==
  \/ CreateTransaction
  \/ UpdatePeriod
  \/ \E s \in Session : Begin(s) \/ Commit(s) \/ Abort(s)

LedgerSpec == Init /\ [][Next]_ledgerVars

-----------------------------------------------------------------------------
(* Properties                                                              *)

\* What is POSTED has an entry that stands and what is REVERSED one that does not, although
\* postings, reversals and flags decide on a status they read before another's commit.
StatusMatchesEntry ==
  \A t \in Trx : /\ trx[t].status = "POSTED" => je[t] = "LIVE"
                 /\ trx[t].status = "REVERSED" => je[t] = "REVERSED"

\* FIN-001: payments never exceed the invoice or the bill, whichever sessions record them at
\* a time and whatever is reversed meanwhile.
NoOverAllocation == \A i \in Trx : PaidOn(i) <= trx[i].amount

\* Money is moved by entries that stand.  A payment is allocated only as long as its entry
\* stands; an interbank transfer has a settlement exactly as long; and no settlement is left
\* of anything else, although a reversal deletes what it read without a lock.  That every
\* allocated payment has a settlement is not true of those posted from documents.
SettlementsMatchJournal ==
  /\ \A p \in Trx : alloc[p] # NoTrx => je[p] = "LIVE"
  /\ \A t \in Trx : trx[t].kind = "INTERBANK_TRANSFER" => (t \in settled <=> je[t] = "LIVE")
  /\ \A p \in settled : alloc[p] # NoTrx \/ trx[p].kind = "INTERBANK_TRANSFER"

\* An entry is marked reversed exactly when a posted REVERSAL transaction with an entry of
\* its own refers to it.
ReversedEntriesHaveReversals ==
  \A t \in Trx :
    je[t] = "REVERSED" <=> \E r \in Trx : trx[r].of = t /\ je[r] # "NONE"

\* Journal entries are append-only: none is deleted, and a reversed one is not reinstated.
JournalIsAppendOnly ==
  [][\A t \in Trx : /\ je[t] # "NONE" => je'[t] # "NONE"
                    /\ je[t] = "REVERSED" => je'[t] = "REVERSED"]_ledgerVars

\* Every invoice or bill comes from a posted transaction and every posted invoice is in
\* the subledger; it is cancelled only when that transaction's entry is reversed.
SubledgerMatchesJournal ==
  \A i \in Trx :
    /\ bill[i].status # "NONE" <=> trx[i].kind \in InvoiceKinds /\ je[i] # "NONE"
    /\ bill[i].status = "CANCELLED" => je[i] = "REVERSED"

\* The specification's state machine (002, 7.1): POSTED leads to REVERSED only, REVERSED
\* is terminal.  The code lets a review flag be raised on any transaction.
PostedLeavesOnlyByReversal ==
  [][\A t \in Trx : /\ trx[t].status = "POSTED" => trx'[t].status \in {"POSTED", "REVERSED"}
                    /\ trx[t].status = "REVERSED" => trx'[t].status = "REVERSED"]_ledgerVars

\* A reversal cancels its original out, and an entry already reversed is refused: no
\* transaction has two reversals.  The code asks before it locks anything.
ReversedOnce ==
  \A r1, r2 \in Trx : trx[r1].of # NoTrx /\ trx[r1].of = trx[r2].of => r1 = r2

=============================================================================
