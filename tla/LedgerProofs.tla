---------------------------- MODULE LedgerProofs ----------------------------
(***************************************************************************)
(* Proofs about Ledger, for any number of transactions, flags, sessions    *)
(* and any amounts: the journal is append-only, the statuses, the          *)
(* reversals, the settlements and the subledger agree with it.             *)
(*                                                                         *)
(* None of these is inductive alone.  A commit acts on what its request    *)
(* saw, so the invariant carries what stays true of a request in flight:   *)
(* its rows are still there (rows are never deleted), and only the         *)
(* reversal of an invoice may cancel it.                                   *)
(*                                                                         *)
(* The bound on payments needs two things more: what is collectible never  *)
(* exceeds the invoice, that is, its released column its retention, which  *)
(* a reversal in flight must not write back either; and what is paid, a    *)
(* sum over the payments allocated, grows by the payment a commit records  *)
(* and otherwise only loses payments.                                      *)
(***************************************************************************)
EXTENDS Ledger, Sums

\* An identity not yet used is in no table.
Blank ==
  \A t \in Trx : ~Exists(t) =>
    /\ trx[t].of = NoTrx
    /\ OpenFlags(t) = {}
    /\ je[t] = "NONE"
    /\ alloc[t] = NoTrx
    /\ release[t] = NoTrx

\* Foreign keys refer to rows, and a REVERSAL comes with its entry.
References ==
  \A t \in Trx :
    /\ alloc[t] # NoTrx => bill[alloc[t]].status # "NONE"
    /\ release[t] # NoTrx => bill[release[t]].status # "NONE"
    /\ trx[t].of # NoTrx => je[t] # "NONE" /\ Exists(trx[t].of)

Flight(q) ==
  /\ q.op # "idle" => q.trx \in Trx /\ Exists(q.trx)
  /\ q.op \in {"flag", "resolve"} => q.flag \in Flag
  /\ q.op \in {"pay", "release"} => bill[q.trx].status # "NONE"
  /\ q.op = "reverse" => je[q.trx] # "NONE"
  /\ q.op = "reverse" /\ q.touched # NoTrx =>
       /\ bill[q.touched].status # "NONE"
       /\ q.next.status # "NONE"
       /\ q.next.status = "CANCELLED" => q.touched = q.trx \/ q.seen.status = "CANCELLED"

InFlight == \A s \in Session : Flight(req[s])

LedgerInv ==
  /\ TypeOK
  /\ Blank
  /\ References
  /\ InFlight
  /\ StatusMatchesEntry
  /\ SettlementsMatchJournal
  /\ ReversedEntriesHaveReversals
  /\ SubledgerMatchesJournal

-----------------------------------------------------------------------------
(* Lemmas about what every step has in common.                             *)

\* Idle is a request, about nothing.
LEMMA IdleRequest ==
  /\ Idle \in Request
  /\ Idle.op = "idle"
BY LedgerAssumption DEF Idle, Request, Billing, NoBill, BillStatus, WorkflowStatus

\* Rows are never deleted.
NothingDeleted ==
  \A t \in Trx : /\ Exists(t) => Exists(t)'
                 /\ je[t] # "NONE" => je'[t] # "NONE"
                 /\ bill[t].status # "NONE" => bill'[t].status # "NONE"

\* So what a request in flight relies on stays.
LEMMA FlightKept ==
  ASSUME TypeOK, InFlight, NothingDeleted,
         \A s \in Session : req'[s] = req[s] \/ req'[s] = Idle
  PROVE InFlight'
<1> USE DEF NothingDeleted
<1> SUFFICES ASSUME NEW s \in Session PROVE Flight(req[s])'
  BY DEF InFlight
<1>1. CASE req'[s] = Idle
  BY <1>1, IdleRequest DEF Flight
<1>2. CASE req'[s] = req[s]
  <2>1. req[s] \in Request /\ Flight(req[s])
    BY DEF TypeOK, InFlight
  <2>2. req[s].touched # NoTrx => req[s].touched \in Trx
    BY <2>1 DEF Request
  <2> QED BY <1>2, <2>1, <2>2 DEF Flight
<1> QED BY <1>1, <1>2

\* And so do foreign keys, those that are new or cleared included.
LEMMA ReferencesKept ==
  ASSUME TypeOK, References, NothingDeleted,
         \A t \in Trx :
           /\ alloc'[t] \in {alloc[t], NoTrx} \/ bill'[alloc'[t]].status # "NONE"
           /\ release'[t] \in {release[t], NoTrx} \/ bill'[release'[t]].status # "NONE"
           /\ trx'[t].of = trx[t].of \/ (je'[t] # "NONE" /\ Exists(trx[t].of)')
  PROVE References'
<1> SUFFICES ASSUME NEW x \in Trx
    PROVE /\ alloc'[x] # NoTrx => bill'[alloc'[x]].status # "NONE"
          /\ release'[x] # NoTrx => bill'[release'[x]].status # "NONE"
          /\ trx'[x].of # NoTrx => je'[x] # "NONE" /\ Exists(trx[x].of)'
  BY DEF References
<1>1. /\ alloc[x] \in Trx \cup {NoTrx} /\ release[x] \in Trx \cup {NoTrx}
      /\ trx[x].of \in Trx \cup {NoTrx}
  BY DEF TypeOK, Transaction
<1>2. alloc'[x] # NoTrx => bill'[alloc'[x]].status # "NONE"
  BY <1>1 DEF References, NothingDeleted
<1>3. release'[x] # NoTrx => bill'[release'[x]].status # "NONE"
  BY <1>1 DEF References, NothingDeleted
<1>4. trx'[x].of # NoTrx => je'[x] # "NONE" /\ Exists(trx[x].of)'
  BY <1>1 DEF References, NothingDeleted, Exists
<1> QED BY <1>2, <1>3, <1>4

\* A step that leaves the books alone keeps the invariant if its request is sound.
LEMMA RequestStep ==
  ASSUME LedgerInv, UNCHANGED books, period' \in {"OPEN", "SOFT_CLOSED", "CLOSED"},
         req' \in [Session -> Request], \A s \in Session : Flight(req'[s])
  PROVE LedgerInv'
<1> USE DEF LedgerInv, books
<1>1. TypeOK' BY DEF TypeOK
<1>2. Blank' BY DEF Blank, Exists, OpenFlags
<1>3. References' BY DEF References, Exists
<1>4. InFlight' BY DEF InFlight, Flight, Exists
<1>5. StatusMatchesEntry' BY DEF StatusMatchesEntry
<1>6. SettlementsMatchJournal' BY DEF SettlementsMatchJournal
<1>7. ReversedEntriesHaveReversals' BY DEF ReversedEntriesHaveReversals
<1>8. SubledgerMatchesJournal' BY DEF SubledgerMatchesJournal
<1> QED BY <1>1, <1>2, <1>3, <1>4, <1>5, <1>6, <1>7, <1>8

\* Starting request r at session s.
LEMMA StartStep ==
  ASSUME LedgerInv, UNCHANGED <<books, period>>, NEW s \in Session, NEW r \in Request,
         Flight(r), Start(s, r)
  PROVE LedgerInv'
<1>1. req' \in [Session -> Request] /\ \A x \in Session : Flight(req'[x])
  BY DEF LedgerInv, TypeOK, InFlight, Start
<1>2. period' \in {"OPEN", "SOFT_CLOSED", "CLOSED"}
  BY DEF LedgerInv, TypeOK
<1> QED BY <1>1, <1>2, RequestStep

-----------------------------------------------------------------------------
(* The steps that only read.                                               *)

LEMMA BeginPostInv ==
  ASSUME LedgerInv, NEW s \in Session, BeginPost(s) PROVE LedgerInv'
<1>1. PICK t \in Trx : Exists(t) /\ Start(s, [Idle EXCEPT !.op = "post", !.trx = t])
  BY DEF BeginPost, MayPost
<1> DEFINE r == [Idle EXCEPT !.op = "post", !.trx = t]
<1>2. r \in Request /\ Flight(r)
  BY <1>1, IdleRequest DEF Idle, Request, Flight
<1> QED BY <1>1, <1>2, StartStep DEF BeginPost

LEMMA BeginPayInv ==
  ASSUME LedgerInv, NEW s \in Session, BeginPay(s) PROVE LedgerInv'
<1>1. PICK i \in Trx : \E a \in Amount : bill[i].status # "NONE"
                  /\ Start(s, [Idle EXCEPT !.op = "pay", !.trx = i, !.amount = a])
  BY DEF BeginPay
<1>2. PICK a \in Amount : bill[i].status # "NONE"
                  /\ Start(s, [Idle EXCEPT !.op = "pay", !.trx = i, !.amount = a])
  BY <1>1
<1> DEFINE r == [Idle EXCEPT !.op = "pay", !.trx = i, !.amount = a]
<1>3. Exists(i)
  BY <1>2 DEF LedgerInv, SubledgerMatchesJournal, Exists, InvoiceKinds
<1>4. a \in 0..MaxAmount
  BY LedgerAssumption DEF Amount
<1>5. r \in Request
  BY <1>4, IdleRequest DEF Idle, Request
<1>6. Flight(r)
  BY <1>2, <1>3 DEF Idle, Flight
<1> QED BY <1>2, <1>5, <1>6, StartStep DEF BeginPay

LEMMA BeginReleaseInv ==
  ASSUME LedgerInv, NEW s \in Session, BeginRelease(s) PROVE LedgerInv'
<1>1. PICK i \in Trx : \E a \in Amount : bill[i].status # "NONE"
                  /\ Start(s, [Idle EXCEPT !.op = "release", !.trx = i, !.amount = a])
  BY DEF BeginRelease
<1>2. PICK a \in Amount : bill[i].status # "NONE"
                  /\ Start(s, [Idle EXCEPT !.op = "release", !.trx = i, !.amount = a])
  BY <1>1
<1> DEFINE r == [Idle EXCEPT !.op = "release", !.trx = i, !.amount = a]
<1>3. Exists(i)
  BY <1>2 DEF LedgerInv, SubledgerMatchesJournal, Exists, InvoiceKinds
<1>4. a \in 0..MaxAmount
  BY LedgerAssumption DEF Amount
<1>5. r \in Request
  BY <1>4, IdleRequest DEF Idle, Request
<1>6. Flight(r)
  BY <1>2, <1>3 DEF Idle, Flight
<1> QED BY <1>2, <1>5, <1>6, StartStep DEF BeginRelease

LEMMA BeginFlagInv ==
  ASSUME LedgerInv, NEW s \in Session, BeginFlag(s) PROVE LedgerInv'
<1>1. PICK t \in Trx : \E f \in Flag : Exists(t) /\
        Start(s, [Idle EXCEPT !.op = "flag", !.trx = t, !.flag = f, !.status = trx[t].status])
  BY DEF BeginFlag
<1>2. PICK f \in Flag : Exists(t) /\
        Start(s, [Idle EXCEPT !.op = "flag", !.trx = t, !.flag = f, !.status = trx[t].status])
  BY <1>1
<1> DEFINE r == [Idle EXCEPT !.op = "flag", !.trx = t, !.flag = f, !.status = trx[t].status]
<1>3. trx[t].status \in WorkflowStatus
  BY DEF LedgerInv, TypeOK, Transaction
<1>4. r \in Request /\ Flight(r)
  BY <1>2, <1>3, IdleRequest DEF Idle, Request, Flight
<1> QED BY <1>2, <1>4, StartStep DEF BeginFlag

LEMMA BeginResolveInv ==
  ASSUME LedgerInv, NEW s \in Session, BeginResolve(s) PROVE LedgerInv'
<1> DEFINE R(t, f) == [Idle EXCEPT !.op = "resolve", !.trx = t, !.flag = f,
                         !.status = trx[t].status, !.last = OpenFlags(t) = {f}]
<1>1. PICK t \in Trx : \E f \in Flag : f \in OpenFlags(t) /\ Start(s, R(t, f))
  BY DEF BeginResolve
<1>2. PICK f \in Flag : f \in OpenFlags(t) /\ Start(s, R(t, f))
  BY <1>1
<1>3. trx[t].status \in WorkflowStatus /\ Exists(t)
  BY <1>2 DEF LedgerInv, TypeOK, Transaction, Blank
<1>4. R(t, f) \in Request /\ Flight(R(t, f))
  BY <1>2, <1>3, IdleRequest DEF Idle, Request, Flight
<1> QED BY <1>2, <1>4, StartStep DEF BeginResolve

\* The row that a reversal writes exists, and only an invoice's own reversal cancels it.
LEMMA RestoredRow ==
  ASSUME LedgerInv, NEW t \in Trx, je[t] = "LIVE"
  PROVE LET i == Touched(t)
        IN /\ i \in Trx \cup {NoTrx}
           /\ Row(i) \in Billing
           /\ Restored(t, i) \in Billing
           /\ i # NoTrx =>
                /\ bill[i].status # "NONE"
                /\ Restored(t, i).status # "NONE"
                /\ Restored(t, i).status = "CANCELLED" => i = t \/ Row(i).status = "CANCELLED"
<1> DEFINE i == Touched(t)
<1> USE DEF LedgerInv
<1>1. alloc[t] \in Trx \cup {NoTrx} /\ release[t] \in Trx \cup {NoTrx}
  BY DEF TypeOK
<1>2. i \in Trx \cup {NoTrx}
  BY <1>1 DEF Touched
<1>3. i # NoTrx => bill[i].status # "NONE"
  BY DEF Touched, References, SubledgerMatchesJournal
<1>4. Row(i) \in Billing
  BY <1>2, LedgerAssumption DEF Row, NoBill, Billing, BillStatus, TypeOK
<1>5. trx[t].amount \in Nat /\ Row(i).released \in 0..MaxAmount
  BY <1>4, LedgerAssumption DEF TypeOK, Transaction, Billing
<1>6. Less(Row(i).released, trx[t].amount) \in 0..MaxAmount
  BY <1>5, LedgerAssumption DEF Less
<1>7. CASE trx[t].kind \in InvoiceKinds
  <2>1. i = t BY <1>7 DEF Touched
  <2>2. Restored(t, i) = [Row(i) EXCEPT !.status = "CANCELLED"] BY <1>7 DEF Restored
  <2>3. Restored(t, i) \in Billing /\ Restored(t, i).status = "CANCELLED"
    BY <1>4, <2>2 DEF Billing, BillStatus
  <2> QED BY <1>2, <1>3, <1>4, <2>1, <2>3
<1>8. CASE trx[t].kind \notin InvoiceKinds /\ i = NoTrx
  <2>1. Restored(t, i) = NoBill BY <1>8 DEF Restored
  <2> QED BY <1>2, <1>4, <1>8, <2>1 DEF Row
<1>9. CASE trx[t].kind \notin InvoiceKinds /\ i # NoTrx /\ i = alloc[t]
  <2> DEFINE paid == Paid(PaymentsOf(i) \ {t})
  <2>1. Restored(t, i) = [Row(i) EXCEPT !.status = StatusWhenPaid(paid, trx[i].amount)]
    BY <1>9 DEF Restored
  <2> HIDE DEF paid
  <2>2. StatusWhenPaid(paid, trx[i].amount) \in {"UNPAID", "PARTIALLY_PAID", "PAID"}
    BY DEF StatusWhenPaid
  <2>3. /\ Restored(t, i) \in Billing
        /\ Restored(t, i).status \in {"UNPAID", "PARTIALLY_PAID", "PAID"}
    BY <1>4, <2>1, <2>2 DEF Billing, BillStatus
  <2> QED BY <1>2, <1>3, <1>4, <2>3
<1>10. CASE trx[t].kind \notin InvoiceKinds /\ i # NoTrx /\ i # alloc[t]
  <2>1. Restored(t, i) = [Row(i) EXCEPT !.released = Less(Row(i).released, trx[t].amount)]
    BY <1>10 DEF Restored
  <2>2. Restored(t, i) \in Billing /\ Restored(t, i).status = Row(i).status
    BY <1>4, <1>6, <2>1 DEF Billing
  <2>3. Row(i) = bill[i]
    BY <1>10 DEF Row
  <2> QED BY <1>2, <1>3, <1>4, <2>2, <2>3
<1> QED BY <1>7, <1>8, <1>9, <1>10

LEMMA BeginReverseInv ==
  ASSUME LedgerInv, NEW s \in Session, BeginReverse(s) PROVE LedgerInv'
<1> DEFINE R(t) == [Idle EXCEPT !.op = "reverse", !.trx = t, !.touched = Touched(t),
                      !.seen = Row(Touched(t)), !.next = Restored(t, Touched(t))]
<1>1. PICK t \in Trx : Reversible(t) /\ Start(s, R(t))
  BY DEF BeginReverse
<1>2. Exists(t)
  BY <1>1 DEF Reversible, LedgerInv, Blank
<1> DEFINE i == Touched(t)
<1>3. /\ i \in Trx \cup {NoTrx}
      /\ Row(i) \in Billing
      /\ Restored(t, i) \in Billing
      /\ i # NoTrx =>
           /\ bill[i].status # "NONE"
           /\ Restored(t, i).status # "NONE"
           /\ Restored(t, i).status = "CANCELLED" => i = t \/ Row(i).status = "CANCELLED"
  BY <1>1, RestoredRow DEF Reversible
<1> HIDE DEF i
<1>4. R(t) = [Idle EXCEPT !.op = "reverse", !.trx = t, !.touched = i,
                !.seen = Row(i), !.next = Restored(t, i)]
  BY DEF i
<1> HIDE DEF R
<1>5. R(t) \in Request
  BY <1>3, <1>4, IdleRequest DEF Request, Idle
<1>6. Flight(R(t))
  BY <1>1, <1>2, <1>3, <1>4 DEF Flight, Idle, Reversible
<1> QED BY <1>1, <1>5, <1>6, StartStep DEF BeginReverse

-----------------------------------------------------------------------------
(* The steps that write.                                                   *)

\* The transaction of a session ends.
LEMMA DoneRequests ==
  ASSUME TypeOK, NEW s \in Session, Done(s)
  PROVE /\ req' \in [Session -> Request]
        /\ \A x \in Session : req'[x] = req[x] \/ req'[x] = Idle
BY IdleRequest DEF TypeOK, Done

\* A transaction as the code creates it.
LEMMA NewTransactionType ==
  ASSUME NEW k \in AllKinds, NEW a \in 0..MaxAmount, NEW r \in 0..MaxAmount,
         NEW st \in WorkflowStatus, NEW fl \in [Flag -> FlagState], NEW o \in Trx \cup {NoTrx}
  PROVE NewTransaction(k, a, r, st, fl, o) \in Transaction
BY DEF NewTransaction, Transaction

LEMMA AbortInv ==
  ASSUME LedgerInv, NEW s \in Session, Abort(s) PROVE LedgerInv'
<1>1. req' \in [Session -> Request] /\ \A x \in Session : req'[x] = req[x] \/ req'[x] = Idle
  BY DoneRequests DEF LedgerInv, Abort
<1>2. \A x \in Session : Flight(req'[x])
  BY <1>1, IdleRequest DEF LedgerInv, InFlight, Flight
<1>3. UNCHANGED books /\ period' \in {"OPEN", "SOFT_CLOSED", "CLOSED"}
  BY DEF Abort, LedgerInv, TypeOK
<1> QED BY <1>1, <1>2, <1>3, RequestStep

LEMMA UpdatePeriodInv ==
  ASSUME LedgerInv, UpdatePeriod PROVE LedgerInv'
<1>1. req' \in [Session -> Request] /\ \A x \in Session : Flight(req'[x])
  BY DEF UpdatePeriod, LedgerInv, TypeOK, InFlight
<1>2. UNCHANGED books /\ period' \in {"OPEN", "SOFT_CLOSED", "CLOSED"}
  BY DEF UpdatePeriod
<1> QED BY <1>1, <1>2, RequestStep

\* Row t of transactions changes, or comes to be, and no other table does.
LEMMA RowStep ==
  ASSUME LedgerInv, UNCHANGED <<je, bill, alloc, release, settled, period>>,
         NEW t \in Trx, NEW n \in Transaction, trx' = [trx EXCEPT ![t] = n],
         n.kind # "NONE", n.of = trx[t].of,
         Exists(t) => n.kind = trx[t].kind,
         n.status \in {trx[t].status, "STAGED", "REVIEW_REQUIRED"},
         req' \in [Session -> Request],
         \A x \in Session : req'[x] = req[x] \/ req'[x] = Idle
  PROVE LedgerInv'
<1> USE DEF LedgerInv
<1>1. TypeOK' BY DEF TypeOK
<1>2. trx'[t] = n /\ \A x \in Trx : x # t => trx'[x] = trx[x]
  BY DEF TypeOK
<1>3. \A x \in Trx : Exists(x) => Exists(x)' /\ trx'[x].kind = trx[x].kind
  BY <1>2 DEF Exists
<1>4. \A x \in Trx : trx'[x].of = trx[x].of
  BY <1>2
<1>5. Blank' BY <1>2, <1>3 DEF Blank, OpenFlags, Exists
<1>6. References' BY <1>3, <1>4, ReferencesKept DEF NothingDeleted
<1>7. InFlight' BY <1>3, FlightKept DEF NothingDeleted
<1>8. StatusMatchesEntry' BY <1>2 DEF StatusMatchesEntry
<1>9. SettlementsMatchJournal' BY <1>3 DEF SettlementsMatchJournal, Blank, TypeOK
<1>10. ReversedEntriesHaveReversals' BY <1>4 DEF ReversedEntriesHaveReversals
<1>11. SubledgerMatchesJournal' BY <1>3 DEF SubledgerMatchesJournal, Blank
<1> QED BY <1>1, <1>5, <1>6, <1>7, <1>8, <1>9, <1>10, <1>11

LEMMA CreateTransactionInv ==
  ASSUME LedgerInv, CreateTransaction PROVE LedgerInv'
<1> DEFINE N(k, a, r, st, fl) == NewTransaction(k, a, r, st, fl, NoTrx)
<1>1. PICK t \in Unused : \E k \in Kinds, a \in Amount :
        \E r \in 0..a, st \in {"STAGED", "REVIEW_REQUIRED"}, fl \in [Flag -> FlagState] :
          trx' = [trx EXCEPT ![t] = N(k, a, r, st, fl)]
  <2>1. NoFlags \in [Flag -> FlagState]
    BY DEF NoFlags, FlagState
  <2>2. \A f \in Flag : [NoFlags EXCEPT ![f] = "open"] \in [Flag -> FlagState]
    BY DEF NoFlags, FlagState
  <2>3. \A a \in Amount : 0 \in 0..a
    BY LedgerAssumption DEF Amount
  <2> QED BY <2>1, <2>2, <2>3 DEF CreateTransaction
<1>2. PICK k \in Kinds, a \in Amount :
        \E r \in 0..a, st \in {"STAGED", "REVIEW_REQUIRED"}, fl \in [Flag -> FlagState] :
          trx' = [trx EXCEPT ![t] = N(k, a, r, st, fl)]
  BY <1>1
<1>3. PICK r \in 0..a, st \in {"STAGED", "REVIEW_REQUIRED"}, fl \in [Flag -> FlagState] :
        trx' = [trx EXCEPT ![t] = N(k, a, r, st, fl)]
  BY <1>2
<1>4. t \in Trx /\ ~Exists(t)
  BY DEF Unused
<1>5. a \in 0..MaxAmount /\ r \in 0..MaxAmount
  BY LedgerAssumption DEF Amount
<1>6. k \in AllKinds /\ k # "NONE" /\ st \in WorkflowStatus
  BY LedgerAssumption DEF AllKinds, InvoiceKinds, SensitiveKinds, OtherKinds, PaymentKinds,
                          WorkflowStatus
<1> DEFINE n == N(k, a, r, st, fl)
<1>7. n \in Transaction
  BY <1>5, <1>6, NewTransactionType
<1>8. n.kind = k /\ n.of = NoTrx /\ n.status = st
  BY DEF NewTransaction
<1>9. trx[t].of = NoTrx
  BY <1>4 DEF LedgerInv, Blank
<1>10. req' = req /\ req \in [Session -> Request]
  BY DEF CreateTransaction, LedgerInv, TypeOK
<1> HIDE DEF n
<1>11. trx' = [trx EXCEPT ![t] = n]
  BY <1>3 DEF n
<1> QED BY <1>4, <1>6, <1>7, <1>8, <1>9, <1>10, <1>11, RowStep DEF CreateTransaction

\* A flag is raised or resolved: its transaction's status may go to what it sets, never to
\* POSTED or REVERSED.
LEMMA CommitFlagInv ==
  ASSUME LedgerInv, NEW s \in Session, CommitFlag(s) PROVE LedgerInv'
<1> DEFINE t == req[s].trx
           f == req[s].flag
           st == Restatus(t, req[s].status, "REVIEW_REQUIRED")
           n == [trx[t] EXCEPT !.flags[f] = "open", !.status = st]
<1>1. t \in Trx /\ Exists(t) /\ f \in Flag
  BY DEF CommitFlag, LedgerInv, InFlight, Flight
<1>2. trx[t] \in Transaction /\ trx \in [Trx -> Transaction]
  BY <1>1 DEF LedgerInv, TypeOK
<1>3. st \in {trx[t].status, "REVIEW_REQUIRED"}
  BY DEF Restatus
<1> HIDE DEF st
<1>4. n \in Transaction /\ n.kind = trx[t].kind /\ n.of = trx[t].of /\ n.status = st
  BY <1>1, <1>2, <1>3 DEF Transaction, WorkflowStatus, FlagState
<1>5. trx' = [trx EXCEPT ![t] = n]
  BY <1>1, <1>2 DEF CommitFlag, st, Transaction
<1>6. req' \in [Session -> Request] /\ \A x \in Session : req'[x] = req[x] \/ req'[x] = Idle
  BY DoneRequests DEF LedgerInv, CommitFlag
<1> HIDE DEF n
<1> QED BY <1>1, <1>3, <1>4, <1>5, <1>6, RowStep DEF CommitFlag, Exists

LEMMA CommitResolveInv ==
  ASSUME LedgerInv, NEW s \in Session, CommitResolve(s) PROVE LedgerInv'
<1> DEFINE t == req[s].trx
           f == req[s].flag
           st == IF req[s].last THEN Restatus(t, req[s].status, "STAGED") ELSE trx[t].status
           n == [trx[t] EXCEPT !.flags[f] = "resolved", !.status = st]
<1>1. t \in Trx /\ Exists(t) /\ f \in Flag
  BY DEF CommitResolve, LedgerInv, InFlight, Flight
<1>2. trx[t] \in Transaction /\ trx \in [Trx -> Transaction]
  BY <1>1 DEF LedgerInv, TypeOK
<1>3. st \in {trx[t].status, "STAGED"}
  BY DEF Restatus
<1> HIDE DEF st
<1>4. n \in Transaction /\ n.kind = trx[t].kind /\ n.of = trx[t].of /\ n.status = st
  BY <1>1, <1>2, <1>3 DEF Transaction, WorkflowStatus, FlagState
<1>5. trx' = [trx EXCEPT ![t] = n]
  BY <1>1, <1>2 DEF CommitResolve, st, Resolved, Transaction
<1>6. req' \in [Session -> Request] /\ \A x \in Session : req'[x] = req[x] \/ req'[x] = Idle
  BY DoneRequests DEF LedgerInv, CommitResolve
<1> HIDE DEF n
<1> QED BY <1>1, <1>3, <1>4, <1>5, <1>6, RowStep DEF CommitResolve, Exists

LEMMA CommitPostInv ==
  ASSUME LedgerInv, NEW s \in Session, CommitPost(s) PROVE LedgerInv'
<1> DEFINE t == req[s].trx
<1> USE DEF LedgerInv
<1>1. t \in Trx /\ Exists(t) /\ je[t] = "NONE"
  BY DEF CommitPost, EntryFree, InFlight, Flight
<1>2. TypeOK'
  <2>1. req' \in [Session -> Request]
    BY DoneRequests DEF CommitPost
  <2>2. trx' \in [Trx -> Transaction]
    <3>1. trx[t] \in Transaction /\ trx' = [trx EXCEPT ![t].status = "POSTED"]
      BY <1>1 DEF CommitPost, TypeOK
    <3>2. [trx[t] EXCEPT !.status = "POSTED"] \in Transaction
      BY <3>1 DEF Transaction, WorkflowStatus
    <3> QED BY <1>1, <3>1, <3>2 DEF TypeOK
  <2>3. bill' \in [Trx -> Billing]
    BY <1>1, LedgerAssumption DEF CommitPost, TypeOK, IssuedBill, Billing, BillStatus
  <2>4. settled' \subseteq Trx /\ je' \in [Trx -> {"NONE", "LIVE", "REVERSED"}]
    BY <1>1 DEF CommitPost, TypeOK
  <2> QED BY <2>1, <2>2, <2>3, <2>4 DEF CommitPost, TypeOK
<1>3. /\ trx'[t].status = "POSTED" /\ trx'[t].kind = trx[t].kind
      /\ trx'[t].of = trx[t].of /\ trx'[t].flags = trx[t].flags
      /\ \A x \in Trx : x # t => trx'[x] = trx[x]
  BY <1>1 DEF CommitPost, TypeOK, Transaction
<1>4. je'[t] = "LIVE" /\ \A x \in Trx : x # t => je'[x] = je[x]
  BY <1>1 DEF CommitPost, TypeOK
<1>5. /\ trx[t].kind \in InvoiceKinds => bill'[t] = IssuedBill
      /\ trx[t].kind \notin InvoiceKinds => bill'[t] = bill[t]
      /\ \A x \in Trx : x # t => bill'[x] = bill[x]
  BY <1>1 DEF CommitPost, TypeOK
<1>6. UNCHANGED <<alloc, release>>
  BY DEF CommitPost
<1>7. \A x \in Trx : trx[x].of # t
  BY <1>1, LedgerAssumption DEF References, ReversedEntriesHaveReversals
<1>8. alloc[t] = NoTrx /\ trx[t].of = NoTrx /\ t \notin settled
  <2>1. alloc[t] = NoTrx /\ trx[t].of = NoTrx
    BY <1>1 DEF SettlementsMatchJournal, References
  <2> QED BY <1>1, <2>1 DEF SettlementsMatchJournal
<1>9. Blank'
  BY <1>1, <1>3, <1>4, <1>6 DEF Blank, Exists, OpenFlags
<1>10. NothingDeleted
  BY <1>3, <1>4, <1>5 DEF NothingDeleted, Exists, IssuedBill
<1>11. References' /\ InFlight'
  <2>1. \A x \in Trx : trx'[x].of = trx[x].of
    BY <1>3
  <2> QED BY <1>6, <1>10, <2>1, DoneRequests, ReferencesKept, FlightKept DEF CommitPost
<1>12. StatusMatchesEntry'
  BY <1>3, <1>4 DEF StatusMatchesEntry
<1>13. SettlementsMatchJournal'
  <2>1. settled \subseteq settled' /\ settled' \subseteq settled \cup {t}
    BY DEF CommitPost
  <2>2. t \in settled' => trx[t].kind = "INTERBANK_TRANSFER"
    BY <1>8 DEF CommitPost
  <2>3. trx[t].kind = "INTERBANK_TRANSFER" => t \in settled'
    BY DEF CommitPost
  <2> HIDE DEF t
  <2> SUFFICES ASSUME NEW x \in Trx
      PROVE  /\ alloc'[x] # NoTrx => je'[x] = "LIVE"
             /\ trx'[x].kind = "INTERBANK_TRANSFER" => (x \in settled' <=> je'[x] = "LIVE")
             /\ x \in settled' => alloc'[x] # NoTrx \/ trx'[x].kind = "INTERBANK_TRANSFER"
    BY <1>2 DEF SettlementsMatchJournal, TypeOK
  <2>4. CASE x = t
    BY <1>3, <1>4, <2>2, <2>3, <2>4
  <2>5. CASE x # t
    BY <1>3, <1>4, <1>6, <2>1, <2>5 DEF SettlementsMatchJournal
  <2> QED BY <2>4, <2>5
<1>14. ReversedEntriesHaveReversals'
  <2>1. \A x \in Trx : trx'[x].of = trx[x].of
    BY <1>3
  <2> QED BY <1>1, <1>4, <1>7, <1>8, <2>1, LedgerAssumption DEF ReversedEntriesHaveReversals
<1>15. SubledgerMatchesJournal'
  BY <1>1, <1>3, <1>4, <1>5 DEF SubledgerMatchesJournal, IssuedBill
<1> QED BY <1>2, <1>9, <1>11, <1>12, <1>13, <1>14, <1>15

\* What commits a payment or a release of retention: row p comes with a live entry, row i of
\* the invoices changes and stands, and p's foreign keys are set.
LEMMA NewRowStep ==
  ASSUME LedgerInv, NEW p \in Unused, NEW n \in Transaction, NEW i \in Trx, NEW b \in Billing,
         n.status = "POSTED", n.of = NoTrx, n.flags = NoFlags,
         n.kind \notin InvoiceKinds \cup {"NONE", "INTERBANK_TRANSFER"},
         trx' = [trx EXCEPT ![p] = n], je' = [je EXCEPT ![p] = "LIVE"],
         bill[i].status # "NONE", bill' = [bill EXCEPT ![i] = b],
         b.status # "NONE",
         b.status = "CANCELLED" => bill[i].status = "CANCELLED",
         alloc' = alloc \/ alloc' = [alloc EXCEPT ![p] = i],
         settled' = settled \/ (alloc' = [alloc EXCEPT ![p] = i] /\ settled' = settled \cup {p}),
         release' = release \/ release' = [release EXCEPT ![p] = i],
         UNCHANGED period, req' \in [Session -> Request],
         \A x \in Session : req'[x] = req[x] \/ req'[x] = Idle
  PROVE LedgerInv'
<1> USE DEF LedgerInv
<1>1. p \in Trx /\ ~Exists(p)
  BY DEF Unused
<1>2. TypeOK'
  BY <1>1 DEF TypeOK
<1>3. trx'[p] = n /\ \A x \in Trx : x # p => trx'[x] = trx[x]
  BY <1>1 DEF TypeOK
<1>4. je'[p] = "LIVE" /\ \A x \in Trx : x # p => je'[x] = je[x]
  BY <1>1 DEF TypeOK
<1>5. bill'[i] = b /\ \A x \in Trx : x # i => bill'[x] = bill[x]
  BY DEF TypeOK
<1>6. /\ trx[p].of = NoTrx /\ je[p] = "NONE" /\ alloc[p] = NoTrx
      /\ bill[p].status = "NONE" /\ p \notin settled /\ p # i
  BY <1>1 DEF Blank, SubledgerMatchesJournal, SettlementsMatchJournal
<1>7. /\ alloc'[p] \in {NoTrx, i} /\ \A x \in Trx : x # p => alloc'[x] = alloc[x]
      /\ p \in settled' => alloc'[p] # NoTrx
      /\ \A x \in Trx : x # p => (x \in settled' <=> x \in settled)
  BY <1>1, <1>6, LedgerAssumption DEF TypeOK
<1>8. release'[p] \in {release[p], i} /\ \A x \in Trx : x # p => release'[x] = release[x]
  BY <1>1 DEF TypeOK
<1>9. Blank'
  <2>1. Exists(p)'
    BY <1>3 DEF Exists
  <2> QED BY <1>3, <1>4, <1>7, <1>8, <2>1 DEF Blank, Exists, OpenFlags
<1>10. NothingDeleted
  BY <1>1, <1>3, <1>4, <1>5 DEF NothingDeleted, Exists
<1>11. References' /\ InFlight'
  <2>1. \A x \in Trx : trx'[x].of = trx[x].of
    BY <1>3, <1>6
  <2>2. \A x \in Trx : alloc'[x] \in {alloc[x], NoTrx} \/ bill'[alloc'[x]].status # "NONE"
    BY <1>5, <1>7
  <2>3. \A x \in Trx : release'[x] \in {release[x], NoTrx} \/ bill'[release'[x]].status # "NONE"
    BY <1>5, <1>8
  <2> QED BY <1>10, <2>1, <2>2, <2>3, ReferencesKept, FlightKept
<1>12. StatusMatchesEntry'
  BY <1>3, <1>4 DEF StatusMatchesEntry
<1>13. SettlementsMatchJournal'
  <2> SUFFICES ASSUME NEW x \in Trx
      PROVE  /\ alloc'[x] # NoTrx => je'[x] = "LIVE"
             /\ trx'[x].kind = "INTERBANK_TRANSFER" => (x \in settled' <=> je'[x] = "LIVE")
             /\ x \in settled' => alloc'[x] # NoTrx \/ trx'[x].kind = "INTERBANK_TRANSFER"
    BY <1>2 DEF SettlementsMatchJournal, TypeOK
  <2>1. CASE x = p
    BY <1>3, <1>4, <1>7, <2>1
  <2>2. CASE x # p
    BY <1>3, <1>4, <1>7, <2>2 DEF SettlementsMatchJournal
  <2> QED BY <2>1, <2>2
<1>14. ReversedEntriesHaveReversals'
  <2>1. \A x \in Trx : trx'[x].of = trx[x].of /\ trx[x].of # p
    BY <1>1, <1>3, <1>6, LedgerAssumption DEF References
  <2> QED BY <1>4, <1>6, <2>1, LedgerAssumption DEF ReversedEntriesHaveReversals
<1>15. SubledgerMatchesJournal'
  <2> SUFFICES ASSUME NEW x \in Trx
      PROVE /\ bill'[x].status # "NONE" <=> trx'[x].kind \in InvoiceKinds /\ je'[x] # "NONE"
            /\ bill'[x].status = "CANCELLED" => je'[x] = "REVERSED"
    BY DEF SubledgerMatchesJournal
  <2>1. CASE x = p
    BY <1>3, <1>5, <1>6, <2>1
  <2>2. CASE x # p
    BY <1>3, <1>4, <1>5, <2>2 DEF SubledgerMatchesJournal
  <2> QED BY <2>1, <2>2
<1> QED BY <1>2, <1>9, <1>11, <1>12, <1>13, <1>14, <1>15

LEMMA CommitPayInv ==
  ASSUME LedgerInv, NEW s \in Session, CommitPay(s) PROVE LedgerInv'
<1> DEFINE i == req[s].trx
           a == req[s].amount
           n == NewTransaction(PaymentFor(trx[i].kind), a, 0, "POSTED", NoFlags, NoTrx)
           st == StatusWhenPaid(PaidOn(i) + a, trx[i].amount)
           b == [bill[i] EXCEPT !.status = st]
<1>1. i \in Trx /\ bill[i].status # "NONE"
  BY DEF CommitPay, LedgerInv, InFlight, Flight
<1>2. a \in 0..MaxAmount
  BY DEF LedgerInv, TypeOK, Request
<1>3. PICK p \in Unused : /\ trx' = [trx EXCEPT ![p] = n]
                          /\ je' = [je EXCEPT ![p] = "LIVE"]
                          /\ alloc' = [alloc EXCEPT ![p] = i]
                          /\ settled' \in {settled, settled \cup {p}}
  BY DEF CommitPay
<1>4. bill' = [bill EXCEPT ![i] = b]
  BY <1>1 DEF CommitPay, LedgerInv, TypeOK
<1>5. n \in Transaction
  <2>1. NoFlags \in [Flag -> FlagState]
    BY DEF NoFlags, FlagState
  <2>2. PaymentFor(trx[i].kind) \in AllKinds
    BY DEF PaymentFor, AllKinds, PaymentKinds
  <2>3. 0 \in 0..MaxAmount /\ "POSTED" \in WorkflowStatus /\ NoTrx \in Trx \cup {NoTrx}
    BY LedgerAssumption DEF WorkflowStatus
  <2> QED BY <1>2, <2>1, <2>2, <2>3, NewTransactionType
<1>6. /\ n.status = "POSTED" /\ n.kind \notin InvoiceKinds \cup {"NONE", "INTERBANK_TRANSFER"}
      /\ n.of = NoTrx /\ n.flags = NoFlags
  BY DEF NewTransaction, PaymentFor, InvoiceKinds
<1>7. st \in {"UNPAID", "PARTIALLY_PAID", "PAID"}
  BY DEF StatusWhenPaid
<1> HIDE DEF n, st
<1>8. b \in Billing /\ b.status # "NONE" /\ b.status # "CANCELLED"
  BY <1>1, <1>7 DEF LedgerInv, TypeOK, Billing, BillStatus
<1>9. req' \in [Session -> Request] /\ \A x \in Session : req'[x] = req[x] \/ req'[x] = Idle
  BY DoneRequests DEF LedgerInv, CommitPay
<1>10. UNCHANGED <<release, period>>
  BY DEF CommitPay
<1> HIDE DEF b, i
<1> QED BY <1>1, <1>3, <1>4, <1>5, <1>6, <1>8, <1>9, <1>10, NewRowStep

LEMMA CommitReleaseInv ==
  ASSUME LedgerInv, NEW s \in Session, CommitRelease(s) PROVE LedgerInv'
<1> DEFINE i == req[s].trx
           a == req[s].amount
           n == NewTransaction("RETENTION_RELEASE", a, 0, "POSTED", NoFlags, NoTrx)
           b == [bill[i] EXCEPT !.released = @ + a]
<1>1. i \in Trx /\ bill[i].status # "NONE"
  BY DEF CommitRelease, LedgerInv, InFlight, Flight
<1>2. a \in 0..MaxAmount
  BY DEF LedgerInv, TypeOK, Request
<1>3. PICK p \in Unused : /\ trx' = [trx EXCEPT ![p] = n]
                          /\ je' = [je EXCEPT ![p] = "LIVE"]
                          /\ release' = [release EXCEPT ![p] = i]
  BY DEF CommitRelease
<1>4. bill' = [bill EXCEPT ![i] = b]
  BY <1>1 DEF CommitRelease, LedgerInv, TypeOK
<1>5. n \in Transaction
  <2>1. NoFlags \in [Flag -> FlagState] /\ "RETENTION_RELEASE" \in AllKinds
    BY DEF NoFlags, FlagState, AllKinds
  <2>2. 0 \in 0..MaxAmount /\ "POSTED" \in WorkflowStatus /\ NoTrx \in Trx \cup {NoTrx}
    BY LedgerAssumption DEF WorkflowStatus
  <2> QED BY <1>2, <2>1, <2>2, NewTransactionType
<1>6. /\ n.status = "POSTED" /\ n.kind \notin InvoiceKinds \cup {"NONE", "INTERBANK_TRANSFER"}
      /\ n.of = NoTrx /\ n.flags = NoFlags
  BY DEF NewTransaction, InvoiceKinds
<1> HIDE DEF n
<1>7. bill[i].released + a <= trx[i].retention /\ trx[i].retention \in 0..MaxAmount
  BY <1>1 DEF CommitRelease, Releasable, LedgerInv, TypeOK, Transaction
<1>8. b \in Billing /\ b.status = bill[i].status
  BY <1>1, <1>2, <1>7, LedgerAssumption DEF LedgerInv, TypeOK, Billing
<1>9. req' \in [Session -> Request] /\ \A x \in Session : req'[x] = req[x] \/ req'[x] = Idle
  BY DoneRequests DEF LedgerInv, CommitRelease
<1>10. UNCHANGED <<alloc, settled, period>>
  BY DEF CommitRelease
<1> HIDE DEF b, i
<1> QED BY <1>1, <1>3, <1>4, <1>5, <1>6, <1>8, <1>9, <1>10, NewRowStep

\* The REVERSAL transaction r is new, so no foreign key names it; the invoice or bill that
\* the reversal writes is cancelled only if it is the reversed transaction's own.
LEMMA CommitReverseInv ==
  ASSUME LedgerInv, NEW s \in Session, CommitReverse(s) PROVE LedgerInv'
<1> USE DEF LedgerInv
<1>1. PICK t \in Trx : t = req[s].trx /\ Exists(t) /\ je[t] # "NONE"
  BY DEF CommitReverse, InFlight, Flight
<1> DEFINE i == req[s].touched
           b == Written(bill[i], req[s].seen, req[s].next)
           n(r) == NewTransaction("REVERSAL", trx[t].amount, 0, "POSTED", NoFlags, t)
<1>2. PICK r \in Unused :
        /\ trx' = [trx EXCEPT ![r] = n(r), ![t].status = "REVERSED"]
        /\ je' = [je EXCEPT ![r] = "LIVE", ![t] = "REVERSED"]
  BY <1>1 DEF CommitReverse
<1>3. r \in Trx /\ ~Exists(r) /\ r # t
  BY <1>1 DEF Unused
<1>4. n(r) \in Transaction
  <2>1. NoFlags \in [Flag -> FlagState] /\ "REVERSAL" \in AllKinds
    BY DEF NoFlags, FlagState, AllKinds, SensitiveKinds
  <2>2. trx[t].amount \in 0..MaxAmount
    BY <1>1 DEF TypeOK, Transaction
  <2>3. 0 \in 0..MaxAmount /\ "POSTED" \in WorkflowStatus /\ t \in Trx \cup {NoTrx}
    BY <1>1, LedgerAssumption DEF WorkflowStatus
  <2> QED BY <2>1, <2>2, <2>3, NewTransactionType
<1>5. /\ n(r).kind = "REVERSAL" /\ n(r).of = t /\ n(r).flags = NoFlags
      /\ n(r).status = "POSTED"
  BY DEF NewTransaction
<1> HIDE DEF n
<1>6. /\ trx'[r] = n(r)
      /\ trx'[t].kind = trx[t].kind /\ trx'[t].of = trx[t].of
      /\ trx'[t].flags = trx[t].flags /\ trx'[t].status = "REVERSED"
      /\ \A x \in Trx \ {r, t} : trx'[x] = trx[x]
      /\ trx' \in [Trx -> Transaction]
  <2>1. trx[t] \in Transaction /\ trx \in [Trx -> Transaction]
    BY <1>1 DEF TypeOK
  <2>2. [trx[t] EXCEPT !.status = "REVERSED"] \in Transaction
    BY <2>1 DEF Transaction, WorkflowStatus
  <2>3. trx' = [x \in Trx |-> IF x = r THEN n(r)
                              ELSE IF x = t THEN [trx[t] EXCEPT !.status = "REVERSED"]
                              ELSE trx[x]]
    BY <1>1, <1>2, <1>3, <2>1
  <2> QED BY <1>1, <1>3, <1>4, <2>1, <2>2, <2>3 DEF Transaction
<1>7. /\ je'[r] = "LIVE" /\ je'[t] = "REVERSED"
      /\ \A x \in Trx \ {r, t} : je'[x] = je[x]
      /\ je' \in [Trx -> {"NONE", "LIVE", "REVERSED"}]
  BY <1>1, <1>2, <1>3 DEF TypeOK
<1>8. /\ trx[r].of = NoTrx /\ je[r] = "NONE" /\ alloc[r] = NoTrx /\ release[r] = NoTrx
      /\ bill[r].status = "NONE" /\ r \notin settled
  BY <1>3 DEF Blank, SubledgerMatchesJournal, SettlementsMatchJournal
<1>9. /\ alloc'[t] = NoTrx /\ \A x \in Trx : x # t => alloc'[x] = alloc[x]
      /\ release'[t] = NoTrx /\ \A x \in Trx : x # t => release'[x] = release[x]
      /\ settled' = settled \ {t}
      /\ alloc' \in [Trx -> Trx \cup {NoTrx}] /\ release' \in [Trx -> Trx \cup {NoTrx}]
  BY <1>1 DEF CommitReverse, Freed, TypeOK
<1>10. /\ bill' \in [Trx -> Billing]
       /\ \A x \in Trx :
            /\ bill'[x].status # "NONE" <=> bill[x].status # "NONE"
            /\ bill'[x].status = "CANCELLED" => x = t \/ bill[x].status = "CANCELLED"
  <2>1. CASE i = NoTrx
    BY <2>1 DEF CommitReverse, TypeOK
  <2>2. CASE i # NoTrx
    <3>1. /\ req[s] \in Request /\ bill \in [Trx -> Billing]
          /\ bill' = [bill EXCEPT ![i] = b]
      BY <2>2 DEF CommitReverse, TypeOK
    <3>2. /\ i \in Trx /\ bill[i] \in Billing
          /\ req[s].seen \in Billing /\ req[s].next \in Billing
      BY <2>2, <3>1 DEF Request
    <3>3. /\ bill[i].status # "NONE" /\ req[s].next.status # "NONE"
          /\ req[s].next.status = "CANCELLED" => i = t \/ req[s].seen.status = "CANCELLED"
      BY <1>1, <2>2 DEF CommitReverse, InFlight, Flight
    <3>4. b \in Billing
      BY <3>2 DEF Written, Billing
    <3>5. /\ b.status # "NONE"
          /\ b.status = "CANCELLED" => i = t \/ bill[i].status = "CANCELLED"
      BY <3>2, <3>3 DEF Written
    <3> HIDE DEF b
    <3> QED BY <3>1, <3>2, <3>3, <3>4, <3>5
  <2> QED BY <2>1, <2>2
<1>11. TypeOK'
  <2>1. req' \in [Session -> Request] /\ period' = period
    BY DoneRequests DEF CommitReverse
  <2> QED BY <1>6, <1>7, <1>9, <1>10, <2>1 DEF TypeOK
<1>12. Exists(t)' /\ Exists(r)'
  BY <1>1, <1>5, <1>6 DEF Exists
<1>13. Blank'
  BY <1>6, <1>7, <1>9, <1>12 DEF Blank, Exists, OpenFlags
<1>14. NothingDeleted
  BY <1>6, <1>7, <1>8, <1>10, <1>12 DEF NothingDeleted, Exists
<1>15. References' /\ InFlight'
  <2>1. \A x \in Trx : trx'[x].of = trx[x].of \/ (je'[x] # "NONE" /\ Exists(trx[x].of)')
    <3> SUFFICES ASSUME NEW x \in Trx
        PROVE trx'[x].of = trx[x].of \/ (je'[x] # "NONE" /\ Exists(trx[x].of)')
      OBVIOUS
    <3>1. CASE x = r
      BY <1>5, <1>6, <1>7, <1>12, <3>1 DEF Exists
    <3>2. CASE x # r
      BY <1>6, <3>2
    <3> QED BY <3>1, <3>2
  <2>2. \A x \in Trx : alloc'[x] \in {alloc[x], NoTrx} /\ release'[x] \in {release[x], NoTrx}
    BY <1>9
  <2>3. \A x \in Session : req'[x] = req[x] \/ req'[x] = Idle
    BY DoneRequests DEF CommitReverse
  <2> QED BY <1>14, <2>1, <2>2, <2>3, ReferencesKept, FlightKept
<1>16. StatusMatchesEntry'
  BY <1>5, <1>6, <1>7 DEF StatusMatchesEntry
<1>17. SettlementsMatchJournal'
  <2> SUFFICES ASSUME NEW x \in Trx
      PROVE  /\ alloc'[x] # NoTrx => je'[x] = "LIVE"
             /\ trx'[x].kind = "INTERBANK_TRANSFER" => (x \in settled' <=> je'[x] = "LIVE")
             /\ x \in settled' => alloc'[x] # NoTrx \/ trx'[x].kind = "INTERBANK_TRANSFER"
    BY <1>11 DEF SettlementsMatchJournal, TypeOK
  <2>1. CASE x = r
    BY <1>3, <1>5, <1>6, <1>7, <1>8, <1>9, <2>1
  <2>2. CASE x = t
    BY <1>7, <1>9, <2>2
  <2>3. CASE x # r /\ x # t
    BY <1>6, <1>7, <1>9, <2>3 DEF SettlementsMatchJournal
  <2> QED BY <2>1, <2>2, <2>3
<1>18. ReversedEntriesHaveReversals'
  <2>1. \A x \in Trx : x # r => trx'[x].of = trx[x].of
    BY <1>6
  <2>2. \A x \in Trx : trx[x].of # r
    BY <1>3, LedgerAssumption DEF References
  <2> QED BY <1>1, <1>3, <1>5, <1>6, <1>7, <1>8, <2>1, <2>2, LedgerAssumption
          DEF ReversedEntriesHaveReversals
<1>19. SubledgerMatchesJournal'
  <2> SUFFICES ASSUME NEW x \in Trx
      PROVE /\ bill'[x].status # "NONE" <=> trx'[x].kind \in InvoiceKinds /\ je'[x] # "NONE"
            /\ bill'[x].status = "CANCELLED" => je'[x] = "REVERSED"
    BY DEF SubledgerMatchesJournal
  <2>1. CASE x = r
    BY <1>3, <1>5, <1>6, <1>8, <1>10, <2>1 DEF InvoiceKinds
  <2>2. CASE x = t
    BY <1>1, <1>6, <1>7, <1>10, <2>2 DEF SubledgerMatchesJournal
  <2>3. CASE x # r /\ x # t
    BY <1>6, <1>7, <1>10, <2>3 DEF SubledgerMatchesJournal
  <2> QED BY <2>1, <2>2, <2>3
<1> QED BY <1>11, <1>13, <1>15, <1>16, <1>17, <1>18, <1>19

-----------------------------------------------------------------------------
(* The invariant and what follows from it.                                 *)

LEMMA InitInv == ASSUME Init PROVE LedgerInv
<1> USE DEF Init
<1>1. NoTransaction \in Transaction
  BY LedgerAssumption DEF NoTransaction, NewTransaction, Transaction, NoFlags, FlagState,
                          WorkflowStatus
<1>2. NoBill \in Billing
  BY LedgerAssumption DEF NoBill, Billing, BillStatus
<1>3. TypeOK BY <1>1, <1>2, IdleRequest DEF TypeOK
<1>4. \A t \in Trx : /\ trx[t].kind = "NONE" /\ trx[t].of = NoTrx /\ trx[t].status = "NONE"
                     /\ OpenFlags(t) = {}
  BY DEF NoTransaction, NewTransaction, OpenFlags, NoFlags
<1>5. Blank BY <1>4 DEF Blank
<1>6. References BY <1>4 DEF References
<1>7. InFlight BY IdleRequest DEF InFlight, Flight
<1>8. StatusMatchesEntry BY <1>4 DEF StatusMatchesEntry
<1>9. SettlementsMatchJournal BY <1>4 DEF SettlementsMatchJournal
<1>10. ReversedEntriesHaveReversals BY DEF ReversedEntriesHaveReversals
<1>11. SubledgerMatchesJournal BY DEF SubledgerMatchesJournal, NoBill
<1> QED BY <1>3, <1>5, <1>6, <1>7, <1>8, <1>9, <1>10, <1>11 DEF LedgerInv

LEMMA NextInv == ASSUME LedgerInv, [Next]_ledgerVars PROVE LedgerInv'
<1>1. CASE CreateTransaction BY <1>1, CreateTransactionInv
<1>2. CASE UpdatePeriod BY <1>2, UpdatePeriodInv
<1>3. ASSUME NEW s \in Session, Begin(s) PROVE LedgerInv'
  BY <1>3, BeginPostInv, BeginPayInv, BeginReleaseInv, BeginReverseInv, BeginFlagInv,
     BeginResolveInv DEF Begin
<1>4. ASSUME NEW s \in Session, Commit(s) PROVE LedgerInv'
  BY <1>4, CommitPostInv, CommitPayInv, CommitReleaseInv, CommitReverseInv, CommitFlagInv,
     CommitResolveInv DEF Commit
<1>5. ASSUME NEW s \in Session, Abort(s) PROVE LedgerInv'
  BY <1>5, AbortInv
<1>6. CASE UNCHANGED ledgerVars
  <2>1. UNCHANGED books /\ period' \in {"OPEN", "SOFT_CLOSED", "CLOSED"}
    BY <1>6 DEF ledgerVars, books, LedgerInv, TypeOK
  <2>2. req' \in [Session -> Request] /\ \A x \in Session : Flight(req'[x])
    BY <1>6 DEF ledgerVars, LedgerInv, TypeOK, InFlight
  <2> QED BY <2>1, <2>2, RequestStep
<1> QED BY <1>1, <1>2, <1>3, <1>4, <1>5, <1>6 DEF Next

LEMMA LedgerInvariant == LedgerSpec => []LedgerInv
BY InitInv, NextInv, PTL DEF LedgerSpec

\* Every table and every request in flight is well formed; in particular a release of
\* retention, which adds to a column another session reversed in between, stays in range.
THEOREM LedgerTypes == LedgerSpec => []TypeOK
<1>1. LedgerInv => TypeOK BY DEF LedgerInv
<1> QED BY <1>1, LedgerInvariant, PTL

\* However postings, reversals and review flags that decided on stale statuses interleave, a
\* POSTED transaction has a standing entry and a REVERSED one a reversed entry.
THEOREM LedgerStatusMatchesEntry == LedgerSpec => []StatusMatchesEntry
<1>1. LedgerInv => StatusMatchesEntry BY DEF LedgerInv
<1> QED BY <1>1, LedgerInvariant, PTL

\* Payments, transfers and their reversals never leave a settlement or an allocation behind
\* an entry that was reversed, nor a transfer that stands without its settlement.
THEOREM LedgerSettlementsMatchJournal == LedgerSpec => []SettlementsMatchJournal
<1>1. LedgerInv => SettlementsMatchJournal BY DEF LedgerInv
<1> QED BY <1>1, LedgerInvariant, PTL

\* An entry is marked reversed exactly when a REVERSAL transaction with an entry refers to it.
THEOREM LedgerReversedEntriesHaveReversals == LedgerSpec => []ReversedEntriesHaveReversals
<1>1. LedgerInv => ReversedEntriesHaveReversals BY DEF LedgerInv
<1> QED BY <1>1, LedgerInvariant, PTL

\* Invoices and bills are those of the posted transactions, and only the reversal of its own
\* transaction cancels one, whatever a payment's reversal wrote back from an earlier read.
THEOREM LedgerSubledgerMatchesJournal == LedgerSpec => []SubledgerMatchesJournal
<1>1. LedgerInv => SubledgerMatchesJournal BY DEF LedgerInv
<1> QED BY <1>1, LedgerInvariant, PTL

\* No step deletes a journal entry or reinstates a reversed one: posting finds the entry
\* free, and everything else writes entries of new transactions.
THEOREM LedgerJournalIsAppendOnly == LedgerSpec => JournalIsAppendOnly
<1> DEFINE Kept == \A t \in Trx : /\ je[t] # "NONE" => je'[t] # "NONE"
                                  /\ je[t] = "REVERSED" => je'[t] = "REVERSED"
<1>1. ASSUME LedgerInv, [Next]_ledgerVars PROVE Kept
  <2>1. \A p \in Unused : p \in Trx /\ je[p] = "NONE"
    BY <1>1 DEF LedgerInv, Blank, Unused
  <2>2. je \in [Trx -> {"NONE", "LIVE", "REVERSED"}]
    BY <1>1 DEF LedgerInv, TypeOK
  <2>3. CASE UNCHANGED je
    BY <2>3
  <2>4. ASSUME NEW s \in Session, CommitPost(s) PROVE Kept
    BY <2>2, <2>4 DEF CommitPost, EntryFree
  <2>5. ASSUME NEW s \in Session, CommitPay(s) PROVE Kept
    <3>1. PICK p \in Unused : je' = [je EXCEPT ![p] = "LIVE"] BY <2>5 DEF CommitPay
    <3> QED BY <2>1, <2>2, <3>1
  <2>6. ASSUME NEW s \in Session, CommitRelease(s) PROVE Kept
    <3>1. PICK p \in Unused : je' = [je EXCEPT ![p] = "LIVE"] BY <2>6 DEF CommitRelease
    <3> QED BY <2>1, <2>2, <3>1
  <2>7. ASSUME NEW s \in Session, CommitReverse(s) PROVE Kept
    <3>1. PICK p \in Unused : je' = [je EXCEPT ![p] = "LIVE", ![req[s].trx] = "REVERSED"]
      BY <2>7 DEF CommitReverse
    <3> QED BY <2>1, <2>2, <3>1
  <2>8. CASE CreateTransaction \/ UpdatePeriod \/ UNCHANGED ledgerVars
    BY <2>3, <2>8 DEF CreateTransaction, UpdatePeriod, ledgerVars, books
  <2>9. ASSUME NEW s \in Session, Begin(s) \/ Abort(s) \/ CommitFlag(s) \/ CommitResolve(s)
        PROVE Kept
    BY <2>3, <2>9 DEF Begin, BeginPost, BeginPay, BeginRelease, BeginReverse, BeginFlag,
                      BeginResolve, Abort, CommitFlag, CommitResolve, books
  <2> QED BY <1>1, <2>4, <2>5, <2>6, <2>7, <2>8, <2>9 DEF Next, Commit
<1>2. LedgerInv /\ [Next]_ledgerVars => [Kept]_ledgerVars
  BY <1>1
<1> QED BY <1>2, LedgerInvariant, PTL DEF LedgerSpec, JournalIsAppendOnly

-----------------------------------------------------------------------------
(* Payments stay within the invoice.                                       *)

\* The column that counts what was released stays within the retention.  The releases that
\* are in force may add up to more: a reversal subtracts from what it read.
WithinRetention == \A i \in Trx : bill[i].released <= trx[i].retention

\* What is not issued has nothing released.
Unissued == \A i \in Trx : bill[i].status = "NONE" => bill[i].released = 0

\* A reversal in flight will not write back more than the retention.
SoundReversals ==
  \A s \in Session : req[s].op = "reverse" /\ req[s].touched # NoTrx =>
    req[s].next.released <= trx[req[s].touched].retention

BoundedInv == LedgerInv /\ NoOverAllocation /\ WithinRetention /\ Unissued /\ SoundReversals

\* Amount and retention of a row never change.
Unrevised ==
  \A t \in Trx : Exists(t) => /\ trx'[t].amount = trx[t].amount
                              /\ trx'[t].retention = trx[t].retention

\* What is paid of an invoice is a sum of amounts, over rows that exist.
LEMMA PaymentsExist ==
  ASSUME LedgerInv, NEW i \in Trx
  PROVE  /\ PaymentsOf(i) \subseteq Trx /\ IsFiniteSet(PaymentsOf(i))
         /\ \A p \in PaymentsOf(i) : Exists(p)
         /\ \A p \in Trx : Amounts[p] = trx[p].amount /\ Amounts[p] \in Nat
         /\ PaidOn(i) \in Nat
         /\ bill[i].status = "NONE" => PaidOn(i) = 0
<1>1. PaymentsOf(i) \subseteq Trx /\ IsFiniteSet(PaymentsOf(i))
  BY LedgerAssumption, FS_Subset DEF PaymentsOf
<1>2. \A p \in PaymentsOf(i) : Exists(p)
  BY LedgerAssumption DEF PaymentsOf, LedgerInv, Blank
<1>3. \A p \in Trx : Amounts[p] = trx[p].amount /\ Amounts[p] \in Nat
  BY LedgerAssumption DEF Amounts, LedgerInv, TypeOK, Transaction
<1>4. PaidOn(i) \in Nat
  BY <1>1, <1>3, SumType DEF PaidOn, Paid
<1>5. bill[i].status = "NONE" => PaidOn(i) = 0
  <2>1. bill[i].status = "NONE" => PaymentsOf(i) = {}
    BY LedgerAssumption DEF PaymentsOf, LedgerInv, References
  <2> QED BY <2>1, SumEmpty DEF PaidOn, Paid
<1> QED BY <1>1, <1>2, <1>3, <1>4, <1>5

\* An invoice that gains no payment has no more paid.
LEMMA PaidNoMore ==
  ASSUME LedgerInv, LedgerInv', Unrevised, NEW i \in Trx, PaymentsOf(i)' \subseteq PaymentsOf(i)
  PROVE  PaidOn(i)' <= PaidOn(i) /\ PaidOn(i)' \in Nat
<1> DEFINE P == PaymentsOf(i)
           Q == PaymentsOf(i)'
           f == Amounts
           g == Amounts'
<1>1. /\ P \subseteq Trx /\ IsFiniteSet(P) /\ \A p \in P : Exists(p)
      /\ \A p \in Trx : f[p] = trx[p].amount /\ f[p] \in Nat
  BY PaymentsExist
<1>2. \A p \in Trx : g[p] = trx'[p].amount
  BY DEF Amounts
<1>3. PaidOn(i) = SumFunctionOnSet(f, P) /\ PaidOn(i)' = SumFunctionOnSet(g, Q)
  BY DEF PaidOn, Paid
<1> HIDE DEF P, Q, f, g
<1>4. Q \in SUBSET P
  BY DEF P, Q
<1>5. SumFunctionOnSet(f, Q) <= SumFunctionOnSet(f, P)
  BY <1>1, <1>4, SumSubset
<1>6. SumFunctionOnSet(g, Q) = SumFunctionOnSet(f, Q)
  <2>1. \A p \in Q : g[p] = f[p]
    BY <1>1, <1>2, <1>4 DEF Unrevised
  <2>2. IsFiniteSet(Q)
    BY <1>1, <1>4, FS_Subset
  <2> QED BY <2>1, <2>2, SumSame
<1>7. SumFunctionOnSet(f, Q) \in Nat
  <2>1. IsFiniteSet(Q) /\ \A p \in Q : f[p] \in Nat
    BY <1>1, <1>4, FS_Subset
  <2> QED BY <2>1, SumType
<1> QED BY <1>3, <1>5, <1>6, <1>7

\* One that gains payment p has its amount paid besides.
LEMMA PaidMore ==
  ASSUME LedgerInv, LedgerInv', Unrevised, NEW i \in Trx, NEW p \in Unused,
         PaymentsOf(i)' = PaymentsOf(i) \cup {p}
  PROVE  PaidOn(i)' = trx'[p].amount + PaidOn(i)
<1> DEFINE P == PaymentsOf(i)
           f == Amounts
           g == Amounts'
<1>1. /\ P \subseteq Trx /\ IsFiniteSet(P) /\ \A q \in P : Exists(q)
      /\ \A q \in Trx : f[q] = trx[q].amount /\ f[q] \in Nat
  BY PaymentsExist
<1>2. \A q \in Trx : g[q] = trx'[q].amount /\ trx'[q].amount \in Nat
  BY LedgerAssumption DEF Amounts, LedgerInv, TypeOK, Transaction
<1>3. PaidOn(i) = SumFunctionOnSet(f, P) /\ PaidOn(i)' = SumFunctionOnSet(g, P \cup {p})
  BY DEF PaidOn, Paid
<1> HIDE DEF P, f, g
<1>4. p \in Trx /\ p \notin P
  BY <1>1 DEF Unused
<1>5. SumFunctionOnSet(g, P \cup {p}) = g[p] + SumFunctionOnSet(g, P)
  <2>1. \A x \in P \cup {p} : g[x] \in Int
    BY <1>1, <1>2, <1>4
  <2> QED BY <1>1, <1>4, <2>1, SumAdd
<1>6. SumFunctionOnSet(g, P) = SumFunctionOnSet(f, P)
  <2>1. \A q \in P : g[q] = f[q]
    BY <1>1, <1>2 DEF Unrevised
  <2> QED BY <1>1, <2>1, SumSame
<1> QED BY <1>2, <1>3, <1>4, <1>5, <1>6

\* Amounts and retentions, as numbers.
LEMMA RowNumbers ==
  ASSUME LedgerInv, NEW i \in Trx
  PROVE  /\ trx[i].amount \in Nat /\ trx[i].retention \in Nat /\ bill[i].released \in Nat
         /\ bill[i].status # "NONE" => Exists(i)
BY LedgerAssumption DEF LedgerInv, TypeOK, Transaction, Billing, SubledgerMatchesJournal, Exists,
                        InvoiceKinds

\* A row's bounds hold after a step by which no more is paid of it and, if any more is
\* released, no more than its retention.
LEMMA BoundsKept ==
  ASSUME BoundedInv, LedgerInv', Unrevised, NEW i \in Trx,
         PaymentsOf(i)' \subseteq PaymentsOf(i),
         bill'[i].released = bill[i].released \/ bill'[i].released <= trx'[i].retention,
         bill[i].status = "NONE" => bill'[i].released = 0
  PROVE  PaidOn(i)' <= trx'[i].amount /\ bill'[i].released <= trx'[i].retention
<1> USE DEF BoundedInv
<1>1. /\ PaidOn(i)' <= PaidOn(i) /\ PaidOn(i)' \in Nat /\ PaidOn(i) \in Nat
      /\ bill[i].status = "NONE" => PaidOn(i) = 0
  BY PaidNoMore, PaymentsExist
<1>2. /\ trx'[i].amount \in Nat /\ trx'[i].retention \in Nat
      /\ trx[i].amount \in Nat /\ trx[i].retention \in Nat /\ bill[i].released \in Nat
  <2>1. trx'[i].amount \in Nat /\ trx'[i].retention \in Nat
    BY LedgerAssumption DEF LedgerInv, TypeOK, Transaction
  <2> QED BY <2>1, RowNumbers
<1>3. CASE bill[i].status = "NONE"
  BY <1>1, <1>2, <1>3
<1>4. CASE bill[i].status # "NONE"
  <2>1. trx'[i].amount = trx[i].amount /\ trx'[i].retention = trx[i].retention
    BY <1>4, RowNumbers DEF Unrevised
  <2>2. PaidOn(i) <= trx[i].amount /\ bill[i].released <= trx[i].retention
    BY DEF NoOverAllocation, WithinRetention
  <2> QED BY <1>1, <1>2, <2>1, <2>2
<1> QED BY <1>3, <1>4

\* A reversal in flight stays sound: the row that it will write is there to stay.
LEMMA ReversalsKept ==
  ASSUME BoundedInv, Unrevised, \A s \in Session : req'[s] = req[s] \/ req'[s] = Idle
  PROVE  SoundReversals'
<1> SUFFICES ASSUME NEW s \in Session, req'[s].op = "reverse", req'[s].touched # NoTrx
    PROVE req'[s].next.released <= trx'[req'[s].touched].retention
  BY DEF SoundReversals
<1>1. req'[s] = req[s] /\ req[s] \in Request
  BY IdleRequest DEF BoundedInv, LedgerInv, TypeOK
<1>2. req[s].touched \in Trx /\ bill[req[s].touched].status # "NONE"
  BY <1>1 DEF Request, BoundedInv, LedgerInv, InFlight, Flight
<1>3. Exists(req[s].touched)
  BY <1>2, RowNumbers DEF BoundedInv
<1> QED BY <1>1, <1>2, <1>3 DEF BoundedInv, SoundReversals, Unrevised

\* A step by which no invoice gains a payment keeps the bounds if what it writes to a row
\* is within the retention.
LEMMA BoundedStep ==
  ASSUME BoundedInv, LedgerInv', Unrevised, SoundReversals',
         \A t \in Trx : alloc'[t] \in {alloc[t], NoTrx},
         \A i \in Trx :
           /\ bill'[i].status = "NONE" => bill[i].status = "NONE"
           /\ bill'[i].released = bill[i].released \/ bill'[i].released <= trx'[i].retention
           /\ bill[i].status = "NONE" => bill'[i].released = 0
  PROVE  BoundedInv'
<1>1. ASSUME NEW i \in Trx
      PROVE  PaidOn(i)' <= trx'[i].amount /\ bill'[i].released <= trx'[i].retention
  <2>1. PaymentsOf(i)' \subseteq PaymentsOf(i)
    BY LedgerAssumption DEF PaymentsOf
  <2> QED BY <2>1, BoundsKept
<1>2. NoOverAllocation' /\ WithinRetention'
  BY <1>1 DEF NoOverAllocation, WithinRetention
<1>3. Unissued'
  BY DEF Unissued
<1> QED BY <1>2, <1>3 DEF BoundedInv

\* No action revises an amount or a retention.
LEMMA NothingRevised == ASSUME LedgerInv, [Next]_ledgerVars PROVE Unrevised
<1> USE DEF Unrevised
<1>1. trx \in [Trx -> Transaction] /\ \A p \in Unused : p \in Trx /\ ~Exists(p)
  BY DEF LedgerInv, TypeOK, Unused
<1>2. CASE UNCHANGED trx
  BY <1>2
<1>3. ASSUME NEW p \in Unused, NEW n, trx' = [trx EXCEPT ![p] = n] PROVE Unrevised
  BY <1>1, <1>3
<1>4. CASE CreateTransaction
  BY <1>3, <1>4 DEF CreateTransaction
<1>5. ASSUME NEW s \in Session, Commit(s) PROVE Unrevised
  <2>1. CASE CommitPost(s)
    BY <1>1, <2>1 DEF CommitPost, Transaction
  <2>2. CASE CommitPay(s)
    BY <1>3, <2>2 DEF CommitPay
  <2>3. CASE CommitRelease(s)
    BY <1>3, <2>3 DEF CommitRelease
  <2>4. CASE CommitReverse(s)
    <3> DEFINE t == req[s].trx
    <3>1. PICK r \in Unused, n \in {NewTransaction("REVERSAL", trx[t].amount, 0, "POSTED",
                                      NoFlags, t)} :
            trx' = [trx EXCEPT ![r] = n, ![t].status = "REVERSED"]
      BY <2>4 DEF CommitReverse
    <3>2. t \in Trx /\ Exists(t)
      BY <2>4 DEF CommitReverse, LedgerInv, InFlight, Flight
    <3> HIDE DEF t
    <3>3. \A x \in Trx : x # r /\ x # t => trx'[x] = trx[x]
      BY <1>1, <3>1
    <3>4. trx'[t] = [trx[t] EXCEPT !.status = "REVERSED"]
      BY <1>1, <3>1, <3>2
    <3>5. trx'[t].amount = trx[t].amount /\ trx'[t].retention = trx[t].retention
      BY <1>1, <3>2, <3>4 DEF Transaction
    <3> QED BY <1>1, <3>3, <3>5
  <2>5. CASE CommitFlag(s)
    BY <1>1, <2>5 DEF CommitFlag, Transaction
  <2>6. CASE CommitResolve(s)
    BY <1>1, <2>6 DEF CommitResolve, Transaction
  <2> QED BY <1>5, <2>1, <2>2, <2>3, <2>4, <2>5, <2>6 DEF Commit
<1>6. ASSUME NEW s \in Session, Begin(s) \/ Abort(s) PROVE Unrevised
  BY <1>2, <1>6 DEF Begin, BeginPost, BeginPay, BeginRelease, BeginReverse, BeginFlag,
                    BeginResolve, Abort, books
<1>7. CASE UpdatePeriod \/ UNCHANGED ledgerVars
  BY <1>2, <1>7 DEF UpdatePeriod, ledgerVars, books
<1> QED BY <1>4, <1>5, <1>6, <1>7 DEF Next

\* A step that leaves invoices and allocations alone.
LEMMA BillsKept ==
  ASSUME BoundedInv, LedgerInv', Unrevised, UNCHANGED <<bill, alloc>>,
         SoundReversals' \/ \A s \in Session : req'[s] = req[s] \/ req'[s] = Idle
  PROVE  BoundedInv'
<1>1. SoundReversals'
  BY ReversalsKept
<1> QED BY <1>1, BoundedStep DEF BoundedInv, Unissued

LEMMA BeginBounded ==
  ASSUME BoundedInv, LedgerInv', Unrevised, NEW s \in Session, Begin(s) PROVE BoundedInv'
<1>1. UNCHANGED <<bill, alloc, trx>>
  BY DEF Begin, BeginPost, BeginPay, BeginRelease, BeginReverse, BeginFlag, BeginResolve, books
<1>2. CASE BeginReverse(s)
  <2>1. PICK t \in Trx :
          /\ Reversible(t)
          /\ Start(s, [Idle EXCEPT !.op = "reverse", !.trx = t, !.touched = Touched(t),
                         !.seen = Row(Touched(t)), !.next = Restored(t, Touched(t))])
    BY <1>2 DEF BeginReverse
  <2> DEFINE i == Touched(t)
  <2>2. ASSUME i # NoTrx PROVE Restored(t, i).released <= trx[i].retention
    <3>1. /\ i \in Trx /\ Row(i) = bill[i] /\ bill[i] \in Billing
          /\ trx[t].amount \in Nat /\ bill[i].released \in Nat /\ trx[i].retention \in Nat
      <4>1. i \in Trx
        BY <2>1, <2>2, RestoredRow DEF Reversible, BoundedInv
      <4> QED BY <2>2, <4>1, RowNumbers DEF BoundedInv, LedgerInv, TypeOK, Row
    <3>2. Restored(t, i).released \in {bill[i].released, Less(bill[i].released, trx[t].amount)}
      BY <2>2, <3>1 DEF Restored, Billing
    <3>3. Less(bill[i].released, trx[t].amount) <= bill[i].released
      BY <3>1 DEF Less
    <3>4. Less(bill[i].released, trx[t].amount) \in Nat
      BY <3>1 DEF Less
    <3>5. bill[i].released <= trx[i].retention
      BY <3>1 DEF BoundedInv, WithinRetention
    <3> HIDE DEF i
    <3> QED BY <3>1, <3>2, <3>3, <3>4, <3>5
  <2> DEFINE r == [Idle EXCEPT !.op = "reverse", !.trx = t, !.touched = i,
                     !.seen = Row(i), !.next = Restored(t, i)]
  <2>3. r.touched = i /\ r.next = Restored(t, i)
    BY DEF Idle
  <2>4. \A x \in Session : req'[x] = IF x = s THEN r ELSE req[x]
    BY <2>1 DEF Start, BoundedInv, LedgerInv, TypeOK
  <2> HIDE DEF r, i
  <2>5. SoundReversals'
    BY <1>1, <2>2, <2>3, <2>4 DEF SoundReversals, BoundedInv
  <2> QED BY <1>1, <2>5, BillsKept
<1>3. CASE ~BeginReverse(s)
  <2> DEFINE Plain == \A x \in Session : req'[x] = req[x] \/ req'[x].op # "reverse"
  <2>1. req \in [Session -> Request]
    BY DEF BoundedInv, LedgerInv, TypeOK
  <2>2. Plain
    <3> USE <2>1 DEF Start, Idle
    <3>1. CASE BeginPost(s) BY <3>1 DEF BeginPost
    <3>2. CASE BeginPay(s) BY <3>2 DEF BeginPay
    <3>3. CASE BeginRelease(s) BY <3>3 DEF BeginRelease
    <3>4. CASE BeginFlag(s) BY <3>4 DEF BeginFlag
    <3>5. CASE BeginResolve(s) BY <3>5 DEF BeginResolve
    <3> HIDE DEF Plain
    <3> QED BY <1>3, <3>1, <3>2, <3>3, <3>4, <3>5 DEF Begin
  <2>3. SoundReversals'
    BY <1>1, <2>2 DEF SoundReversals, BoundedInv
  <2> QED BY <1>1, <2>3, BillsKept
<1> QED BY <1>2, <1>3

LEMMA CommitPostBounded ==
  ASSUME BoundedInv, LedgerInv', Unrevised, NEW s \in Session, CommitPost(s) PROVE BoundedInv'
<1> DEFINE t == req[s].trx
<1>1. t \in Trx
  BY DEF CommitPost, BoundedInv, LedgerInv, InFlight, Flight
<1>2. \A i \in Trx : bill'[i] = bill[i] \/ bill'[i] = IssuedBill
  BY <1>1 DEF CommitPost, BoundedInv, LedgerInv, TypeOK
<1>3. SoundReversals'
  BY DoneRequests, ReversalsKept DEF CommitPost, BoundedInv, LedgerInv
<1>4. \A i \in Trx : trx'[i].retention \in Nat
  BY LedgerAssumption DEF LedgerInv, TypeOK, Transaction
<1> HIDE DEF t
<1>5. \A i \in Trx :
        /\ bill'[i].status = "NONE" => bill[i].status = "NONE"
        /\ bill'[i].released = bill[i].released \/ bill'[i].released <= trx'[i].retention
        /\ bill[i].status = "NONE" => bill'[i].released = 0
  BY <1>2, <1>4 DEF IssuedBill, BoundedInv, Unissued
<1> QED BY <1>3, <1>5, BoundedStep DEF CommitPost

\* Under its lock on the invoice a payment asks again what is left to pay.
LEMMA CommitPayBounded ==
  ASSUME BoundedInv, LedgerInv', Unrevised, NEW s \in Session, CommitPay(s) PROVE BoundedInv'
<1>1. PICK i \in Trx, a \in Nat :
        i = req[s].trx /\ a = req[s].amount /\ bill[i].status # "NONE"
  BY LedgerAssumption DEF CommitPay, BoundedInv, LedgerInv, InFlight, Flight, TypeOK, Request
<1>2. PaidOn(i) + a <= trx[i].amount - trx[i].retention + bill[i].released
  BY <1>1 DEF CommitPay, Allocable, Collectible
<1>3. PICK p \in Unused :
        /\ trx' = [trx EXCEPT ![p] = NewTransaction(PaymentFor(trx[i].kind), a, 0, "POSTED",
                                       NoFlags, NoTrx)]
        /\ alloc' = [alloc EXCEPT ![p] = i]
  BY <1>1 DEF CommitPay
<1>4. p \in Trx /\ ~Exists(p) /\ alloc[p] = NoTrx
  BY DEF Unused, BoundedInv, LedgerInv, Blank
<1>5. trx'[p].amount = a
  BY <1>3, <1>4 DEF BoundedInv, LedgerInv, TypeOK, NewTransaction
<1>6. PICK st \in {"UNPAID", "PARTIALLY_PAID", "PAID"} : bill' = [bill EXCEPT ![i].status = st]
  BY <1>1 DEF CommitPay, StatusWhenPaid
<1>7. \A x \in Trx : /\ bill'[x].released = bill[x].released
                     /\ bill'[x].status = "NONE" => bill[x].status = "NONE"
                     /\ x # i => bill'[x] = bill[x]
  BY <1>1, <1>6 DEF BoundedInv, LedgerInv, TypeOK, Billing
<1>8. /\ PaymentsOf(i)' = PaymentsOf(i) \cup {p}
      /\ \A x \in Trx : x # i => PaymentsOf(x)' = PaymentsOf(x)
  BY <1>1, <1>3, <1>4, LedgerAssumption DEF PaymentsOf, BoundedInv, LedgerInv, TypeOK
<1>9. NoOverAllocation' /\ WithinRetention'
  <2>1. PaidOn(i)' <= trx'[i].amount /\ bill'[i].released <= trx'[i].retention
    <3>1. PaidOn(i)' = a + PaidOn(i) /\ PaidOn(i) \in Nat
      BY <1>1, <1>5, <1>8, PaidMore, PaymentsExist DEF BoundedInv
    <3>2. /\ trx[i].amount \in Nat /\ trx[i].retention \in Nat /\ bill[i].released \in Nat
          /\ trx'[i].amount = trx[i].amount /\ trx'[i].retention = trx[i].retention
      BY <1>1, RowNumbers DEF BoundedInv, Unrevised
    <3>3. bill[i].released <= trx[i].retention
      BY <1>1 DEF BoundedInv, WithinRetention
    <3> QED BY <1>1, <1>2, <1>7, <3>1, <3>2, <3>3
  <2>2. ASSUME NEW x \in Trx, x # i
        PROVE  PaidOn(x)' <= trx'[x].amount /\ bill'[x].released <= trx'[x].retention
    BY <1>7, <1>8, <2>2, BoundsKept DEF BoundedInv, Unissued
  <2> QED BY <2>1, <2>2 DEF NoOverAllocation, WithinRetention
<1>10. Unissued'
  BY <1>1, <1>7 DEF Unissued, BoundedInv
<1>11. SoundReversals'
  BY DoneRequests, ReversalsKept DEF CommitPay, BoundedInv, LedgerInv
<1> QED BY <1>9, <1>10, <1>11 DEF BoundedInv

LEMMA CommitReleaseBounded ==
  ASSUME BoundedInv, LedgerInv', Unrevised, NEW s \in Session, CommitRelease(s)
  PROVE BoundedInv'
<1>1. PICK i \in Trx, a \in Nat :
        i = req[s].trx /\ a = req[s].amount /\ bill[i].status # "NONE"
  BY LedgerAssumption DEF CommitRelease, BoundedInv, LedgerInv, InFlight, Flight, TypeOK, Request
<1>2. /\ bill' = [bill EXCEPT ![i].released = @ + a]
      /\ bill[i].released + a <= trx[i].retention
      /\ UNCHANGED alloc
  BY <1>1 DEF CommitRelease, Releasable
<1>3. trx'[i].retention = trx[i].retention
  BY <1>1, RowNumbers DEF Unrevised, BoundedInv
<1>4. SoundReversals'
  BY DoneRequests, ReversalsKept DEF CommitRelease, BoundedInv, LedgerInv
<1>5. \A x \in Trx :
        /\ bill'[x].status = bill[x].status
        /\ bill'[x].released = bill[x].released \/ bill'[x].released <= trx'[x].retention
        /\ bill[x].status = "NONE" => bill'[x].released = 0
  <2> SUFFICES ASSUME NEW x \in Trx
      PROVE /\ bill'[x].status = bill[x].status
            /\ bill'[x].released = bill[x].released \/ bill'[x].released <= trx'[x].retention
            /\ bill[x].status = "NONE" => bill'[x].released = 0
    OBVIOUS
  <2>1. bill \in [Trx -> Billing]
    BY DEF BoundedInv, LedgerInv, TypeOK
  <2>2. CASE x = i
    BY <1>1, <1>2, <1>3, <2>1, <2>2 DEF Billing
  <2>3. CASE x # i
    BY <1>2, <2>1, <2>3 DEF BoundedInv, Unissued
  <2> QED BY <2>2, <2>3
<1> QED BY <1>2, <1>4, <1>5, BoundedStep

\* What a reversal writes back is what it found or what its request holds.
LEMMA CommitReverseBounded ==
  ASSUME BoundedInv, LedgerInv', Unrevised, NEW s \in Session, CommitReverse(s)
  PROVE BoundedInv'
<1>1. SoundReversals'
  BY DoneRequests, ReversalsKept DEF CommitReverse, BoundedInv, LedgerInv
<1>2. \A t \in Trx : alloc'[t] \in {alloc[t], NoTrx}
  BY DEF CommitReverse, Freed, BoundedInv, LedgerInv, TypeOK
<1>3. \A x \in Trx :
        /\ bill'[x].status = "NONE" => bill[x].status = "NONE"
        /\ bill'[x].released = bill[x].released \/ bill'[x].released <= trx'[x].retention
        /\ bill[x].status = "NONE" => bill'[x].released = 0
  <2>1. CASE UNCHANGED bill
    BY <2>1 DEF BoundedInv, Unissued
  <2>2. CASE req[s].touched # NoTrx
    <3>1. PICK i \in Trx : i = req[s].touched /\ bill[i].status # "NONE"
                           /\ req[s].next.status # "NONE"
                           /\ req[s].next.released <= trx[i].retention
      BY <2>2 DEF CommitReverse, BoundedInv, LedgerInv, InFlight, Flight, SoundReversals, TypeOK,
                  Request
    <3> DEFINE b == Written(bill[i], req[s].seen, req[s].next)
    <3>2. bill' = [bill EXCEPT ![i] = b]
      BY <2>2, <3>1 DEF CommitReverse
    <3>3. /\ b.status # "NONE"
          /\ b.released \in {bill[i].released, req[s].next.released}
      BY <3>1 DEF Written
    <3>4. trx'[i].retention = trx[i].retention /\ bill \in [Trx -> Billing]
      BY <3>1, RowNumbers DEF Unrevised, BoundedInv, LedgerInv, TypeOK
    <3> HIDE DEF b
    <3> QED BY <3>1, <3>2, <3>3, <3>4 DEF BoundedInv, Unissued
  <2> QED BY <2>1, <2>2 DEF CommitReverse
<1> QED BY <1>1, <1>2, <1>3, BoundedStep

LEMMA BoundedInit == ASSUME Init PROVE BoundedInv
<1>1. LedgerInv
  BY InitInv
<1>2. \A i \in Trx : bill[i] = NoBill
  BY DEF Init
<1>3. NoOverAllocation /\ WithinRetention
  BY <1>1, <1>2, PaymentsExist, RowNumbers DEF NoOverAllocation, WithinRetention, NoBill
<1>4. Unissued /\ SoundReversals
  BY <1>2, IdleRequest DEF Init, Unissued, NoBill, SoundReversals
<1> QED BY <1>1, <1>3, <1>4 DEF BoundedInv

LEMMA BoundedNext == ASSUME BoundedInv, [Next]_ledgerVars PROVE BoundedInv'
<1>1. LedgerInv' /\ Unrevised
  BY NextInv, NothingRevised DEF BoundedInv
<1>2. CASE CreateTransaction \/ UpdatePeriod \/ UNCHANGED ledgerVars
  BY <1>1, <1>2, BillsKept DEF CreateTransaction, UpdatePeriod, ledgerVars, books
<1>3. ASSUME NEW s \in Session, Begin(s) \/ Commit(s) \/ Abort(s) PROVE BoundedInv'
  <2>1. CASE Begin(s)
    BY <1>1, <2>1, BeginBounded
  <2>2. CASE CommitPost(s)
    BY <1>1, <2>2, CommitPostBounded
  <2>3. CASE CommitPay(s)
    BY <1>1, <2>3, CommitPayBounded
  <2>4. CASE CommitRelease(s)
    BY <1>1, <2>4, CommitReleaseBounded
  <2>5. CASE CommitReverse(s)
    BY <1>1, <2>5, CommitReverseBounded
  <2>6. CASE CommitFlag(s) \/ CommitResolve(s) \/ Abort(s)
    <3>1. UNCHANGED <<bill, alloc>> /\ Done(s)
      BY <2>6 DEF CommitFlag, CommitResolve, Abort, books
    <3> QED BY <1>1, <3>1, DoneRequests, BillsKept DEF BoundedInv, LedgerInv
  <2> QED BY <1>3, <2>1, <2>2, <2>3, <2>4, <2>5, <2>6 DEF Commit
<1> QED BY <1>2, <1>3 DEF Next

\* FIN-001: however many sessions record payments, release retention and reverse what was
\* recorded, deciding on what they read before the others committed, an invoice is never paid
\* beyond its amount.
THEOREM LedgerNoOverAllocation == LedgerSpec => []NoOverAllocation
<1>1. BoundedInv => NoOverAllocation
  BY DEF BoundedInv
<1> QED BY <1>1, BoundedInit, BoundedNext, PTL DEF LedgerSpec
=============================================================================
