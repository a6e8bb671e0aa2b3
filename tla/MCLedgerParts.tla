---------------------------- MODULE MCLedgerParts ----------------------------
(***************************************************************************)
(* The ledger in three parts, small enough for TLC: each behaviour of      *)
(* Parts plays one of them.  In "payments" two sessions pay, release and   *)
(* reverse invoices of two units; in "review" they post, flag, resolve and *)
(* reverse bills and transfers of one unit; in "closing" the period opens  *)
(* and closes under whatever one session does.                             *)
(***************************************************************************)
EXTENDS MCLedger

VARIABLE part

vars == <<part, ledgerVars>>

Only(kinds) == \A t \in Trx : trx'[t].kind \in InvoiceKinds \cup OtherKinds => trx'[t].kind \in kinds
Units(n) == \A t \in Trx : trx'[t].kind \in InvoiceKinds \cup OtherKinds => trx'[t].amount = n
Unflagged == \A t \in Trx : trx'[t].flags = NoFlags
NoPayments == \A s \in Session : req'[s].op # "pay"
Rows(n) == Cardinality({t \in Trx : trx'[t].kind # "NONE"}) <= n
OneAtATime == Cardinality({s \in Session : req'[s].op # "idle"}) <= 1

PartsInit == Init /\ part \in {"payments", "review", "closing"}

PartsNext ==
  /\ UNCHANGED part
  /\ \/ /\ part = "payments"
        /\ Next /\ Only({"CUSTOMER_INVOICE"}) /\ Units(2) /\ Unflagged /\ UNCHANGED period
     \/ /\ part = "review"
        /\ Next /\ Only({"VENDOR_BILL", "INTERBANK_TRANSFER"}) /\ Units(1) /\ Rows(3) /\ NoPayments
        /\ UNCHANGED period
     \/ /\ part = "closing"
        /\ Next /\ Only({"CUSTOMER_INVOICE", "VENDOR_BILL"}) /\ Units(1) /\ Unflagged /\ Rows(2) /\ OneAtATime

Parts == PartsInit /\ [][PartsNext]_vars
=============================================================================
