------------------------------ MODULE MCLedger ------------------------------
(***************************************************************************)
(* Instances of Ledger for TLC.  Transactions and sessions have no order,  *)
(* so permuting either changes nothing.                                    *)
(***************************************************************************)
EXTENDS Ledger, TLC

Symmetry == Permutations(Trx) \cup Permutations(Session)
=============================================================================
