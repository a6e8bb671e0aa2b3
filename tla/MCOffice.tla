------------------------------- MODULE MCOffice -------------------------------
(***************************************************************************)
(* The office for TLC: the register of fixed assets, the bank statements,  *)
(* the books with their reports and the matching of a document share no    *)
(* state, so a behaviour picks one of them and leaves the others at their  *)
(* initial states.  The sizes of the state graphs add up instead of        *)
(* multiplying.                                                            *)
(***************************************************************************)
EXTENDS FixedAssets, BankReconciliation, Books, Matching, TLC

CONSTANTS i1, i2, j1, v1, v2, t1, r1, a1, kas, bca

VARIABLE part

vars == <<part, assetVars, bankVars, booksVars, matchVars>>

-----------------------------------------------------------------------------
\* Assets: two dates in the first month, a closed last month.
MCMonthOf == 1 :> 1 @@ 2 :> 1 @@ 3 :> 2 @@ 4 :> 3
MCCost == 1 :> 3 @@ 2 :> 2
MCAvailableFrom == 1 :> 1 @@ 2 :> 2

\* Statements: two files of one account, one line without an amount.
MCAccountOf == i1 :> a1 @@ i2 :> a1
MCStatementLine(i, d, r, s, a) == [import |-> i, date |-> d, ref |-> r, side |-> s, amount |-> a]
MCLineOf ==
  1 :> MCStatementLine(i1, 1, r1, "IN", 2) @@ 2 :> MCStatementLine(i1, 1, NoReference, "IN", 2)
    @@ 3 :> MCStatementLine(i2, 1, r1, "OUT", 2) @@ 4 :> MCStatementLine(i2, 1, NoReference, "NONE", 0)
MCFace(k, d, r, s, a) == [kind |-> k, account |-> a1, date |-> d, ref |-> r, side |-> s, amount |-> a]
MCFaceOf ==
  j1 :> MCFace("JOURNAL_LINE", 1, NoReference, "IN", 2) @@ v1 :> MCFace("MOVEMENT", 1, r1, "IN", 2)
    @@ v2 :> MCFace("MOVEMENT", 1, r1, "OUT", 2) @@ t1 :> MCFace("TRANSACTION", 1, NoReference, "IN", 2)

\* Books: one order for each posting rule at least, two years of one day.
MCCostAllocation(m, p, c, x) ==
  [amount |-> m, project |-> p, cost |-> c, category |-> x, side |-> "DR", code |-> 0]
MCLeg(s, c, m, p) ==
  [amount |-> m, project |-> p, cost |-> "NONE", category |-> "NONE", side |-> s, code |-> c]
MCOrderOf(k, m, d, al, r, f, t, op) ==
  [type |-> k, amount |-> m, day |-> d, allocations |-> al, retention |-> r, from |-> f, to |-> t,
   opening |-> op]
MCPlain(k, d) == MCOrderOf(k, 2, d, <<>>, 0, "bank", "NONE", FALSE)
MCYearStart == [d \in 1..2 |-> d]
MCNewAccounts ==
  5201 :> Account("EXPENSE", "DEBIT", "NONE") @@ 3102 :> Account("EQUITY", "CREDIT", "NONE")
MCOrder ==
  {MCOrderOf("DIRECT_PURCHASE", 2, 1,
     <<MCCostAllocation(1, "p1", "OTH", "NONE"), MCCostAllocation(1, "p1", "NONE", "NONE")>>,
     0, "bank", "NONE", FALSE),
   MCOrderOf("DIRECT_PURCHASE", 2, 2, <<MCCostAllocation(2, "p1", "MAT", "NONE")>>, 0, "NONE", "NONE", FALSE),
   MCOrderOf("VENDOR_BILL", 2, 1,
     <<MCCostAllocation(1, "p1", "OTH", "NONE"), MCCostAllocation(1, "NONE", "NONE", "PROFESSIONAL_SERVICE")>>,
     0, "NONE", "NONE", FALSE),
   MCOrderOf("SUBCONTRACTOR_BILL", 2, 1, <<MCCostAllocation(2, "p1", "SUB", "NONE")>>, 0, "bank", "NONE", FALSE),
   MCOrderOf("PAY_VENDOR_BILL", 1, 2, <<>>, 0, "bank", "NONE", FALSE),
   MCPlain("PAY_SUBCONTRACTOR", 2), MCPlain("VENDOR_ADVANCE", 1), MCPlain("SETTLE_VENDOR_ADVANCE", 2),
   MCOrderOf("CUSTOMER_INVOICE", 3, 1, <<MCCostAllocation(3, "p1", "NONE", "NONE")>>, 1, "NONE", "NONE", FALSE),
   MCOrderOf("RETENTION_RELEASE", 1, 2, <<>>, 0, "NONE", "NONE", FALSE),
   MCPlain("CUSTOMER_PAYMENT", 2), MCPlain("CUSTOMER_ADVANCE", 1),
   MCOrderOf("INTERBANK_TRANSFER", 2, 1, <<>>, 0, "bank", "kas", FALSE),
   MCOrderOf("JOURNAL_ADJUSTMENT", 4, 2, <<MCLeg("DR", 5201, 2, "p1"), MCLeg("CR", 1101, 2, "NONE")>>,
     0, "NONE", "NONE", FALSE),
   MCOrderOf("JOURNAL_ADJUSTMENT", 2, 1, <<MCLeg("DR", 1101, 2, "NONE"), MCLeg("CR", 3201, 1, "NONE"), MCLeg("CR", 3102, 1, "NONE")>>,
     0, "NONE", "NONE", TRUE),
   MCPlain("OWNER_CONTRIBUTION", 1), MCPlain("OWNER_WITHDRAWAL", 1), MCPlain("BANK_CHARGE", 2),
   MCPlain("FIXED_ASSET_DEPRECIATION", 2),
   MCOrderOf("ASSET_PURCHASE", 2, 2, <<>>, 0, "NONE", "NONE", FALSE), MCPlain("ASSET_PURCHASE", 1)}

\* Matching: a customer, a vendor and a party that is both.
MCRolesOf == 1 :> {"CUSTOMER"} @@ 2 :> {"VENDOR"} @@ 3 :> {"CUSTOMER", "VENDOR"}
MCTarget(k, p, q, r, d) ==
  [kind |-> k, party |-> p, project |-> q, total |-> 6, retention |-> r, day |-> d]
MCAbout ==
  11 :> MCTarget("INVOICE", 1, 101, 3, 1) @@ 12 :> MCTarget("INVOICE", 3, 102, 0, 1)
    @@ 21 :> MCTarget("BILL", 2, 101, 0, 1) @@ 22 :> MCTarget("BILL", 2, 102, 0, 40)
    @@ 23 :> MCTarget("BILL", 3, 101, 0, 1)
\* Whom a document names, and how.
MCNobody ==
  [taxIds |-> {}, accounts |-> {}, similar |-> [p \in Party |-> 0], issuer |-> FALSE, recipient |-> FALSE]
MCSomebody == [MCNobody EXCEPT !.issuer = TRUE, !.recipient = TRUE]
MCParties ==
  {[MCSomebody EXCEPT !.taxIds = {p}] : p \in Party}
    \cup {MCNobody, MCSomebody, [MCSomebody EXCEPT !.similar[2] = 92],
          [MCSomebody EXCEPT !.accounts = {1}, !.similar[3] = 97]}
MCNumber(i, n, c) == [invoice |-> i, number |-> n, codes |-> c]
MCNumbers ==
  {MCNumber(Blank, Blank, {}), MCNumber(11, Blank, {12}), MCNumber(Blank, 22, {21}),
   MCNumber(99, 22, {}), MCNumber(Blank, Blank, {21, 22}), MCNumber(21, Blank, {22})}
MCPlace(c, o, n, h, s, e, l) ==
  [projectCodes |-> c, orders |-> o, projectNames |-> n, hinted |-> h, spk |-> s,
   exactBanks |-> e, likelyBanks |-> l]
MCPlaces ==
  {MCPlace({}, {101}, {}, {}, 101, {}, {kas}), MCPlace({101}, {102}, {}, {}, Blank, {bca}, {kas, bca}),
   MCPlace({}, {}, {101}, {102}, Blank, {}, {})}
MCSums == {<<Blank, "NONE">>, <<6, "NONE">>, <<3, "SETTLEMENT">>, <<3, "DOWN_PAYMENT">>, <<9, "NONE">>}
MCDocument ==
  {p @@ n @@ q @@ [type |-> k, amount |-> m[1], intent |-> m[2], day |-> d] :
     p \in MCParties, n \in MCNumbers, q \in MCPlaces,
     k \in {"CUSTOMER_INVOICE", "VENDOR_INVOICE", "TRANSFER_PROOF"}, m \in MCSums, d \in {1, 50, 140}}
  \cup
  {p @@ MCNumber(Blank, Blank, {}) @@ MCPlace({}, {}, {}, {}, Blank, {}, {kas, bca})
     @@ [type |-> "RECEIPT", amount |-> 6, intent |-> "NONE", day |-> Blank] : p \in MCParties}

-----------------------------------------------------------------------------
Init ==
  /\ AssetsInit /\ BankInit /\ BooksInit /\ MatchInit
  /\ part \in {"assets", "bank", "books", "matching"}

Next ==
  \/ part = "assets" /\ AssetsNext /\ UNCHANGED <<part, bankVars, booksVars, matchVars>>
  \/ part = "bank" /\ BankNext /\ UNCHANGED <<part, assetVars, booksVars, matchVars>>
  \/ part = "books" /\ BooksNext /\ UNCHANGED <<part, assetVars, bankVars, matchVars>>
  \/ part = "matching" /\ MatchNext /\ UNCHANGED <<part, assetVars, bankVars, booksVars>>

Spec == Init /\ [][Next]_vars
=============================================================================
