---------------------------- MODULE BooksProofs ----------------------------
(***************************************************************************)
(* How the statements, the subledgers and the project reports of the books *)
(* are related, for every set of orders, accounts and days:                *)
(*                                                                         *)
(* - The statements.  BooksInv says that every entry balances and that the *)
(*   chart has the accounts the statements name.  The rest is about Net,   *)
(*   the debits less the credits of some accounts in some entries: it adds *)
(*   up over disjoint accounts and over disjoint entries and is nothing    *)
(*   over all accounts, and every statement is an expression in it.        *)
(* - The records.  HistoryInv says that the entries of an order alternate  *)
(*   between its legs and their reversal, BillsInv that an order is billed *)
(*   and applied only while it is posted once, and to one bill.            *)
(* - The ledger, order by order.  A weight is a number for each leg that   *)
(*   changes its sign when the leg is reversed; the balance of an account  *)
(*   and that of a project are sums of weights over the journal.  Entry    *)
(*   and reversal of an order cancel, so such a sum over the entries of    *)
(*   posting rules is the sum, over the orders in force, of what the legs  *)
(*   of their rule weigh (RuledBalance).  What they weigh is found rule by *)
(*   rule, and the subledgers add up the same orders.                      *)
(***************************************************************************)
EXTENDS Books, Sums, TLAPS

\* What a leg may be about.
ItsProject == Project \cup {"NONE"}
ItsCost == CostCategory \cup {"NONE"}
ItsAccount == PaymentAccount \cup {"NONE"}

\* Only cash legs name a payment account.
Leg ==
  {x \in [code : Int, dr : Int, cr : Int, project : ItsProject, cost : ItsCost, account : ItsAccount] :
     x.account # "NONE" => x.code = 1101}

\* And if no adjustment wrote it, only these accounts name a project.
ProjectCodes == {1101, 2101, 4101, 5101}
RuleLeg == {x \in Leg : x.project # "NONE" => x.code \in ProjectCodes}

LEMMA NotNamed == "NONE" \in ItsProject /\ "NONE" \in ItsCost /\ "NONE" \in ItsAccount
  BY DEF ItsProject, ItsCost, ItsAccount

LEMMA OrderFields ==
  ASSUME NEW t \in Order
  PROVE  /\ t.amount \in Nat /\ t.retention \in Nat /\ t.day \in Day
         /\ t.allocations \in Seq(Allocation)
         /\ t.from \in ItsAccount /\ t.to \in ItsAccount
  BY BooksAssumption DEF OrderRow, ItsAccount

LEMMA AllocationFields ==
  ASSUME NEW a \in Allocation
  PROVE  /\ a.amount \in Nat /\ a.code \in Int
         /\ a.project \in ItsProject /\ a.cost \in ItsCost
  BY DEF Allocation, ItsProject, ItsCost

LEMMA SidesAreLegs ==
  ASSUME NEW code \in Int, NEW m \in Int, NEW project \in ItsProject, NEW cost \in ItsCost,
         NEW account \in ItsAccount, account # "NONE" => code = 1101
  PROVE  /\ Debit(code, m, project, cost, account) \in Leg
         /\ Credit(code, m, project, cost, account) \in Leg
  BY DEF Debit, Credit, Leg

LEMMA SidesAreRuleLegs ==
  ASSUME NEW code \in Int, NEW m \in Int, NEW project \in ItsProject, NEW cost \in ItsCost,
         NEW account \in ItsAccount, account # "NONE" => code = 1101,
         project # "NONE" => code \in ProjectCodes
  PROVE  /\ Debit(code, m, project, cost, account) \in RuleLeg
         /\ Credit(code, m, project, cost, account) \in RuleLeg
<1>1. /\ Debit(code, m, project, cost, account).project = project
      /\ Debit(code, m, project, cost, account).code = code
      /\ Credit(code, m, project, cost, account).project = project
      /\ Credit(code, m, project, cost, account).code = code
  BY DEF Debit, Credit
<1> QED BY <1>1, SidesAreLegs DEF RuleLeg

LEMMA PlainLegs ==
  ASSUME NEW code \in Int, NEW m \in Int
  PROVE  Dr(code, m) \in RuleLeg /\ Cr(code, m) \in RuleLeg
  BY SidesAreRuleLegs, NotNamed DEF Dr, Cr

LEMMA CashLegs ==
  ASSUME NEW t \in Order
  PROVE  /\ CashIn(t) \in RuleLeg
         /\ \A p \in ItsProject : CashOut(t, p) \in RuleLeg
  BY SidesAreRuleLegs, OrderFields, NotNamed DEF CashIn, CashOut, ProjectCodes

LEMMA ExpenseCodes ==
  ASSUME NEW category
  PROVE  ExpenseAccount(category) \in Int
  BY DEF ExpenseAccount, ExpenseAccounts

LEMMA CostLegIsLeg == ASSUME NEW a \in Allocation PROVE CostLeg(a) \in RuleLeg
  BY ExpenseCodes, AllocationFields, NotNamed, SidesAreRuleLegs DEF CostLeg, ProjectCodes

LEMMA CostLegsAreLegs == ASSUME NEW t \in Order PROVE CostLegs(t) \in Seq(RuleLeg)
<1>1. CASE t.allocations = <<>>
  <2>1. Dr(5101, t.amount) \in RuleLeg
    BY OrderFields, PlainLegs
  <2> QED BY <1>1, <2>1 DEF CostLegs
<1>2. CASE t.allocations # <<>>
  <2>1. \A i \in DOMAIN t.allocations : CostLeg(t.allocations[i]) \in RuleLeg
    BY OrderFields, CostLegIsLeg
  <2>2. [i \in DOMAIN t.allocations |-> CostLeg(t.allocations[i])] \in Seq(RuleLeg)
    BY <2>1, OrderFields
  <2> QED BY <1>2, <2>2 DEF CostLegs, Lines
<1> QED BY <1>1, <1>2

LEMMA Projects ==
  ASSUME NEW t \in Order
  PROVE  OnlyProject(t) \in ItsProject /\ FirstProject(t) \in ItsProject
<1>1. Len(t.allocations) = 1 => t.allocations[1] \in Allocation
  BY OrderFields
<1>2. t.allocations # <<>> => t.allocations[1] \in Allocation
  BY OrderFields
<1> QED BY <1>1, <1>2, AllocationFields, NotNamed DEF OnlyProject, FirstProject

-----------------------------------------------------------------------------
(* Legs.                                                                   *)

LEMMA PairsOfLegs ==
  ASSUME NEW x \in RuleLeg, NEW y \in RuleLeg
  PROVE  <<x>> \in Seq(RuleLeg) /\ <<x, y>> \in Seq(RuleLeg)
  OBVIOUS

LEMMA MoreLegs ==
  ASSUME NEW s \in Seq(RuleLeg), NEW x \in RuleLeg
  PROVE  s \o <<x>> \in Seq(RuleLeg)
  OBVIOUS

LEMMA InvoiceLegs == ASSUME NEW t \in Order PROVE CustomerInvoice(t) \in Seq(RuleLeg)
<1> DEFINE revenue == [i \in DOMAIN t.allocations |->
                         Credit(4101, t.allocations[i].amount, t.allocations[i].project, "NONE", "NONE")]
           first == IF t.amount - t.retention > 0 THEN <<Dr(1201, t.amount - t.retention)>> ELSE <<>>
           second == IF t.retention > 0 THEN <<Dr(1202, t.retention)>> ELSE <<>>
           third == IF t.allocations = <<>> THEN <<Cr(4101, t.amount)>> ELSE revenue
<1>1. CustomerInvoice(t) = first \o second \o third
  BY DEF CustomerInvoice, Lines
<1>2. first \in Seq(RuleLeg) /\ second \in Seq(RuleLeg) /\ <<Cr(4101, t.amount)>> \in Seq(RuleLeg)
  BY OrderFields, PlainLegs, PairsOfLegs
<1>3. revenue \in Seq(RuleLeg)
  <2>1. \A i \in DOMAIN t.allocations :
          Credit(4101, t.allocations[i].amount, t.allocations[i].project, "NONE", "NONE") \in RuleLeg
    BY OrderFields, AllocationFields, NotNamed, SidesAreRuleLegs DEF ProjectCodes
  <2> QED BY <2>1, OrderFields
<1>4. third \in Seq(RuleLeg)
  BY <1>2, <1>3
<1> HIDE DEF first, second, third
<1>5. first \o second \in Seq(RuleLeg)
  BY <1>2
<1> QED BY <1>1, <1>4, <1>5

LEMMA AdjustmentLegs == ASSUME NEW t \in Order PROVE JournalAdjustment(t) \in Seq(Leg)
<1> DEFINE leg(a) == IF a.side = "CR" THEN Credit(a.code, a.amount, a.project, a.cost, "NONE")
                     ELSE Debit(a.code, a.amount, a.project, a.cost, "NONE")
<1>1. \A i \in DOMAIN t.allocations : leg(t.allocations[i]) \in Leg
  BY OrderFields, AllocationFields, NotNamed, SidesAreLegs
<1>2. [i \in DOMAIN t.allocations |-> leg(t.allocations[i])] \in Seq(Leg)
  <2> HIDE DEF leg
  <2> QED BY <1>1, OrderFields
<1> QED BY <1>2 DEF JournalAdjustment, Lines

\* Whatever other rule an order falls under, its entry consists of such legs.
LEMMA RulesYieldRuleLegs ==
  ASSUME NEW t \in Order, t.type \in PostingRuleTypes, t.type # "JOURNAL_ADJUSTMENT"
  PROVE  JournalLegs(t) \in Seq(RuleLeg)
<1> DEFINE p == OnlyProject(t)
           q == FirstProject(t)
<1>1. t.amount \in Int /\ p \in ItsProject /\ q \in ItsProject /\ t.to \in ItsAccount
  BY OrderFields, Projects
<1>2. /\ CashIn(t) \in RuleLeg /\ CashOut(t, p) \in RuleLeg /\ CashOut(t, q) \in RuleLeg
      /\ CashOut(t, "NONE") \in RuleLeg
  BY <1>1, CashLegs, NotNamed
<1>3. \A c \in Int : Dr(c, t.amount) \in RuleLeg /\ Cr(c, t.amount) \in RuleLeg
  BY <1>1, PlainLegs
<1>4. /\ Debit(2101, t.amount, q, "NONE", "NONE") \in RuleLeg
      /\ Debit(1101, t.amount, "NONE", "NONE", t.to) \in RuleLeg
  BY <1>1, SidesAreRuleLegs, NotNamed DEF ProjectCodes
<1>5. /\ DirectPurchase(t) \in Seq(RuleLeg) /\ VendorBill(t) \in Seq(RuleLeg)
      /\ SettleVendorAdvance(t) \in Seq(RuleLeg)
  BY <1>2, <1>3, CostLegsAreLegs, MoreLegs DEF DirectPurchase, VendorBill, SettleVendorAdvance
<1>6. PayVendorBill(t) \in Seq(RuleLeg) /\ InterbankTransfer(t) \in Seq(RuleLeg)
  BY <1>2, <1>4, PairsOfLegs DEF PayVendorBill, InterbankTransfer
<1>7. /\ VendorAdvance(t) \in Seq(RuleLeg) /\ RetentionRelease(t) \in Seq(RuleLeg)
      /\ CustomerPayment(t) \in Seq(RuleLeg) /\ CustomerAdvance(t) \in Seq(RuleLeg)
      /\ OwnerContribution(t) \in Seq(RuleLeg) /\ OwnerWithdrawal(t) \in Seq(RuleLeg)
      /\ BankCharge(t) \in Seq(RuleLeg) /\ Depreciation(t) \in Seq(RuleLeg)
      /\ AssetPurchase(t) \in Seq(RuleLeg)
  BY <1>2, <1>3, PairsOfLegs
  DEF VendorAdvance, RetentionRelease, CustomerPayment, CustomerAdvance, OwnerContribution,
      OwnerWithdrawal, BankCharge, Depreciation, AssetPurchase
<1>8. CustomerInvoice(t) \in Seq(RuleLeg)
  BY InvoiceLegs
<1> HIDE DEF p, q
<1> QED BY <1>5, <1>6, <1>7, <1>8 DEF JournalLegs, PostingRuleTypes

LEMMA RulesYieldLegs ==
  ASSUME NEW t \in Order, t.type \in PostingRuleTypes
  PROVE  JournalLegs(t) \in Seq(Leg)
<1>1. ASSUME t.type = "JOURNAL_ADJUSTMENT"
      PROVE  JournalLegs(t) = JournalAdjustment(t)
  BY <1>1 DEF JournalLegs
<1>2. \A s \in Seq(RuleLeg) : s \in Seq(Leg)
  BY DEF RuleLeg
<1> QED BY <1>1, <1>2, RulesYieldRuleLegs, AdjustmentLegs

-----------------------------------------------------------------------------
(* The invariant.                                                          *)

EquityAccounts == {3101, 3201, 3301}

Section ==
  STRING \cup {"CURRENT_ASSET", "FIXED_ASSET", "CURRENT_LIABILITY", "LONG_TERM_LIABILITY", "EQUITY",
              "OPERATING_REVENUE", "OTHER_INCOME", "COGS", "OPERATING_EXPENSE", "OTHER_EXPENSE",
              "INCOME_TAX"}
Row ==
  [type : AccountTypes, normal : {"DEBIT", "CREDIT"}, section : Section, taxed : BOOLEAN,
   active : BOOLEAN]

ChartOK(rows) ==
  /\ IsFiniteSet(DOMAIN rows)
  /\ \A c \in DOMAIN rows : rows[c] \in Row
  /\ \A c \in EquityAccounts : c \in DOMAIN rows /\ rows[c].type = "EQUITY"
  /\ 1101 \in DOMAIN rows /\ 4101 \in DOMAIN rows
  /\ 5101 \in DOMAIN rows /\ rows[5101].type = "EXPENSE"

EntryOK(e) == e.day \in Int /\ e.legs \in Seq(Leg) /\ Balanced(e.legs)

BooksInv ==
  /\ ChartOK(chart)
  /\ IsFiniteSet(journal) /\ \A e \in journal : EntryOK(e)

LEMMA AccountIsRow ==
  ASSUME NEW type \in AccountTypes, NEW normal \in {"DEBIT", "CREDIT"}, NEW section \in Section
  PROVE  /\ Account(type, normal, section) \in Row
         /\ [Account(type, normal, section) EXCEPT !.taxed = TRUE] \in Row
  BY DEF Account, Row

LEMMA FiniteStandardChart == IsFiniteSet(DOMAIN StandardChart)
<1>1. DOMAIN StandardChart = {1101, 1201, 1202, 1301, 1401, 1501, 1502}
        \cup {2101, 2201, 2301, 2401, 2501, 3101, 3201, 3301, 4101, 4201}
        \cup {5101, 6101, 6102, 6103, 6104, 6105, 6106, 6107, 6108, 6199, 7101, 8101}
  BY DEF StandardChart, StandardAssets, StandardFunds, StandardCosts
<1>2. PICK n \in Int : n = 9999
  OBVIOUS
<1>3. DOMAIN StandardChart \subseteq 1..n
  BY <1>1, <1>2
<1>4. IsFiniteSet(1..n)
  BY FS_Interval
<1> QED BY <1>3, <1>4, FS_Subset

LEMMA StandardRows ==
  /\ \A c \in DOMAIN StandardAssets : StandardAssets[c] \in Row
  /\ \A c \in DOMAIN StandardFunds : StandardFunds[c] \in Row
  /\ \A c \in DOMAIN StandardCosts : StandardCosts[c] \in Row
<1>1. ASSUME NEW c \in DOMAIN StandardAssets PROVE StandardAssets[c] \in Row
  <2>1. \A n \in {"DEBIT", "CREDIT"}, s \in {"FIXED_ASSET", "CURRENT_ASSET"} :
          Account("ASSET", n, s) \in Row
    BY AccountIsRow DEF AccountTypes, Section
  <2>2. CASE c \in {1101, 1201, 1202, 1301, 1401}
    BY <2>1, <2>2 DEF StandardAssets
  <2>3. CASE c = 1501
    BY <2>1, <2>3 DEF StandardAssets
  <2>4. CASE c = 1502
    BY <2>1, <2>4 DEF StandardAssets
  <2> QED BY <2>2, <2>3, <2>4 DEF StandardAssets
<1>2. ASSUME NEW c \in DOMAIN StandardFunds PROVE StandardFunds[c] \in Row
  <2>1. /\ Account("LIABILITY", "CREDIT", "CURRENT_LIABILITY") \in Row
        /\ Account("LIABILITY", "CREDIT", "LONG_TERM_LIABILITY") \in Row
        /\ Account("EQUITY", "CREDIT", "EQUITY") \in Row
        /\ Account("EQUITY", "DEBIT", "EQUITY") \in Row
        /\ Account("REVENUE", "CREDIT", "OPERATING_REVENUE") \in Row
        /\ Account("REVENUE", "CREDIT", "OTHER_INCOME") \in Row
    BY AccountIsRow DEF AccountTypes, Section
  <2> QED BY <2>1 DEF StandardFunds
<1>3. ASSUME NEW c \in DOMAIN StandardCosts PROVE StandardCosts[c] \in Row
  <2>1. /\ \A s \in {"COGS", "OTHER_EXPENSE", "OPERATING_EXPENSE"} :
             Account("EXPENSE", "DEBIT", s) \in Row
        /\ \A s \in {"INCOME_TAX", "OPERATING_EXPENSE"} :
             [Account("EXPENSE", "DEBIT", s) EXCEPT !.taxed = TRUE] \in Row
    BY AccountIsRow DEF AccountTypes, Section
  <2> QED BY <2>1 DEF StandardCosts
<1> QED BY <1>1, <1>2, <1>3

LEMMA ChartInit == ChartOK(StandardChart)
<1>1. \A c \in DOMAIN StandardChart : StandardChart[c] \in Row
  BY StandardRows DEF StandardChart
<1>2. \A c \in EquityAccounts : /\ c \notin DOMAIN StandardAssets /\ c \notin DOMAIN StandardCosts
                                /\ c \in DOMAIN StandardFunds
  BY DEF StandardAssets, StandardFunds, StandardCosts, EquityAccounts
<1>3. \A c \in EquityAccounts : c \in DOMAIN StandardChart /\ StandardChart[c] = StandardFunds[c]
  BY <1>2 DEF StandardChart
<1>4. \A c \in EquityAccounts : StandardFunds[c].type = "EQUITY"
  BY DEF EquityAccounts, StandardFunds, Account
<1>5. 1101 \in DOMAIN StandardChart /\ 4101 \in DOMAIN StandardChart
  BY DEF StandardChart, StandardAssets, StandardFunds
<1>6. /\ 5101 \notin DOMAIN StandardAssets /\ 5101 \notin DOMAIN StandardFunds
      /\ 5101 \in DOMAIN StandardCosts
  BY DEF StandardAssets, StandardFunds, StandardCosts
<1>7. 5101 \in DOMAIN StandardChart /\ StandardChart[5101] = StandardCosts[5101]
  BY <1>6 DEF StandardChart
<1>8. StandardCosts[5101].type = "EXPENSE"
  BY DEF StandardCosts, Account
<1> QED BY <1>1, <1>3, <1>4, <1>5, <1>7, <1>8, FiniteStandardChart DEF ChartOK

LEMMA CreateKeeps ==
  ASSUME BooksInv, NEW c \in DOMAIN NewAccounts, CreateAccount(c)
  PROVE  BooksInv'
<1>1. /\ DOMAIN chart' = DOMAIN chart \cup {c} /\ c \notin DOMAIN chart
      /\ \A x \in DOMAIN chart : chart'[x] = chart[x]
      /\ chart'[c] = NewAccounts[c]
  BY DEF CreateAccount
<1>2. IsFiniteSet(DOMAIN chart \cup {c})
  BY FS_AddElement DEF BooksInv, ChartOK
<1>3. NewAccounts[c] \in Row
  BY BooksAssumption DEF AccountRow, Row, Section
<1>4. ChartOK(chart')
  BY <1>1, <1>2, <1>3 DEF BooksInv, ChartOK
<1> QED BY <1>4 DEF BooksInv, CreateAccount, EntryOK

LEMMA UpdateKeeps ==
  ASSUME BooksInv, NEW c, UpdateAccount(c)
  PROVE  BooksInv'
<1>1. /\ DOMAIN chart' = DOMAIN chart /\ c \in DOMAIN chart
      /\ \A x \in DOMAIN chart : x # c => chart'[x] = chart[x]
      /\ chart'[c] = [chart[c] EXCEPT !.active = ~chart[c].active]
  BY DEF UpdateAccount
<1>2. chart[c] \in Row
  BY <1>1 DEF BooksInv, ChartOK
<1>3. [chart[c] EXCEPT !.active = ~chart[c].active] \in Row
  BY <1>2 DEF Row
<1>4. [chart[c] EXCEPT !.active = ~chart[c].active].type = chart[c].type
  BY <1>2 DEF Row
<1>5. ChartOK(chart')
  <2>1. chart'[c] \in Row /\ chart'[c].type = chart[c].type
    BY <1>1, <1>3, <1>4
  <2>2. ChartOK(chart)
    BY DEF BooksInv
  <2>3. \A x \in DOMAIN chart : chart'[x] \in Row /\ chart'[x].type = chart[x].type
    <3> SUFFICES ASSUME NEW x \in DOMAIN chart, x # c
                 PROVE  chart'[x] \in Row /\ chart'[x].type = chart[x].type
      BY <2>1
    <3> QED BY <1>1, <2>2 DEF ChartOK
  <2>4. IsFiniteSet(DOMAIN chart')
    BY <1>1, <2>2 DEF ChartOK
  <2> QED BY ONLY <1>1, <2>2, <2>3, <2>4 DEF ChartOK
<1> QED BY <1>5 DEF BooksInv, UpdateAccount, EntryOK

LEMMA NewEntryKeeps ==
  ASSUME BooksInv, NEW e, EntryOK(e), journal' = journal \cup {e}, UNCHANGED chart
  PROVE  BooksInv'
<1>1. IsFiniteSet(journal \cup {e})
  BY FS_AddElement DEF BooksInv
<1>2. \A x \in journal \cup {e} : EntryOK(x)
  BY DEF BooksInv
<1>3. IsFiniteSet(journal') /\ \A x \in journal' : EntryOK(x)
  BY <1>1, <1>2
<1> QED BY <1>3 DEF BooksInv, EntryOK

LEMMA PostKeeps ==
  ASSUME BooksInv, NEW t \in Order, PostTransaction(t)
  PROVE  BooksInv'
<1> DEFINE legs == JournalLegs(t)
           e == Entry(t, 0, t.day, legs)
<1>1. t.type \in PostingRuleTypes
  BY DEF PostTransaction, Establishable, Creatable, PostingRuleTypes
<1>2. legs \in Seq(Leg) /\ Balanced(legs)
  BY <1>1, RulesYieldLegs DEF PostTransaction
<1>3. t.day \in Int
  BY OrderFields, BooksAssumption
<1>4. EntryOK(e)
  <2> HIDE DEF legs
  <2> QED BY <1>2, <1>3 DEF EntryOK, Entry
<1>5. journal' = journal \cup {e} /\ UNCHANGED chart
  BY DEF PostTransaction
<1> HIDE DEF e
<1> QED BY <1>4, <1>5, NewEntryKeeps

LEMMA InvertedLeg ==
  ASSUME NEW x \in Leg
  PROVE  /\ Inverted(x) \in Leg
         /\ Inverted(x).dr = x.cr /\ Inverted(x).cr = x.dr /\ Inverted(x).code = x.code
         /\ Inverted(x).project = x.project /\ Inverted(x).cost = x.cost
         /\ Inverted(x).account = x.account
         /\ Inverted(Inverted(x)) = x
<1>1. x \in [code : Int, dr : Int, cr : Int, project : ItsProject, cost : ItsCost,
             account : ItsAccount]
  BY DEF Leg
<1>2. /\ Inverted(x) \in [code : Int, dr : Int, cr : Int, project : ItsProject, cost : ItsCost,
                           account : ItsAccount]
      /\ Inverted(x).dr = x.cr /\ Inverted(x).cr = x.dr /\ Inverted(x).code = x.code
      /\ Inverted(x).project = x.project /\ Inverted(x).cost = x.cost
      /\ Inverted(x).account = x.account
  BY <1>1 DEF Inverted
<1>3. Inverted(Inverted(x)) = x
  BY <1>1 DEF Inverted
<1>4. x.account # "NONE" => x.code = 1101
  BY DEF Leg
<1> QED BY <1>2, <1>3, <1>4 DEF Leg

LEMMA InvertedLegs ==
  ASSUME NEW legs \in Seq(Leg), Balanced(legs)
  PROVE  Lines(legs, Inverted) \in Seq(Leg) /\ Balanced(Lines(legs, Inverted))
<1> DEFINE D == DOMAIN legs
<1>1. PICK L : L = [i \in D |-> Inverted(legs[i])]
  OBVIOUS
<1>2. \A i \in D : legs[i] \in Leg
  OBVIOUS
<1>3. \A i \in D : L[i] \in Leg /\ L[i].dr = legs[i].cr /\ L[i].cr = legs[i].dr
  BY <1>1, <1>2, InvertedLeg
<1>4. L \in Seq(Leg) /\ DOMAIN L = D
  BY <1>1, <1>3
<1>5. IsFiniteSet(D)
  BY FS_Interval
<1>6. /\ SumFunctionOnSet([i \in D |-> L[i].dr], D) = SumFunctionOnSet([i \in D |-> legs[i].cr], D)
      /\ SumFunctionOnSet([i \in D |-> L[i].cr], D) = SumFunctionOnSet([i \in D |-> legs[i].dr], D)
  BY <1>3
<1>7. Balanced(L)
  BY <1>4, <1>6 DEF Balanced, SumLegs, DebitOf, CreditOf
<1>8. Lines(legs, Inverted) = L
  BY <1>1 DEF Lines
<1> QED BY <1>4, <1>7, <1>8

LEMMA ReverseKeeps ==
  ASSUME BooksInv, NEW e \in journal, NEW d \in Day, Reverse(e, d)
  PROVE  BooksInv'
<1>1. PICK L : L = Lines(e.legs, Inverted)
  OBVIOUS
<1>2. L \in Seq(Leg) /\ Balanced(L)
  BY <1>1, InvertedLegs DEF BooksInv, EntryOK
<1>3. PICK x : x = Entry(e.of, e.nth + 1, d, L)
  OBVIOUS
<1>4. EntryOK(x)
  BY <1>2, <1>3, BooksAssumption DEF EntryOK, Entry
<1>5. journal' = journal \cup {x} /\ UNCHANGED chart
  BY <1>1, <1>3 DEF Reverse
<1> QED BY <1>4, <1>5, NewEntryKeeps

LEMMA BooksInvInit == BooksInit => BooksInv
<1> SUFFICES ASSUME BooksInit PROVE BooksInv
  OBVIOUS
<1>1. IsFiniteSet({})
  BY FS_EmptySet
<1> QED BY <1>1, ChartInit DEF BooksInit, BooksInv

LEMMA BooksInvStep == BooksInv /\ [BooksNext]_booksVars => BooksInv'
<1> SUFFICES ASSUME BooksInv, [BooksNext]_booksVars PROVE BooksInv'
  OBVIOUS
<1>1. ASSUME NEW t \in Order, Book(t) \/ \E b \in billed : Settle(t, b)
      PROVE  BooksInv'
  <2>1. PostTransaction(t)
    BY <1>1 DEF Book, Settle
  <2> QED BY <2>1, PostKeeps
<1>2. CASE \E e \in journal, d \in Day : Reverse(e, d)
  BY <1>2, ReverseKeeps
<1>3. CASE \E c \in DOMAIN NewAccounts : CreateAccount(c)
  BY <1>3, CreateKeeps
<1>4. CASE \E c \in Retired : UpdateAccount(c)
  BY <1>4, UpdateKeeps
<1>5. CASE UNCHANGED booksVars
  BY <1>5 DEF booksVars, BooksInv, EntryOK
<1> QED BY <1>1, <1>2, <1>3, <1>4, <1>5 DEF BooksNext

-----------------------------------------------------------------------------
(* Debits less credits.                                                    *)

EntryNet(C, e) ==
  SumFunctionOnSet([i \in DOMAIN e.legs |->
                      IF e.legs[i].code \in C THEN e.legs[i].dr - e.legs[i].cr ELSE 0],
                   DOMAIN e.legs)

CodesOf(e) == {e.legs[i].code : i \in DOMAIN e.legs}

EntriesOK(E) == IsFiniteSet(E) /\ \A e \in E : EntryOK(e)

LEMMA LegsOf ==
  ASSUME NEW e, EntryOK(e)
  PROVE  /\ IsFiniteSet(DOMAIN e.legs)
         /\ \A i \in DOMAIN e.legs : e.legs[i].dr \in Int /\ e.legs[i].cr \in Int
<1>1. DOMAIN e.legs = 1..Len(e.legs) /\ Len(e.legs) \in Nat
  BY DEF EntryOK
<1>2. \A i \in DOMAIN e.legs : e.legs[i] \in Leg
  BY DEF EntryOK
<1>3. IsFiniteSet(DOMAIN e.legs)
  BY <1>1, FS_Interval
<1> QED BY <1>2, <1>3 DEF Leg

LEMMA EntryNetType == ASSUME NEW e, EntryOK(e), NEW C PROVE EntryNet(C, e) \in Int
<1>1. PICK f : f = [i \in DOMAIN e.legs |->
                      IF e.legs[i].code \in C THEN e.legs[i].dr - e.legs[i].cr ELSE 0]
  OBVIOUS
<1>2. \A i \in DOMAIN e.legs : f[i] \in Int
  BY <1>1, LegsOf
<1>3. SumFunctionOnSet(f, DOMAIN e.legs) \in Int
  BY <1>2, LegsOf, SumType
<1> QED BY <1>1, <1>3 DEF EntryNet

LEMMA EntryNetSplits ==
  ASSUME NEW e, EntryOK(e), NEW C, NEW D, C \cap D = {}
  PROVE  EntryNet(C \cup D, e) = EntryNet(C, e) + EntryNet(D, e)
<1>1. PICK f : f = [i \in DOMAIN e.legs |->
                      IF e.legs[i].code \in C \cup D THEN e.legs[i].dr - e.legs[i].cr ELSE 0]
  OBVIOUS
<1>2. PICK g : g = [i \in DOMAIN e.legs |->
                      IF e.legs[i].code \in C THEN e.legs[i].dr - e.legs[i].cr ELSE 0]
  OBVIOUS
<1>3. PICK h : h = [i \in DOMAIN e.legs |->
                      IF e.legs[i].code \in D THEN e.legs[i].dr - e.legs[i].cr ELSE 0]
  OBVIOUS
<1>4. \A i \in DOMAIN e.legs : g[i] \in Int /\ h[i] \in Int /\ f[i] = g[i] + h[i]
  BY <1>1, <1>2, <1>3, LegsOf
<1>5. SumFunctionOnSet(f, DOMAIN e.legs) =
        SumFunctionOnSet(g, DOMAIN e.legs) + SumFunctionOnSet(h, DOMAIN e.legs)
  BY <1>4, LegsOf, SumPlus
<1> QED BY <1>1, <1>2, <1>3, <1>5 DEF EntryNet

LEMMA EntryNetAgrees ==
  ASSUME NEW e, EntryOK(e), NEW C, NEW D, C \cap CodesOf(e) = D \cap CodesOf(e)
  PROVE  EntryNet(C, e) = EntryNet(D, e)
<1>1. \A i \in DOMAIN e.legs : e.legs[i].code \in C <=> e.legs[i].code \in D
  BY DEF CodesOf
<1>2. [i \in DOMAIN e.legs |-> IF e.legs[i].code \in C THEN e.legs[i].dr - e.legs[i].cr ELSE 0]
        = [i \in DOMAIN e.legs |-> IF e.legs[i].code \in D THEN e.legs[i].dr - e.legs[i].cr ELSE 0]
  BY <1>1
<1> QED BY <1>2 DEF EntryNet

LEMMA EntryNetBalances ==
  ASSUME NEW e, EntryOK(e), NEW C, CodesOf(e) \subseteq C
  PROVE  EntryNet(C, e) = 0
<1> DEFINE S == DOMAIN e.legs
<1>1. PICK f : f = [i \in S |-> IF e.legs[i].code \in C THEN e.legs[i].dr - e.legs[i].cr ELSE 0]
  OBVIOUS
<1>2. PICK g : g = [i \in S |-> e.legs[i].dr]
  OBVIOUS
<1>3. PICK h : h = [i \in S |-> e.legs[i].cr]
  OBVIOUS
<1>4. \A i \in S : e.legs[i].code \in C
  BY DEF CodesOf
<1>5. \A i \in S : h[i] \in Int /\ f[i] \in Int /\ g[i] = h[i] + f[i]
  BY <1>1, <1>2, <1>3, <1>4, LegsOf
<1>6. SumFunctionOnSet(g, S) = SumFunctionOnSet(h, S) + SumFunctionOnSet(f, S)
  BY <1>5, LegsOf, SumPlus
<1>7. SumFunctionOnSet(g, S) = SumFunctionOnSet(h, S)
  BY <1>2, <1>3 DEF EntryOK, Balanced, SumLegs, DebitOf, CreditOf
<1>8. SumFunctionOnSet(h, S) \in Int /\ SumFunctionOnSet(f, S) \in Int
  BY <1>5, LegsOf, SumType
<1>9. SumFunctionOnSet(f, S) = 0
  BY <1>6, <1>7, <1>8
<1> QED BY <1>1, <1>9 DEF EntryNet

LEMMA NetIs ==
  ASSUME NEW C, NEW E
  PROVE  Net(C, E) = SumFunctionOnSet([e \in E |-> EntryNet(C, e)], E)
  BY DEF Net, Sum, SumLegs, EntryNet

LEMMA NetType == ASSUME NEW E, EntriesOK(E), NEW C PROVE Net(C, E) \in Int
<1>1. PICK f : f = [e \in E |-> EntryNet(C, e)]
  OBVIOUS
<1>2. \A e \in E : f[e] \in Int
  BY <1>1, EntryNetType DEF EntriesOK
<1>3. SumFunctionOnSet(f, E) \in Int
  BY <1>2, SumType DEF EntriesOK
<1> QED BY <1>1, <1>3, NetIs

\* Two groups of accounts add up.
LEMMA NetSplits ==
  ASSUME NEW E, EntriesOK(E), NEW C, NEW D, C \cap D = {}
  PROVE  Net(C \cup D, E) = Net(C, E) + Net(D, E)
<1>1. PICK f : f = [e \in E |-> EntryNet(C \cup D, e)]
  OBVIOUS
<1>2. PICK g : g = [e \in E |-> EntryNet(C, e)]
  OBVIOUS
<1>3. PICK h : h = [e \in E |-> EntryNet(D, e)]
  OBVIOUS
<1>4. \A e \in E : g[e] \in Int /\ h[e] \in Int /\ f[e] = g[e] + h[e]
  BY <1>1, <1>2, <1>3, EntryNetType, EntryNetSplits DEF EntriesOK
<1>5. SumFunctionOnSet(f, E) = SumFunctionOnSet(g, E) + SumFunctionOnSet(h, E)
  BY <1>4, SumPlus DEF EntriesOK
<1> QED BY <1>1, <1>2, <1>3, <1>5, NetIs

\* Two groups of entries add up.
LEMMA NetUnion ==
  ASSUME NEW E, EntriesOK(E), NEW F, EntriesOK(F), E \cap F = {}, NEW C
  PROVE  Net(C, E \cup F) = Net(C, E) + Net(C, F)
<1>1. PICK f : f = [e \in E \cup F |-> EntryNet(C, e)]
  OBVIOUS
<1>2. PICK g : g = [e \in E |-> EntryNet(C, e)]
  OBVIOUS
<1>3. PICK h : h = [e \in F |-> EntryNet(C, e)]
  OBVIOUS
<1>4. \A e \in E \cup F : f[e] \in Int
  BY <1>1, EntryNetType DEF EntriesOK
<1>5. SumFunctionOnSet(f, E \cup F) = SumFunctionOnSet(f, E) + SumFunctionOnSet(f, F)
  BY <1>4, SumUnion DEF EntriesOK
<1>6. SumFunctionOnSet(f, E) = SumFunctionOnSet(g, E)
  BY <1>1, <1>2, SumSame DEF EntriesOK
<1>7. SumFunctionOnSet(f, F) = SumFunctionOnSet(h, F)
  BY <1>1, <1>3, SumSame DEF EntriesOK
<1> QED BY <1>1, <1>2, <1>3, <1>5, <1>6, <1>7, NetIs

\* Accounts that nothing was posted to do not count.
LEMMA NetAgrees ==
  ASSUME NEW E, EntriesOK(E), NEW C, NEW D,
         \A e \in E : C \cap CodesOf(e) = D \cap CodesOf(e)
  PROVE  Net(C, E) = Net(D, E)
<1>1. \A e \in E : EntryNet(C, e) = EntryNet(D, e)
  BY EntryNetAgrees DEF EntriesOK
<1>2. [e \in E |-> EntryNet(C, e)] = [e \in E |-> EntryNet(D, e)]
  BY <1>1
<1> QED BY <1>2, NetIs

\* All accounts together balance.
LEMMA NetBalances ==
  ASSUME NEW E, EntriesOK(E), NEW C, \A e \in E : CodesOf(e) \subseteq C
  PROVE  Net(C, E) = 0
<1>1. PICK f : f = [e \in E |-> EntryNet(C, e)]
  OBVIOUS
<1>2. \A e \in E : f[e] = 0
  BY <1>1, EntryNetBalances DEF EntriesOK
<1>3. SumFunctionOnSet(f, E) = 0
  BY <1>2, SumZero DEF EntriesOK
<1> QED BY <1>1, <1>3, NetIs

LEMMA NetOfNone == ASSUME NEW C PROVE Net(C, {}) = 0
  BY NetIs, SumEmpty

LEMMA NetOfNoAccount == ASSUME NEW E, EntriesOK(E) PROVE Net({}, E) = 0
<1>1. {} \cap {} = {} /\ {} \cup {} = {}
  OBVIOUS
<1>2. Net({}, E) = Net({}, E) + Net({}, E)
  BY <1>1, NetSplits
<1> QED BY <1>2, NetType

LEMMA NetOfEntry == ASSUME NEW e, EntryOK(e), NEW C PROVE Net(C, {e}) = EntryNet(C, e)
<1>1. PICK f : f = [x \in {e} |-> EntryNet(C, x)]
  OBVIOUS
<1>2. IsFiniteSet({}) /\ e \notin {} /\ {} \cup {e} = {e}
  BY FS_EmptySet
<1>3. \A x \in {} \cup {e} : f[x] \in Int
  BY <1>1, EntryNetType
<1>4. SumFunctionOnSet(f, {e}) = f[e] + SumFunctionOnSet(f, {})
  BY <1>2, <1>3, SumAdd
<1>5. f[e] = EntryNet(C, e) /\ f[e] \in Int
  BY <1>1, EntryNetType
<1>6. SumFunctionOnSet(f, {e}) = EntryNet(C, e)
  BY <1>4, <1>5, SumEmpty
<1> QED BY <1>1, <1>6, NetIs

\* The accounts of a group one by one.
LEMMA NetByAccount ==
  ASSUME NEW E, EntriesOK(E), NEW C, IsFiniteSet(C)
  PROVE  SumFunctionOnSet([c \in C |-> Net({c}, E)], C) = Net(C, E)
<1>1. PICK f : f = [c \in C |-> Net({c}, E)]
  OBVIOUS
<1>2. PICK g : g = [R \in SUBSET C |-> Net(R, E)]
  OBVIOUS
<1>3. g[{}] = 0
  BY <1>2, NetOfNoAccount
<1>4. ASSUME NEW R \in SUBSET C, NEW c \in C \ R
      PROVE  g[R \cup {c}] = f[c] + g[R]
  <2>1. R \cup {c} \in SUBSET C /\ {c} \cap R = {} /\ {c} \cup R = R \cup {c}
    OBVIOUS
  <2>2. Net(R \cup {c}, E) = Net({c}, E) + Net(R, E)
    BY <2>1, NetSplits
  <2> QED BY <1>1, <1>2, <2>1, <2>2
<1>5. \A c \in C : f[c] \in Int
  BY <1>1, NetType
<1>6. GrowsBy(g, f, C)
  BY <1>3, <1>4 DEF GrowsBy
<1>7. SumFunctionOnSet(f, C) = g[C]
  BY <1>5, <1>6, SumIs
<1> QED BY <1>1, <1>2, <1>7

\* The days of a period one by one.
LEMMA NetByDay ==
  ASSUME NEW E, EntriesOK(E), NEW C, NEW K, IsFiniteSet(K)
  PROVE  SumFunctionOnSet([k \in K |-> Net(C, {e \in E : e.day = k})], K)
           = Net(C, {e \in E : e.day \in K})
<1> DEFINE On(R) == {e \in E : e.day \in R}
<1>1. PICK f : f = [k \in K |-> Net(C, {e \in E : e.day = k})]
  OBVIOUS
<1>2. PICK g : g = [R \in SUBSET K |-> Net(C, On(R))]
  OBVIOUS
<1>3. \A F \in SUBSET E : EntriesOK(F)
  BY FS_Subset DEF EntriesOK
<1>4. g[{}] = 0
  <2>1. On({}) = {} /\ {} \in SUBSET K
    OBVIOUS
  <2>2. g[{}] = Net(C, {})
    BY <1>2, <2>1
  <2> QED BY <2>2, NetOfNone
<1>5. ASSUME NEW R \in SUBSET K, NEW k \in K \ R
      PROVE  g[R \cup {k}] = f[k] + g[R]
  <2> DEFINE F == {e \in E : e.day = k}
  <2>1. /\ R \cup {k} \in SUBSET K /\ On(R \cup {k}) = F \cup On(R)
        /\ F \cap On(R) = {} /\ F \in SUBSET E /\ On(R) \in SUBSET E
    OBVIOUS
  <2>2. EntriesOK(F) /\ EntriesOK(On(R))
    BY <1>3, <2>1
  <2>3. g[R \cup {k}] = Net(C, On(R \cup {k})) /\ g[R] = Net(C, On(R)) /\ f[k] = Net(C, F)
    BY <1>1, <1>2, <2>1
  <2> HIDE DEF F, On
  <2>4. Net(C, F \cup On(R)) = Net(C, F) + Net(C, On(R))
    BY <2>1, <2>2, NetUnion
  <2> QED BY <2>1, <2>3, <2>4
<1>6. \A k \in K : f[k] \in Int
  <2> SUFFICES ASSUME NEW k \in K PROVE Net(C, {e \in E : e.day = k}) \in Int
    BY <1>1
  <2> DEFINE F == {e \in E : e.day = k}
  <2>1. EntriesOK(F)
    BY <1>3
  <2> HIDE DEF F
  <2>2. Net(C, F) \in Int
    BY <2>1, NetType
  <2> QED BY <2>2 DEF F
<1>7. GrowsBy(g, f, K)
  BY <1>4, <1>5 DEF GrowsBy
<1>8. SumFunctionOnSet(f, K) = g[K]
  BY <1>6, <1>7, SumIs
<1>9. g[K] = Net(C, {e \in E : e.day \in K})
  BY <1>2
<1> QED BY <1>1, <1>8, <1>9

\* Inflow less outflow is what a group of accounts gained, whatever the entries.
LEMMA FlowsAreNet ==
  ASSUME NEW E, EntriesOK(E)
  PROVE  NetFlow(E) = Net(Cash, E)
<1> DEFINE flow(e) == Net(Cash, {e})
           P == {e \in E : flow(e) > 0}
           N == {e \in E : flow(e) < 0}
           Z == E \ (P \cup N)
<1>1. \A e \in E : flow(e) = EntryNet(Cash, e) /\ flow(e) \in Int
  BY NetOfEntry, EntryNetType DEF EntriesOK
<1>2. EntriesOK(P) /\ EntriesOK(N) /\ EntriesOK(Z) /\ EntriesOK(P \cup N)
  BY FS_Subset DEF EntriesOK
<1>3. P \cap N = {} /\ (P \cup N) \cap Z = {} /\ (P \cup N) \cup Z = E
  BY <1>1
<1>4. PICK p : p = [e \in P |-> flow(e)]
  OBVIOUS
<1>5. PICK n : n = [e \in N |-> flow(e)]
  OBVIOUS
<1>6. PICK m : m = [e \in N |-> -flow(e)]
  OBVIOUS
<1>7. SumFunctionOnSet(p, P) = Net(Cash, P)
  <2>1. p = [e \in P |-> EntryNet(Cash, e)]
    BY <1>1, <1>4
  <2> HIDE DEF P
  <2> QED BY <2>1, NetIs
<1>8. SumFunctionOnSet(n, N) = Net(Cash, N)
  <2>1. n = [e \in N |-> EntryNet(Cash, e)]
    BY <1>1, <1>5
  <2> HIDE DEF N
  <2> QED BY <2>1, NetIs
<1>9. SumFunctionOnSet(m, N) = -Net(Cash, N)
  <2>1. PICK z : z = [e \in N |-> 0]
    OBVIOUS
  <2>2. \A e \in N : m[e] \in Int /\ n[e] \in Int /\ z[e] = m[e] + n[e] /\ z[e] = 0
    BY <1>1, <1>5, <1>6, <2>1
  <2> HIDE DEF N
  <2>3. IsFiniteSet(N)
    BY <1>2 DEF EntriesOK
  <2>4. SumFunctionOnSet(z, N) = SumFunctionOnSet(m, N) + SumFunctionOnSet(n, N)
    BY <2>2, <2>3, SumPlus
  <2>5. SumFunctionOnSet(z, N) = 0
    BY <2>2, <2>3, SumZero
  <2>6. SumFunctionOnSet(m, N) \in Int /\ SumFunctionOnSet(n, N) \in Int
    BY <2>2, <2>3, SumType
  <2> QED BY <1>8, <2>4, <2>5, <2>6
<1>10. Net(Cash, Z) = 0
  <2>1. PICK f : f = [e \in Z |-> EntryNet(Cash, e)]
    OBVIOUS
  <2>2. \A e \in Z : f[e] = 0
    BY <1>1, <2>1
  <2> HIDE DEF Z
  <2>3. SumFunctionOnSet(f, Z) = 0
    BY <1>2, <2>2, SumZero DEF EntriesOK
  <2> QED BY <2>1, <2>3, NetIs
<1>11. NetFlow(E) = SumFunctionOnSet(p, P) - SumFunctionOnSet(m, N)
  BY <1>4, <1>6 DEF NetFlow, Total
<1> HIDE DEF P, N, Z
<1>12. Net(Cash, P \cup N) = Net(Cash, P) + Net(Cash, N)
  BY <1>2, <1>3, NetUnion
<1>13. Net(Cash, E) = Net(Cash, P \cup N) + Net(Cash, Z)
  BY <1>2, <1>3, NetUnion
<1>14. Net(Cash, P) \in Int /\ Net(Cash, N) \in Int
  BY <1>2, NetType
<1> QED BY <1>7, <1>9, <1>10, <1>11, <1>12, <1>13, <1>14

-----------------------------------------------------------------------------
(* The journal, day by day and account by account.                         *)

LEMMA JournalPart ==
  ASSUME BooksInv, NEW E \in SUBSET journal
  PROVE  EntriesOK(E) /\ \A e \in E : CodesOf(e) \subseteq UsedCodes
<1>1. \A e \in journal : CodesOf(e) \subseteq UsedCodes
  BY DEF UsedCodes, CodesOf
<1>2. IsFiniteSet(E)
  BY FS_Subset DEF BooksInv
<1> QED BY <1>1, <1>2 DEF BooksInv, EntriesOK

LEMMA Periods ==
  ASSUME NEW d \in Int, NEW y \in Int
  PROVE  /\ UpTo(d) \in SUBSET journal /\ Between(y, d) \in SUBSET journal
         /\ UpTo(y - 1) \in SUBSET journal
  BY DEF UpTo, Between

LEMMA NetOfYear ==
  ASSUME BooksInv, NEW d \in Int, NEW y \in Int, y <= d, NEW C
  PROVE  /\ Net(C, UpTo(d)) = Net(C, UpTo(y - 1)) + Net(C, Between(y, d))
         /\ Net(C, UpTo(d)) \in Int /\ Net(C, UpTo(y - 1)) \in Int /\ Net(C, Between(y, d)) \in Int
<1>1. \A e \in journal : e.day \in Int
  BY DEF BooksInv, EntryOK
<1>2. UpTo(d) = UpTo(y - 1) \cup Between(y, d) /\ UpTo(y - 1) \cap Between(y, d) = {}
  BY <1>1 DEF UpTo, Between
<1>3. EntriesOK(UpTo(d)) /\ EntriesOK(UpTo(y - 1)) /\ EntriesOK(Between(y, d))
  BY JournalPart, Periods
<1> QED BY <1>2, <1>3, NetUnion, NetType

\* An inactive account has nothing to show.
LEMMA NetOfActive ==
  ASSUME BooksInv, UsedCodes \subseteq ActiveAccounts, NEW E \in SUBSET journal, NEW C
  PROVE  Net(C \cap ActiveAccounts, E) = Net(C, E)
<1>1. EntriesOK(E) /\ \A e \in E : CodesOf(e) \subseteq ActiveAccounts
  BY JournalPart
<1>2. \A e \in E : (C \cap ActiveAccounts) \cap CodesOf(e) = C \cap CodesOf(e)
  BY <1>1
<1> QED BY <1>1, <1>2, NetAgrees

LEMMA NetOfDifference ==
  ASSUME BooksInv, NEW E \in SUBSET journal, NEW C, NEW D, D \subseteq C
  PROVE  /\ Net(C, E) = Net(C \ D, E) + Net(D, E)
         /\ Net(C, E) \in Int /\ Net(C \ D, E) \in Int /\ Net(D, E) \in Int
<1>1. EntriesOK(E)
  BY JournalPart
<1>2. (C \ D) \cap D = {} /\ (C \ D) \cup D = C
  OBVIOUS
<1> QED BY <1>1, <1>2, NetSplits, NetType

-----------------------------------------------------------------------------
(* Trial balance, general ledger, integrity check.                         *)

LEMMA MaxOfTwo ==
  ASSUME NEW a \in Int, NEW b \in Int
  PROVE  Max({a, b}) = IF a >= b THEN a ELSE b
<1>1. \E x \in {a, b} : \A y \in {a, b} : x >= y
  OBVIOUS
<1>2. Max({a, b}) \in {a, b} /\ \A y \in {a, b} : Max({a, b}) >= y
  BY <1>1 DEF Max
<1> QED BY <1>2

LEMMA Sides ==
  ASSUME NEW n \in Int
  PROVE  /\ DebitSide(n) \in Int /\ CreditSide(n) \in Int
         /\ DebitSide(n) - CreditSide(n) = n /\ DebitSide(n) = CreditSide(n) + n
<1>1. DebitSide(n) = IF 0 >= n THEN 0 ELSE n
  BY MaxOfTwo DEF DebitSide
<1>2. CreditSide(n) = IF 0 >= -n THEN 0 ELSE -n
  BY MaxOfTwo DEF CreditSide
<1> QED BY <1>1, <1>2

LEMMA ColumnsBalance ==
  ASSUME BooksInv, UsedCodes \subseteq ActiveAccounts, NEW E \in SUBSET journal
  PROVE  DebitColumn(Balances(E)) = CreditColumn(Balances(E))
<1> DEFINE A == ActiveAccounts
<1>1. PICK b : b = [c \in A |-> Net({c}, E)]
  OBVIOUS
<1>2. PICK f : f = [c \in A |-> DebitSide(b[c])]
  OBVIOUS
<1>3. PICK g : g = [c \in A |-> CreditSide(b[c])]
  OBVIOUS
<1>4. IsFiniteSet(A)
  BY FS_Subset DEF BooksInv, ChartOK, ActiveAccounts
<1>5. EntriesOK(E) /\ \A e \in E : CodesOf(e) \subseteq A
  BY JournalPart
<1>6. \A c \in A : b[c] \in Int
  BY <1>1, <1>5, NetType
<1>7. \A c \in A : g[c] \in Int /\ b[c] \in Int /\ f[c] = g[c] + b[c]
  BY <1>2, <1>3, <1>6, Sides
<1>8. SumFunctionOnSet(f, A) = SumFunctionOnSet(g, A) + SumFunctionOnSet(b, A)
  BY <1>4, <1>7, SumPlus
<1>9. SumFunctionOnSet(b, A) = 0
  BY <1>1, <1>4, <1>5, NetByAccount, NetBalances
<1>10. SumFunctionOnSet(g, A) \in Int
  BY <1>4, <1>7, SumType
<1>11. /\ DebitColumn(Balances(E)) = SumFunctionOnSet(f, A)
       /\ CreditColumn(Balances(E)) = SumFunctionOnSet(g, A)
  BY <1>1, <1>2, <1>3 DEF DebitColumn, CreditColumn, Total, Balances
<1> QED BY <1>8, <1>9, <1>10, <1>11

\* Assets, funds and results together balance.
LEMMA TypesBalance ==
  ASSUME BooksInv, UsedCodes \subseteq ActiveAccounts, NEW E \in SUBSET journal
  PROVE  /\ Net(OfType({"ASSET"}), E) + Net(OfType({"LIABILITY"}), E) + Net(OfType({"EQUITY"}), E)
               + Net(OfType({"REVENUE", "EXPENSE"}), E) = 0
         /\ Net(OfType({"ASSET"}), E) + Net(OfType({"LIABILITY", "EQUITY", "REVENUE"}), E)
               + Net(OfType({"EXPENSE"}), E) = 0
<1>1. EntriesOK(E) /\ \A e \in E : CodesOf(e) \subseteq DOMAIN chart
  BY JournalPart DEF ActiveAccounts
<1>2. \A c \in DOMAIN chart : chart[c].type \in AccountTypes
  BY DEF BooksInv, ChartOK, Row
<1>3. ASSUME NEW S, NEW T, S \cap T = {}
      PROVE  Net(OfType(S \cup T), E) = Net(OfType(S), E) + Net(OfType(T), E)
  <2>1. OfType(S \cup T) = OfType(S) \cup OfType(T) /\ OfType(S) \cap OfType(T) = {}
    BY <1>3 DEF OfType
  <2> QED BY <1>1, <2>1, NetSplits
<1>4. Net(OfType(AccountTypes), E) = 0
  <2>1. OfType(AccountTypes) = DOMAIN chart
    BY <1>2 DEF OfType
  <2> QED BY <1>1, <2>1, NetBalances
<1>5. \A S : Net(OfType(S), E) \in Int
  BY <1>1, NetType
<1>6. Net(OfType({"ASSET"}), E) + Net(OfType({"LIABILITY"}), E) + Net(OfType({"EQUITY"}), E)
        + Net(OfType({"REVENUE", "EXPENSE"}), E) = 0
  <2> DEFINE X == {"REVENUE", "EXPENSE"}
             Y == {"EQUITY"} \cup X
             Z == {"LIABILITY"} \cup Y
  <2>1. {"EQUITY"} \cap X = {} /\ {"LIABILITY"} \cap Y = {} /\ {"ASSET"} \cap Z = {}
        /\ {"ASSET"} \cup Z = AccountTypes
    BY DEF AccountTypes
  <2>2. Net(OfType(Y), E) = Net(OfType({"EQUITY"}), E) + Net(OfType(X), E)
    BY <1>3, <2>1
  <2>3. Net(OfType(Z), E) = Net(OfType({"LIABILITY"}), E) + Net(OfType(Y), E)
    BY <1>3, <2>1
  <2>4. Net(OfType(AccountTypes), E) = Net(OfType({"ASSET"}), E) + Net(OfType(Z), E)
    BY <1>3, <2>1
  <2> HIDE DEF X, Y, Z
  <2>5. Net(OfType({"ASSET"}), E) + Net(OfType({"LIABILITY"}), E) + Net(OfType({"EQUITY"}), E)
          + Net(OfType(X), E) = 0
    BY <1>4, <1>5, <2>2, <2>3, <2>4
  <2> QED BY <2>5 DEF X
<1>7. Net(OfType({"ASSET"}), E) + Net(OfType({"LIABILITY", "EQUITY", "REVENUE"}), E)
        + Net(OfType({"EXPENSE"}), E) = 0
  <2> DEFINE X == {"LIABILITY", "EQUITY", "REVENUE"}
             Y == X \cup {"EXPENSE"}
  <2>1. X \cap {"EXPENSE"} = {} /\ {"ASSET"} \cap Y = {} /\ {"ASSET"} \cup Y = AccountTypes
    BY DEF AccountTypes
  <2>2. Net(OfType(Y), E) = Net(OfType(X), E) + Net(OfType({"EXPENSE"}), E)
    BY <1>3, <2>1
  <2>3. Net(OfType(AccountTypes), E) = Net(OfType({"ASSET"}), E) + Net(OfType(Y), E)
    BY <1>3, <2>1
  <2> HIDE DEF X, Y
  <2>4. Net(OfType({"ASSET"}), E) + Net(OfType(X), E) + Net(OfType({"EXPENSE"}), E) = 0
    BY <1>4, <1>5, <2>2, <2>3
  <2> QED BY <2>4 DEF X
<1> QED BY <1>6, <1>7

LEMMA IntegrityHolds ==
  ASSUME BooksInv, UsedCodes \subseteq ActiveAccounts, NEW d \in Int
  PROVE  IntegrityValid(d)
<1> DEFINE U == UpTo(d)
<1>1. U \in SUBSET journal /\ EntriesOK(U)
  BY Periods, JournalPart
<1>2. \A e \in U : Balanced(e.legs)
  BY <1>1 DEF EntriesOK, EntryOK
<1>3. [e \in U |-> SumLegs(e.legs, DebitOf)] = [e \in U |-> SumLegs(e.legs, CreditOf)]
  BY <1>2 DEF Balanced, SumLegs, DebitOf, CreditOf
<1>4. Sum(U, DebitOf) = Sum(U, CreditOf)
  BY <1>3 DEF Sum, SumLegs, DebitOf, CreditOf
<1>5. Net(OfType({"ASSET"}), U) + Net(OfType({"LIABILITY", "EQUITY", "REVENUE"}), U)
        + Net(OfType({"EXPENSE"}), U) = 0
  BY <1>1, TypesBalance
<1>6. /\ Net(OfType({"ASSET"}), U) \in Int
      /\ Net(OfType({"LIABILITY", "EQUITY", "REVENUE"}), U) \in Int
      /\ Net(OfType({"EXPENSE"}), U) \in Int
  BY <1>1, NetType
<1> HIDE DEF U
<1>7. Net(OfType({"ASSET"}), U) =
        -Net(OfType({"LIABILITY", "EQUITY", "REVENUE"}), U) - Net(OfType({"EXPENSE"}), U)
  BY <1>5, <1>6
<1> QED BY <1>2, <1>4, <1>7 DEF IntegrityValid, U

LEMMA LedgerEnds ==
  ASSUME BooksInv, NEW d \in Int, NEW y \in Int, y <= d, NEW c
  PROVE  /\ GeneralLedger(c, y, d) = AccountBalance(c, d)
         /\ GeneralLedger(c, y, d) =
              InNormal(c, DebitSide(Net({c}, UpTo(d))) - CreditSide(Net({c}, UpTo(d))))
<1>1. PICK u : u = Net({c}, UpTo(d))
  OBVIOUS
<1>2. PICK v : v = Net({c}, UpTo(y - 1))
  OBVIOUS
<1>3. PICK w : w = Net({c}, Between(y, d))
  OBVIOUS
<1>4. u \in Int /\ v \in Int /\ w \in Int /\ u = v + w
  BY <1>1, <1>2, <1>3, NetOfYear
<1>5. InNormal(c, v) + InNormal(c, w) = InNormal(c, u)
  BY <1>4 DEF InNormal
<1>6. DebitSide(u) - CreditSide(u) = u
  BY <1>4, Sides
<1> QED BY <1>1, <1>2, <1>3, <1>5, <1>6 DEF GeneralLedger, AccountBalance

-----------------------------------------------------------------------------
(* Balance sheet, profit and loss.                                         *)

LEMMA SheetIs ==
  ASSUME BooksInv, UsedCodes \subseteq ActiveAccounts, NEW d \in Int
  PROVE  /\ BalanceSheet(d).current + BalanceSheet(d).fixed = Net(OfType({"ASSET"}), UpTo(d))
         /\ BalanceSheet(d).liabilities = -Net(OfType({"LIABILITY"}), UpTo(d))
         /\ BalanceSheet(d).earnings = -Net(OfType({"REVENUE", "EXPENSE"}), UpTo(d))
         /\ BalanceSheet(d).equity = BalanceSheet(d).earnings - Net(OfType({"EQUITY"}), UpTo(d))
<1>1. PICK U \in SUBSET journal : U = UpTo(d)
  BY Periods
<1>2. PICK F : F = FixedAssetAccounts
  OBVIOUS
<1>3. PICK A : A = OfType({"ASSET"})
  OBVIOUS
<1>4. \A C : Net(C \cap ActiveAccounts, U) = Net(C, U)
  BY NetOfActive
<1>5. BalanceSheet(d) =
        [current |-> Net(A \ F, U), fixed |-> Net(F, U), liabilities |-> -Net(OfType({"LIABILITY"}), U),
         earnings |-> -Net(OfType({"REVENUE", "EXPENSE"}), U),
         equity |-> -Net(OfType({"REVENUE", "EXPENSE"}), U) - Net(OfType({"EQUITY"}), U)]
  BY <1>1, <1>2, <1>3, <1>4 DEF BalanceSheet
<1>6. F \subseteq A
  BY <1>2, <1>3 DEF FixedAssetAccounts, InSection, WithPrefix
<1>7. Net(A, U) = Net(A \ F, U) + Net(F, U)
  BY <1>6, NetOfDifference
<1> QED BY <1>1, <1>3, <1>5, <1>7

LEMMA SheetBalances ==
  ASSUME BooksInv, UsedCodes \subseteq ActiveAccounts, NEW d \in Int
  PROVE  BalanceSheet(d).current + BalanceSheet(d).fixed =
           BalanceSheet(d).liabilities + BalanceSheet(d).equity
<1>1. PICK U \in SUBSET journal : U = UpTo(d)
  BY Periods
<1>2. Net(OfType({"ASSET"}), U) + Net(OfType({"LIABILITY"}), U) + Net(OfType({"EQUITY"}), U)
        + Net(OfType({"REVENUE", "EXPENSE"}), U) = 0
  BY TypesBalance
<1>3. \A C : Net(C, U) \in Int
  BY JournalPart, NetType
<1>4. PICK a \in Int : a = Net(OfType({"ASSET"}), U)
  BY <1>3
<1>5. PICK l \in Int : l = Net(OfType({"LIABILITY"}), U)
  BY <1>3
<1>6. PICK q \in Int : q = Net(OfType({"EQUITY"}), U)
  BY <1>3
<1>7. PICK r \in Int : r = Net(OfType({"REVENUE", "EXPENSE"}), U)
  BY <1>3
<1>8. a + l + q + r = 0
  BY <1>2, <1>4, <1>5, <1>6, <1>7
<1>9. /\ BalanceSheet(d).current + BalanceSheet(d).fixed = a
      /\ BalanceSheet(d).liabilities = -l /\ BalanceSheet(d).equity = -r - q
  BY <1>1, <1>4, <1>5, <1>6, <1>7, SheetIs
<1> QED BY <1>8, <1>9

\* The six groups of the profit and loss statement are all the results there are.
LEMMA ProfitIs ==
  ASSUME BooksInv, UsedCodes \subseteq ActiveAccounts, NEW y \in Int, NEW d \in Int
  PROVE  ProfitAndLoss(y, d).net = -Net(OfType({"REVENUE", "EXPENSE"}), Between(y, d))
<1>1. PICK B \in SUBSET journal : B = Between(y, d)
  BY Periods
<1>2. \A C : Net(C, B) \in Int
  BY JournalPart, NetType
<1>3. PICK R : R = Revenue
  OBVIOUS
<1>4. PICK X : X = Expense
  OBVIOUS
<1>5. PICK i : i = OtherIncome
  OBVIOUS
<1>6. PICK g : g = CostOfGoods
  OBVIOUS
<1>7. PICK o : o = OtherExpense
  OBVIOUS
<1>8. PICK t : t = IncomeTax
  OBVIOUS
<1>9. /\ i \subseteq R /\ g \subseteq X /\ o \subseteq X \ g /\ t \subseteq X \ (g \cup o)
  BY <1>3, <1>4, <1>5, <1>6, <1>7, <1>8
  DEF OtherIncome, CostOfGoods, OtherExpense, IncomeTax, InSection, WithPrefix
<1>10. OperatingRevenue = R \ i /\ OperatingExpense = X \ (g \cup o \cup t)
  BY <1>3, <1>4, <1>5, <1>6, <1>7, <1>8 DEF OperatingRevenue, OperatingExpense
<1>11. ProfitAndLoss(y, d).net =
         -Net(R \ i, B) + -Net(g, B) + -Net(X \ (g \cup o \cup t), B) + -Net(i, B) + -Net(o, B) + -Net(t, B)
  BY <1>1, <1>5, <1>6, <1>7, <1>8, <1>10 DEF ProfitAndLoss
<1>12. Net(R, B) = Net(R \ i, B) + Net(i, B)
  BY <1>9, NetOfDifference
<1>13. Net(X, B) = Net(X \ g, B) + Net(g, B)
  BY <1>9, NetOfDifference
<1>14. Net(X \ g, B) = Net(X \ (g \cup o), B) + Net(o, B)
  <2>1. X \ (g \cup o) = (X \ g) \ o
    OBVIOUS
  <2> QED BY <1>9, <2>1, NetOfDifference
<1>15. Net(X \ (g \cup o), B) = Net(X \ (g \cup o \cup t), B) + Net(t, B)
  <2>1. X \ (g \cup o \cup t) = (X \ (g \cup o)) \ t
    OBVIOUS
  <2> QED BY <1>9, <2>1, NetOfDifference
<1>16. Net(OfType({"REVENUE", "EXPENSE"}), B) = Net(R, B) + Net(X, B)
  <2>1. R \cap X = {} /\ R \cup X = OfType({"REVENUE", "EXPENSE"}) \cap ActiveAccounts
    BY <1>3, <1>4 DEF Revenue, Expense, OfType
  <2>2. Net(R \cup X, B) = Net(R, B) + Net(X, B)
    BY <2>1, JournalPart, NetSplits
  <2>3. Net(R \cup X, B) = Net(OfType({"REVENUE", "EXPENSE"}), B)
    BY <2>1, NetOfActive
  <2> QED BY <2>2, <2>3
<1> QED BY <1>1, <1>2, <1>11, <1>12, <1>13, <1>14, <1>15, <1>16

\* The equity statement and the balance sheet, compared account by account.
LEMMA EquityIs ==
  ASSUME BooksInv, UsedCodes \subseteq ActiveAccounts, NEW y \in Int, NEW d \in Int, y <= d
  PROVE  EquityChanges(y, d) =
           BalanceSheet(d).equity - BalanceSheet(y - 1).earnings + Net({3301}, UpTo(y - 1))
             + Net(EquityElsewhere, UpTo(d))
<1>1. PICK U \in SUBSET journal : U = UpTo(d)
  BY Periods
<1>2. PICK V \in SUBSET journal : V = UpTo(y - 1)
  BY Periods
<1>3. PICK B \in SUBSET journal : B = Between(y, d)
  BY Periods
<1>4. \A C : /\ Net(C, U) \in Int /\ Net(C, V) \in Int /\ Net(C, B) \in Int
             /\ Net(C, U) = Net(C, V) + Net(C, B)
  BY <1>1, <1>2, <1>3, NetOfYear
<1>5. PICK Q : Q = OfType({"EQUITY"})
  OBVIOUS
<1>6. PICK r : r = OfType({"REVENUE", "EXPENSE"})
  OBVIOUS
<1>7. EquityChanges(y, d) =
        -Net({3101}, V) + -Net({3101}, B) + -Net({3201}, V) + -Net(r, B) + -Net({3201}, B) + -Net({3301}, B)
  BY <1>2, <1>3, <1>6, ProfitIs DEF EquityChanges
<1>8. y - 1 \in Int
  OBVIOUS
<1>9. /\ BalanceSheet(d).equity = -Net(r, U) - Net(Q, U)
      /\ BalanceSheet(y - 1).earnings = -Net(r, V)
  BY <1>1, <1>2, <1>5, <1>6, <1>8, SheetIs
<1>10. EquityAccounts \subseteq Q
  BY <1>5 DEF BooksInv, ChartOK, OfType
<1>11. Net(Q, U) = Net(Q \ EquityAccounts, U) + Net(EquityAccounts, U)
  BY <1>10, NetOfDifference
<1>12. Net(EquityAccounts, U) = Net({3101}, U) + Net({3201}, U) + Net({3301}, U)
  <2>1. {3101} \cap {3201} = {} /\ ({3101} \cup {3201}) \cap {3301} = {}
        /\ ({3101} \cup {3201}) \cup {3301} = EquityAccounts
    BY DEF EquityAccounts
  <2>2. EntriesOK(U)
    BY JournalPart
  <2>3. Net({3101} \cup {3201}, U) = Net({3101}, U) + Net({3201}, U)
    BY <2>1, <2>2, NetSplits
  <2>4. Net(({3101} \cup {3201}) \cup {3301}, U) = Net({3101} \cup {3201}, U) + Net({3301}, U)
    BY <2>1, <2>2, NetSplits
  <2> QED BY <2>1, <2>3, <2>4
<1>13. Q \ EquityAccounts = EquityElsewhere
  BY <1>5 DEF EquityAccounts, EquityElsewhere
<1>14. Net(Q, U) = Net(EquityElsewhere, U) + Net({3101}, U) + Net({3201}, U) + Net({3301}, U)
  <2>1. Net(Q \ EquityAccounts, U) = Net(EquityElsewhere, U)
    BY <1>13
  <2>2. /\ Net(EquityElsewhere, U) \in Int /\ Net({3101}, U) \in Int
        /\ Net({3201}, U) \in Int /\ Net({3301}, U) \in Int
    BY <1>4
  <2> QED BY <1>11, <1>12, <2>1, <2>2
<1>15. EquityChanges(y, d) = -Net({3101}, U) + -Net({3201}, U) - Net(r, B) - Net({3301}, B)
  BY <1>4, <1>7
<1>16. EquityChanges(y, d) =
         (-Net(r, U) - Net(Q, U)) - -Net(r, V) + Net({3301}, V) + Net(EquityElsewhere, U)
  BY <1>4, <1>14, <1>15
<1> QED BY <1>1, <1>2, <1>9, <1>16

-----------------------------------------------------------------------------
(* Cash.                                                                   *)

LEMMA CashIs ==
  ASSUME BooksInv, UsedCodes \subseteq ActiveAccounts, NEW y \in Int, NEW d \in Int, y <= d
  PROVE  /\ CashFlow(y, d).change = Net(Cash, Between(y, d))
         /\ CashFlow(y, d).closing = Net(Cash, UpTo(d))
<1> DEFINE B == Between(y, d)
           cash == Cash \cap ActiveAccounts
           part(a) == {e \in B : Activity(TypeOf(e)) = a}
           o == part("operating")
           i == part("investing")
           f == part("financing")
           u == part("unclassified")
<1>1. B \in SUBSET journal
  BY Periods
<1>2. \A e \in B : Activity(TypeOf(e)) \in {"operating", "investing", "financing", "unclassified"}
  BY DEF Activity
<1>3. /\ o \cap i = {} /\ (o \cup i) \cap f = {} /\ (o \cup i \cup f) \cap u = {}
      /\ (o \cup i \cup f) \cup u = B
  BY <1>2
<1>4. /\ EntriesOK(o) /\ EntriesOK(i) /\ EntriesOK(f) /\ EntriesOK(u)
      /\ EntriesOK(o \cup i) /\ EntriesOK(o \cup i \cup f)
  <2>1. /\ o \in SUBSET journal /\ i \in SUBSET journal /\ f \in SUBSET journal /\ u \in SUBSET journal
        /\ o \cup i \in SUBSET journal /\ o \cup i \cup f \in SUBSET journal
    BY <1>1
  <2> HIDE DEF o, i, f, u
  <2> QED BY <2>1, JournalPart
<1>5. CashFlow(y, d).change = Net(cash, o) + Net(cash, i) + Net(cash, f) + Net(cash, u)
  BY DEF CashFlow
<1>6. CashFlow(y, d).closing = Net(cash, UpTo(y - 1)) + CashFlow(y, d).change
  BY DEF CashFlow
<1> HIDE DEF o, i, f, u
<1>7. Net(cash, o \cup i) = Net(cash, o) + Net(cash, i)
  BY <1>3, <1>4, NetUnion
<1>8. Net(cash, o \cup i \cup f) = Net(cash, o \cup i) + Net(cash, f)
  BY <1>3, <1>4, NetUnion
<1>9. Net(cash, B) = Net(cash, o \cup i \cup f) + Net(cash, u)
  BY <1>3, <1>4, NetUnion
<1>10. CashFlow(y, d).change = Net(cash, B)
  BY <1>5, <1>7, <1>8, <1>9
<1>11. /\ Net(cash, B) = Net(Cash, B) /\ Net(cash, UpTo(y - 1)) = Net(Cash, UpTo(y - 1))
  BY <1>1, Periods, NetOfActive
<1> QED BY <1>6, <1>10, <1>11, NetOfYear

LEMMA MonthsAddUp ==
  ASSUME BooksInv, NEW y \in Int, NEW d \in Int
  PROVE  Total(y..d, MonthlyCashFlow) = Net(Cash, Between(y, d))
<1>1. \A e \in journal : e.day \in Int
  BY DEF BooksInv, EntryOK
<1>2. IsFiniteSet(y..d)
  BY FS_Interval
<1>3. ASSUME NEW k \in y..d
      PROVE  MonthlyCashFlow(k) = Net(Cash, {e \in journal : e.day = k})
  <2>1. Between(k, k) = {e \in journal : e.day = k}
    BY <1>1 DEF Between
  <2>2. EntriesOK(Between(k, k))
    BY Periods, JournalPart
  <2> QED BY <2>1, <2>2, FlowsAreNet DEF MonthlyCashFlow
<1>4. Between(y, d) = {e \in journal : e.day \in y..d}
  BY <1>1 DEF Between
<1>5. [k \in y..d |-> MonthlyCashFlow(k)] = [k \in y..d |-> Net(Cash, {e \in journal : e.day = k})]
  BY <1>3
<1>6. EntriesOK(journal)
  BY JournalPart
<1> QED BY <1>2, <1>4, <1>5, <1>6, NetByDay DEF Total
-----------------------------------------------------------------------------
(* The statements.                                                         *)

LEMMA BooksInvAgrees == BooksInv => StatementsAgree
<1> SUFFICES ASSUME BooksInv, UsedCodes \subseteq ActiveAccounts, NEW d \in Day
    PROVE  AgreeOn(d)
  BY DEF StatementsAgree
<1> DEFINE y == YearStart[d]
<1>1. y \in Int /\ d \in Int /\ y <= d
  BY BooksAssumption
<1>2. /\ Notes(d).sheet = BalanceSheet(d)
      /\ Notes(d).profit = ProfitAndLoss(y, d)
      /\ Notes(d).cash = CashFlow(y, d)
  BY DEF Notes
<1> HIDE DEF y
<1>3. /\ TrialBalance(y, d).openingDebit = TrialBalance(y, d).openingCredit
      /\ TrialBalance(y, d).endingDebit = TrialBalance(y, d).endingCredit
  <2>1. UpTo(y - 1) \in SUBSET journal /\ UpTo(d) \in SUBSET journal
    BY <1>1, Periods
  <2>2. /\ DebitColumn(Balances(UpTo(y - 1))) = CreditColumn(Balances(UpTo(y - 1)))
        /\ DebitColumn(Balances(UpTo(d))) = CreditColumn(Balances(UpTo(d)))
    BY <2>1, ColumnsBalance
  <2> QED BY <2>2 DEF TrialBalance, Columns
<1>4. BalanceSheet(d).current + BalanceSheet(d).fixed
        = BalanceSheet(d).liabilities + BalanceSheet(d).equity
  BY <1>1, SheetBalances
<1>5. IntegrityValid(d)
  BY <1>1, IntegrityHolds
<1>6. \A c \in UsedCodes :
        /\ GeneralLedger(c, y, d) = AccountBalance(c, d)
        /\ GeneralLedger(c, y, d) =
             InNormal(c, DebitSide(Net({c}, UpTo(d))) - CreditSide(Net({c}, UpTo(d))))
  BY <1>1, LedgerEnds
<1>7. ProfitAndLoss(y, d).net = ProfitToDate(d)
  BY <1>1, ProfitIs DEF ProfitToDate, y
<1>8. CashFlow(y, d).closing = DashboardCash(d)
  BY <1>1, CashIs DEF DashboardCash
<1>9. /\ CashFlow(y, d).change = NetFlow(Between(y, d))
       /\ CashFlow(y, d).change = Total(y..d, MonthlyCashFlow)
  <2>1. CashFlow(y, d).change = Net(Cash, Between(y, d))
    BY <1>1, CashIs
  <2>2. NetFlow(Between(y, d)) = Net(Cash, Between(y, d))
    BY <1>1, Periods, JournalPart, FlowsAreNet
  <2>3. Total(y..d, MonthlyCashFlow) = Net(Cash, Between(y, d))
    BY <1>1, MonthsAddUp
  <2> QED BY <2>1, <2>2, <2>3
<1>10. EquityChanges(y, d) =
         BalanceSheet(d).equity - BalanceSheet(y - 1).earnings + Net({3301}, UpTo(y - 1))
           + Net(EquityElsewhere, UpTo(d))
  BY <1>1, EquityIs
<1> QED BY <1>2, <1>3, <1>4, <1>5, <1>6, <1>7, <1>8, <1>9, <1>10 DEF AgreeOn, y

(* However orders are posted, settled and reversed and the chart of        *)
(* accounts is changed, the journal stays a finite set of balanced entries *)
(* with typed legs, and the chart a finite set of typed accounts in which  *)
(* capital, retained earnings and withdrawals are equity.                  *)
THEOREM BooksStayBalanced == BooksSpec => []BooksInv
<1> QED BY BooksInvInit, BooksInvStep, PTL DEF BooksSpec

(* Whatever the chart of accounts, the orders and the calendar, as long as *)
(* no deactivated account was posted to: on every day the trial balance,   *)
(* the balance sheet and the integrity check balance, the general ledger   *)
(* ends with the trial balance, profit and cash are the dashboard's, and   *)
(* the equity statement ends beside the balance sheet by the earnings of   *)
(* earlier years, the earlier withdrawals and the equity on other          *)
(* accounts.  Nothing is said of the balance sheet's current-year profit,  *)
(* which is that of all years.                                             *)
THEOREM ReportsAgree == BooksSpec => []StatementsAgree
<1> QED BY BooksStayBalanced, BooksInvAgrees, PTL

-----------------------------------------------------------------------------
(* What legs weigh.                                                        *)

\* A weight is a number for each leg that turns round with it.
Weight == {w \in [Leg -> Int] : \A x \in Leg : w[Inverted(x)] = -w[x]}

LegsWeight(w, legs) == SumFunctionOnSet([i \in DOMAIN legs |-> w[legs[i]]], DOMAIN legs)
Balance(w, E) == SumFunctionOnSet([e \in E |-> LegsWeight(w, e.legs)], E)

LEMMA LegsAre ==
  ASSUME NEW s \in Seq(Leg)
  PROVE  IsFiniteSet(DOMAIN s) /\ \A i \in DOMAIN s : s[i] \in Leg
<1>1. DOMAIN s = 1..Len(s) /\ Len(s) \in Nat
  OBVIOUS
<1>2. IsFiniteSet(DOMAIN s)
  BY <1>1, FS_Interval
<1> QED BY <1>2

LEMMA LegsWeightType ==
  ASSUME NEW w \in [Leg -> Int], NEW s \in Seq(Leg)
  PROVE  LegsWeight(w, s) \in Int
<1>1. PICK f : f = [i \in DOMAIN s |-> w[s[i]]]
  OBVIOUS
<1>2. \A i \in DOMAIN s : f[i] \in Int
  BY <1>1, LegsAre
<1>3. SumFunctionOnSet(f, DOMAIN s) \in Int
  BY <1>2, LegsAre, SumType
<1> QED BY <1>1, <1>3 DEF LegsWeight

LEMMA NoWeight ==
  ASSUME NEW w \in [Leg -> Int], NEW s \in Seq(Leg), \A i \in DOMAIN s : w[s[i]] = 0
  PROVE  LegsWeight(w, s) = 0
<1>1. PICK f : f = [i \in DOMAIN s |-> w[s[i]]]
  OBVIOUS
<1>2. \A i \in DOMAIN s : f[i] = 0
  BY <1>1
<1>3. SumFunctionOnSet(f, DOMAIN s) = 0
  BY <1>2, LegsAre, SumZero
<1> QED BY <1>1, <1>3 DEF LegsWeight

LEMMA SameWeight ==
  ASSUME NEW u, NEW v, NEW s \in Seq(Leg), \A i \in DOMAIN s : u[s[i]] = v[s[i]]
  PROVE  LegsWeight(u, s) = LegsWeight(v, s)
<1>1. PICK f : f = [i \in DOMAIN s |-> u[s[i]]]
  OBVIOUS
<1>2. PICK g : g = [i \in DOMAIN s |-> v[s[i]]]
  OBVIOUS
<1>3. f = g
  BY <1>1, <1>2
<1> QED BY <1>1, <1>2, <1>3 DEF LegsWeight

LEMMA AddedWeight ==
  ASSUME NEW u \in [Leg -> Int], NEW v \in [Leg -> Int], NEW w, NEW s \in Seq(Leg),
         \A i \in DOMAIN s : w[s[i]] = u[s[i]] + v[s[i]]
  PROVE  LegsWeight(w, s) = LegsWeight(u, s) + LegsWeight(v, s)
<1>1. PICK f : f = [i \in DOMAIN s |-> w[s[i]]]
  OBVIOUS
<1>2. PICK g : g = [i \in DOMAIN s |-> u[s[i]]]
  OBVIOUS
<1>3. PICK h : h = [i \in DOMAIN s |-> v[s[i]]]
  OBVIOUS
<1>4. \A i \in DOMAIN s : g[i] \in Int /\ h[i] \in Int /\ f[i] = g[i] + h[i]
  BY <1>1, <1>2, <1>3, LegsAre
<1>5. SumFunctionOnSet(f, DOMAIN s) = SumFunctionOnSet(g, DOMAIN s) + SumFunctionOnSet(h, DOMAIN s)
  BY <1>4, LegsAre, SumPlus
<1> QED BY <1>1, <1>2, <1>3, <1>5 DEF LegsWeight

\* The legs of a reversal weigh the opposite.
LEMMA InvertedWeight ==
  ASSUME NEW w \in Weight, NEW s \in Seq(Leg)
  PROVE  /\ Lines(s, Inverted) \in Seq(Leg)
         /\ LegsWeight(w, Lines(s, Inverted)) = -LegsWeight(w, s)
<1>1. PICK r : r = [i \in DOMAIN s |-> Inverted(s[i])]
  OBVIOUS
<1>2. \A i \in DOMAIN s : r[i] \in Leg /\ w[r[i]] = -w[s[i]] /\ w[s[i]] \in Int
  BY <1>1, LegsAre, InvertedLeg DEF Weight
<1>3. r \in Seq(Leg) /\ DOMAIN r = DOMAIN s
  BY <1>1, <1>2
<1>4. PICK f : f = [i \in DOMAIN s |-> w[r[i]]]
  OBVIOUS
<1>5. PICK g : g = [i \in DOMAIN s |-> w[s[i]]]
  OBVIOUS
<1>6. PICK z : z = [i \in DOMAIN s |-> 0]
  OBVIOUS
<1>7. \A i \in DOMAIN s : g[i] \in Int /\ f[i] \in Int /\ z[i] = 0 /\ z[i] = f[i] + g[i]
  BY <1>2, <1>4, <1>5, <1>6
<1>8. SumFunctionOnSet(z, DOMAIN s) = SumFunctionOnSet(f, DOMAIN s) + SumFunctionOnSet(g, DOMAIN s)
  BY <1>7, LegsAre, SumPlus
<1>9. SumFunctionOnSet(z, DOMAIN s) = 0
  BY <1>7, LegsAre, SumZero
<1>10. SumFunctionOnSet(f, DOMAIN s) \in Int /\ SumFunctionOnSet(g, DOMAIN s) \in Int
  BY <1>7, LegsAre, SumType
<1>11. SumFunctionOnSet(f, DOMAIN s) = -SumFunctionOnSet(g, DOMAIN s)
  BY <1>8, <1>9, <1>10
<1>12. Lines(s, Inverted) = r
  BY <1>1 DEF Lines
<1>13. LegsWeight(w, r) = SumFunctionOnSet(f, DOMAIN s)
  BY <1>3, <1>4 DEF LegsWeight
<1> QED BY <1>3, <1>5, <1>11, <1>12, <1>13 DEF LegsWeight

LEMMA WeightOfNone ==
  ASSUME NEW w
  PROVE  LegsWeight(w, <<>>) = 0
  BY SumEmpty DEF LegsWeight

LEMMA WeightOfOne ==
  ASSUME NEW w \in [Leg -> Int], NEW x \in Leg
  PROVE  LegsWeight(w, <<x>>) = w[x]
<1>1. PICK s : s = <<x>>
  OBVIOUS
<1>2. DOMAIN s = {1} /\ s[1] = x
  BY <1>1
<1>3. PICK f : f = [i \in DOMAIN s |-> w[s[i]]]
  OBVIOUS
<1>4. f[1] = w[x] /\ f[1] \in Int
  BY <1>2, <1>3
<1>5. SumFunctionOnSet(f, {1}) = w[x]
  BY <1>4, SumSingle
<1> QED BY <1>1, <1>2, <1>3, <1>5 DEF LegsWeight

LEMMA WeightOfBoth ==
  ASSUME NEW w \in [Leg -> Int], NEW s \in Seq(Leg), NEW t \in Seq(Leg)
  PROVE  LegsWeight(w, s \o t) = LegsWeight(w, s) + LegsWeight(w, t)
<1>1. PICK m \in Nat, n \in Nat : m = Len(s) /\ n = Len(t)
  OBVIOUS
<1>2. PICK u : u = s \o t
  OBVIOUS
<1>3. PICK A : A = 1..m
  OBVIOUS
<1>4. PICK B : B = (m + 1)..(m + n)
  OBVIOUS
<1>5. DOMAIN s = A /\ DOMAIN t = 1..n /\ DOMAIN u = 1..(m + n)
  BY <1>1, <1>2, <1>3
<1>6. DOMAIN u = A \cup B /\ A \cap B = {}
  BY <1>1, <1>3, <1>4, <1>5
<1>7. IsFiniteSet(A) /\ IsFiniteSet(B) /\ IsFiniteSet(1..n)
  BY <1>1, <1>3, <1>4, FS_Interval
<1>8. PICK f : f = [i \in DOMAIN u |-> w[u[i]]]
  OBVIOUS
<1>9. PICK g : g = [i \in A |-> w[s[i]]]
  OBVIOUS
<1>10. PICK h : h = [i \in 1..n |-> w[t[i]]]
  OBVIOUS
<1>11. \A i \in A : f[i] \in Int /\ f[i] = g[i]
  <2>1. \A i \in A : i \in DOMAIN u /\ u[i] = s[i] /\ s[i] \in Leg
    BY <1>1, <1>2, <1>3, <1>6
  <2> QED BY <2>1, <1>8, <1>9
<1>12. \A i \in 1..n : f[m + i] = h[i] /\ h[i] \in Int /\ m + i \in B
  <2>1. \A i \in 1..n : m + i \in B /\ u[m + i] = t[i] /\ t[i] \in Leg
    BY <1>1, <1>2, <1>4
  <2> QED BY <2>1, <1>6, <1>8, <1>10
<1>13. \A k \in B : \E i \in 1..n : m + i = k
  <2> SUFFICES ASSUME NEW k \in B PROVE \E i \in 1..n : m + i = k
    OBVIOUS
  <2>1. k - m \in 1..n /\ m + (k - m) = k
    BY <1>4
  <2> QED BY <2>1
<1>14. SumFunctionOnSet(f, DOMAIN u) = SumFunctionOnSet(f, A) + SumFunctionOnSet(f, B)
  <2>1. \A i \in A \cup B : f[i] \in Int
    BY <1>11, <1>12, <1>13
  <2> QED BY <1>6, <1>7, <2>1, SumUnion
<1>15. SumFunctionOnSet(f, A) = SumFunctionOnSet(g, A)
  BY <1>7, <1>11, SumSame
<1>16. SumFunctionOnSet(f, B) = SumFunctionOnSet(h, 1..n)
  <2>1. PICK S : S = 1..n
    OBVIOUS
  <2>2. PICK key : key = [i \in S |-> m + i]
    OBVIOUS
  <2>3. \A i \in S : key[i] = m + i /\ i \in Int
    BY <2>1, <2>2
  <2>4. \A i \in S : \A j \in S : key[i] = key[j] => i = j
    BY <2>3
  <2>5. \A i \in S : f[key[i]] = h[i]
    BY <1>12, <2>1, <2>3
  <2>6. Renames(key, S, B)
    <3>1. \A i \in S : key[i] \in B
      BY <1>12, <2>1, <2>3
    <3>2. \A k \in B : \E i \in S : key[i] = k
      BY <1>13, <2>1, <2>3
    <3> QED BY <2>4, <3>1, <3>2 DEF Renames
  <2>7. IsFiniteSet(S) /\ IsFiniteSet(B) /\ \A i \in S : h[i] \in Int
    BY <1>7, <1>12, <2>1
  <2>8. SumFunctionOnSet(f, B) = SumFunctionOnSet(h, S)
    BY ONLY <2>5, <2>6, <2>7, SumImage
  <2> QED BY <2>1, <2>8
<1>17. LegsWeight(w, u) = SumFunctionOnSet(f, DOMAIN u)
  BY <1>8 DEF LegsWeight
<1>18. LegsWeight(w, s) = SumFunctionOnSet(g, A)
  BY <1>5, <1>9 DEF LegsWeight
<1>19. LegsWeight(w, t) = SumFunctionOnSet(h, 1..n)
  BY <1>5, <1>10 DEF LegsWeight
<1> QED BY <1>2, <1>14, <1>15, <1>16, <1>17, <1>18, <1>19

LEMMA WeightOfTwo ==
  ASSUME NEW w \in [Leg -> Int], NEW x \in Leg, NEW y \in Leg
  PROVE  LegsWeight(w, <<x, y>>) = w[x] + w[y]
<1>1. PICK s : s = <<x, y>>
  OBVIOUS
<1>2. DOMAIN s = {1, 2} /\ s[1] = x /\ s[2] = y
  BY <1>1
<1>3. PICK f : f = [i \in DOMAIN s |-> w[s[i]]]
  OBVIOUS
<1>4. f[1] = w[x] /\ f[2] = w[y] /\ w[x] \in Int /\ w[y] \in Int
  BY <1>2, <1>3
<1>5. PICK A : A = {1}
  OBVIOUS
<1>6. IsFiniteSet(A)
  BY <1>5, FS_Singleton
<1>7. 2 \notin A /\ A \cup {2} = DOMAIN s
  BY <1>2, <1>5
<1>8. \A i \in A \cup {2} : f[i] \in Int
  BY <1>2, <1>4, <1>7
<1>9. SumFunctionOnSet(f, A \cup {2}) = f[2] + SumFunctionOnSet(f, A)
  BY <1>6, <1>7, <1>8, SumAdd
<1>10. SumFunctionOnSet(f, A) = f[1]
  BY <1>4, <1>5, SumSingle
<1>11. SumFunctionOnSet(f, DOMAIN s) = w[x] + w[y]
  BY <1>4, <1>7, <1>9, <1>10
<1> QED BY <1>1, <1>3, <1>11 DEF LegsWeight

LEMMA OneMore ==
  ASSUME NEW w \in [Leg -> Int], NEW s \in Seq(Leg), NEW x \in Leg
  PROVE  LegsWeight(w, s \o <<x>>) = LegsWeight(w, s) + w[x]
<1>1. <<x>> \in Seq(Leg)
  OBVIOUS
<1> QED BY <1>1, WeightOfBoth, WeightOfOne

LEMMA Parity ==
  ASSUME NEW n \in Nat
  PROVE  /\ n % 2 = 0 <=> (n + 1) % 2 = 1
         /\ n % 2 = 0 \/ n % 2 = 1
         /\ n % 2 = 1 <=> (n + 1) % 2 = 0
  OBVIOUS

LEMMA BalanceType ==
  ASSUME NEW w \in [Leg -> Int], NEW E, EntriesOK(E)
  PROVE  Balance(w, E) \in Int
<1>1. PICK f : f = [e \in E |-> LegsWeight(w, e.legs)]
  OBVIOUS
<1>2. \A e \in E : f[e] \in Int
  BY <1>1, LegsWeightType DEF EntriesOK, EntryOK
<1>3. SumFunctionOnSet(f, E) \in Int
  BY <1>2, SumType DEF EntriesOK
<1> QED BY <1>1, <1>3 DEF Balance

LEMMA SameBalance ==
  ASSUME NEW u, NEW v, NEW E, EntriesOK(E),
         \A e \in E : \A i \in DOMAIN e.legs : u[e.legs[i]] = v[e.legs[i]]
  PROVE  Balance(u, E) = Balance(v, E)
<1>1. \A e \in E : LegsWeight(u, e.legs) = LegsWeight(v, e.legs)
  BY SameWeight DEF EntriesOK, EntryOK
<1>2. [e \in E |-> LegsWeight(u, e.legs)] = [e \in E |-> LegsWeight(v, e.legs)]
  BY <1>1
<1> QED BY <1>2 DEF Balance

LEMMA AddedBalance ==
  ASSUME NEW u \in [Leg -> Int], NEW v \in [Leg -> Int], NEW w, NEW E, EntriesOK(E),
         \A e \in E : \A i \in DOMAIN e.legs : w[e.legs[i]] = u[e.legs[i]] + v[e.legs[i]]
  PROVE  Balance(w, E) = Balance(u, E) + Balance(v, E)
<1>1. PICK f : f = [e \in E |-> LegsWeight(w, e.legs)]
  OBVIOUS
<1>2. PICK g : g = [e \in E |-> LegsWeight(u, e.legs)]
  OBVIOUS
<1>3. PICK h : h = [e \in E |-> LegsWeight(v, e.legs)]
  OBVIOUS
<1>4. \A e \in E : e.legs \in Seq(Leg)
  BY DEF EntriesOK, EntryOK
<1>5. \A e \in E : g[e] \in Int /\ h[e] \in Int
  BY <1>2, <1>3, <1>4, LegsWeightType
<1>6. \A e \in E : LegsWeight(w, e.legs) = LegsWeight(u, e.legs) + LegsWeight(v, e.legs)
  BY <1>4, AddedWeight
<1>7. \A e \in E : g[e] \in Int /\ h[e] \in Int /\ f[e] = g[e] + h[e]
  BY <1>1, <1>2, <1>3, <1>5, <1>6
<1>8. SumFunctionOnSet(f, E) = SumFunctionOnSet(g, E) + SumFunctionOnSet(h, E)
  BY <1>7, SumPlus DEF EntriesOK
<1> QED BY <1>1, <1>2, <1>3, <1>8 DEF Balance

LEMMA NoBalance ==
  ASSUME NEW w \in [Leg -> Int], NEW E, EntriesOK(E),
         \A e \in E : \A i \in DOMAIN e.legs : w[e.legs[i]] = 0
  PROVE  Balance(w, E) = 0
<1>1. PICK f : f = [e \in E |-> LegsWeight(w, e.legs)]
  OBVIOUS
<1>2. \A e \in E : f[e] = 0
  BY <1>1, NoWeight DEF EntriesOK, EntryOK
<1>3. SumFunctionOnSet(f, E) = 0
  BY <1>2, SumZero DEF EntriesOK
<1> QED BY <1>1, <1>3 DEF Balance

LEMMA BalanceOfBoth ==
  ASSUME NEW w \in [Leg -> Int], NEW E, EntriesOK(E), NEW F, EntriesOK(F), E \cap F = {}
  PROVE  Balance(w, E \cup F) = Balance(w, E) + Balance(w, F)
<1>1. PICK f : f = [e \in E \cup F |-> LegsWeight(w, e.legs)]
  OBVIOUS
<1>2. PICK g : g = [e \in E |-> LegsWeight(w, e.legs)]
  OBVIOUS
<1>3. PICK h : h = [e \in F |-> LegsWeight(w, e.legs)]
  OBVIOUS
<1>4. \A e \in E \cup F : f[e] \in Int
  BY <1>1, LegsWeightType DEF EntriesOK, EntryOK
<1>5. SumFunctionOnSet(f, E \cup F) = SumFunctionOnSet(f, E) + SumFunctionOnSet(f, F)
  BY <1>4, SumUnion DEF EntriesOK
<1>6. SumFunctionOnSet(f, E) = SumFunctionOnSet(g, E)
  BY <1>1, <1>2, SumSame DEF EntriesOK
<1>7. SumFunctionOnSet(f, F) = SumFunctionOnSet(h, F)
  BY <1>1, <1>3, SumSame DEF EntriesOK
<1> QED BY <1>1, <1>2, <1>3, <1>5, <1>6, <1>7 DEF Balance

LEMMA BalanceWith ==
  ASSUME NEW w \in [Leg -> Int], NEW E, EntriesOK(E), NEW e, EntryOK(e), e \notin E
  PROVE  Balance(w, E \cup {e}) = Balance(w, E) + LegsWeight(w, e.legs)
<1>1. PICK F : F = {e}
  OBVIOUS
<1>2. EntriesOK(F)
  BY <1>1, FS_Singleton DEF EntriesOK
<1>3. PICK f : f = [x \in F |-> LegsWeight(w, x.legs)]
  OBVIOUS
<1>4. f[e] = LegsWeight(w, e.legs) /\ f[e] \in Int
  BY <1>1, <1>3, LegsWeightType DEF EntryOK
<1>5. SumFunctionOnSet(f, F) = LegsWeight(w, e.legs)
  BY <1>1, <1>4, SumSingle
<1>6. Balance(w, F) = LegsWeight(w, e.legs)
  BY <1>3, <1>5 DEF Balance
<1>7. E \cap F = {}
  BY <1>1
<1>8. Balance(w, E \cup F) = Balance(w, E) + Balance(w, F)
  BY <1>2, <1>7, BalanceOfBoth
<1> QED BY <1>1, <1>6, <1>8

-----------------------------------------------------------------------------
(* The history of an order.                                                *)

LegsAt(t, n) == IF n % 2 = 0 THEN JournalLegs(t) ELSE Lines(JournalLegs(t), Inverted)

\* Entries are numbered and alternate; only the first has the day of its order.
HistoryOK(e) ==
  /\ e.of \in Order /\ e.of.type \in PostingRuleTypes
  /\ e.of.type # "JOURNAL_ADJUSTMENT" => Creatable(e.of)
  /\ e.nth \in Nat /\ e.nth < Cardinality(Posting(e.of))
  /\ e.nth = 0 => e.day = e.of.day
  /\ e.legs = LegsAt(e.of, e.nth)

Tallied(t) ==
  \A w \in Weight :
    Balance(w, Posting(t)) = IF InForce(t) THEN LegsWeight(w, JournalLegs(t)) ELSE 0

HistoryInv ==
  /\ \A e \in journal : HistoryOK(e)
  /\ \A t \in Order : Posted(t) => \E x \in Posting(t) : x.nth = Cardinality(Posting(t)) - 1
  /\ \A t \in Order : Tallied(t)

LEMMA PostingOK ==
  ASSUME BooksInv, NEW t
  PROVE  EntriesOK(Posting(t)) /\ Cardinality(Posting(t)) \in Nat
<1>1. Posting(t) \in SUBSET journal
  BY DEF Posting
<1>2. EntriesOK(Posting(t))
  BY <1>1, JournalPart
<1> QED BY <1>2, FS_CardinalityType DEF EntriesOK

LEMMA LegsAtAre ==
  ASSUME NEW t \in Order, t.type \in PostingRuleTypes, NEW n \in Nat
  PROVE  /\ LegsAt(t, n) \in Seq(Leg)
         /\ Lines(LegsAt(t, n), Inverted) = LegsAt(t, n + 1)
<1>1. PICK s \in Seq(Leg) : s = JournalLegs(t)
  BY RulesYieldLegs
<1>2. PICK r : r = [i \in DOMAIN s |-> Inverted(s[i])]
  OBVIOUS
<1>3. \A i \in DOMAIN s : s[i] \in Leg /\ Inverted(s[i]) \in Leg /\ Inverted(Inverted(s[i])) = s[i]
  BY LegsAre, InvertedLeg
<1>4. r \in Seq(Leg) /\ DOMAIN r = DOMAIN s /\ Lines(s, Inverted) = r
  BY <1>2, <1>3 DEF Lines
<1>5. Lines(r, Inverted) = s
  <2>1. [i \in DOMAIN r |-> Inverted(r[i])] = [i \in DOMAIN s |-> s[i]]
    BY <1>2, <1>3, <1>4
  <2>2. [i \in DOMAIN s |-> s[i]] = s
    OBVIOUS
  <2> QED BY <2>1, <2>2 DEF Lines
<1> HIDE DEF Lines
<1>6. CASE n % 2 = 0
  BY <1>1, <1>4, <1>6, Parity DEF LegsAt
<1>7. CASE n % 2 = 1
  BY <1>1, <1>4, <1>5, <1>7, Parity DEF LegsAt
<1> QED BY <1>6, <1>7, Parity

\* The next entry of an order.
LEMMA HistoryGrows ==
  ASSUME BooksInv, HistoryInv, NEW t \in Order, t.type \in PostingRuleTypes,
         t.type # "JOURNAL_ADJUSTMENT" => Creatable(t),
         NEW n \in Nat, n = Cardinality(Posting(t)), NEW d \in Day, n = 0 => d = t.day,
         journal' = journal \cup {Entry(t, n, d, LegsAt(t, n))},
         EntryOK(Entry(t, n, d, LegsAt(t, n)))
  PROVE  HistoryInv'
<1>1. PICK e : e = Entry(t, n, d, LegsAt(t, n))
  OBVIOUS
<1>2. e.of = t /\ e.nth = n /\ e.day = d /\ e.legs = LegsAt(t, n)
  BY <1>1 DEF Entry
<1>3. e \notin Posting(t)
  BY <1>2 DEF HistoryInv, HistoryOK, Posting
<1>4. /\ Posting(t)' = Posting(t) \cup {e}
      /\ \A o : o # t => Posting(o)' = Posting(o)
  BY <1>1, <1>2 DEF Posting
<1>5. Cardinality(Posting(t)') = n + 1
  BY <1>3, <1>4, PostingOK, FS_AddElement DEF EntriesOK
<1>6. \A o : o # t => (InForce(o)' <=> InForce(o))
  BY <1>4 DEF InForce
<1>7. ASSUME NEW x \in journal' PROVE HistoryOK(x)'
  <2>1. CASE x = e
    BY <1>2, <1>5, <2>1 DEF HistoryOK
  <2>2. CASE x # e
    <3>1. HistoryOK(x)
      BY <1>1, <2>2 DEF HistoryInv
    <3>2. Cardinality(Posting(x.of)) <= Cardinality(Posting(x.of)') /\ Cardinality(Posting(x.of)') \in Nat
          /\ Cardinality(Posting(x.of)) \in Nat
      BY <1>4, <1>5, PostingOK
    <3> QED BY <3>1, <3>2 DEF HistoryOK
  <2> QED BY <2>1, <2>2
<1>8. ASSUME NEW o \in Order, Posted(o)'
      PROVE  \E x \in Posting(o)' : x.nth = Cardinality(Posting(o)') - 1
  <2>1. CASE o = t
    <3>1. e \in Posting(t)' /\ e.nth = Cardinality(Posting(t)') - 1
      BY <1>2, <1>4, <1>5
    <3> QED BY <2>1, <3>1
  <2>2. CASE o # t
    BY <1>4, <1>8, <2>2 DEF HistoryInv, Posted
  <2> QED BY <2>1, <2>2
<1>9. ASSUME NEW o \in Order PROVE Tallied(o)'
  <2>1. CASE o = t
    <3> SUFFICES ASSUME NEW w \in Weight
                 PROVE  Balance(w, Posting(t)') = IF InForce(t)' THEN LegsWeight(w, JournalLegs(t)) ELSE 0
      BY <2>1 DEF Tallied
    <3>1. w \in [Leg -> Int]
      BY DEF Weight
    <3>2. Balance(w, Posting(t)') = Balance(w, Posting(t)) + LegsWeight(w, LegsAt(t, n))
      BY <1>1, <1>2, <1>3, <1>4, <3>1, PostingOK, BalanceWith
    <3>3. Balance(w, Posting(t)) = IF InForce(t) THEN LegsWeight(w, JournalLegs(t)) ELSE 0
      BY DEF HistoryInv, Tallied
    <3>4. JournalLegs(t) \in Seq(Leg) /\ LegsWeight(w, JournalLegs(t)) \in Int
      BY <3>1, RulesYieldLegs, LegsWeightType
    <3>5. LegsWeight(w, Lines(JournalLegs(t), Inverted)) = -LegsWeight(w, JournalLegs(t))
      BY <3>4, InvertedWeight
    <3>6. (InForce(t) <=> n % 2 = 1) /\ (InForce(t)' <=> (n + 1) % 2 = 1)
      BY <1>5 DEF InForce
    <3>7. CASE n % 2 = 0
      <4>1. LegsAt(t, n) = JournalLegs(t)
        BY <3>7 DEF LegsAt
      <4>2. ~InForce(t) /\ InForce(t)'
        BY <3>6, <3>7, Parity
      <4> QED BY <3>2, <3>3, <3>4, <4>1, <4>2
    <3>8. CASE n % 2 = 1
      <4>1. LegsAt(t, n) = Lines(JournalLegs(t), Inverted)
        BY <3>8 DEF LegsAt
      <4>2. InForce(t) /\ ~InForce(t)'
        BY <3>6, <3>8, Parity
      <4> QED BY <3>2, <3>3, <3>4, <3>5, <4>1, <4>2
    <3> QED BY <3>7, <3>8, Parity
  <2>2. CASE o # t
    BY <1>4, <1>6, <2>2 DEF HistoryInv, Tallied
  <2> QED BY <2>1, <2>2
<1> QED BY <1>7, <1>8, <1>9 DEF HistoryInv

LEMMA HistoryPost ==
  ASSUME BooksInv, HistoryInv, NEW t \in Order, PostTransaction(t)
  PROVE  HistoryInv'
<1>1. t.type \in PostingRuleTypes /\ (t.type # "JOURNAL_ADJUSTMENT" => Creatable(t))
  BY DEF PostTransaction, Establishable, Creatable, PostingRuleTypes
<1>2. Cardinality(Posting(t)) = 0
  BY FS_EmptySet DEF PostTransaction, Posted
<1>3. LegsAt(t, 0) = JournalLegs(t)
  BY DEF LegsAt
<1>4. t.day \in Day
  BY OrderFields
<1>5. journal' = journal \cup {Entry(t, 0, t.day, LegsAt(t, 0))}
  BY <1>3 DEF PostTransaction
<1>6. EntryOK(Entry(t, 0, t.day, LegsAt(t, 0)))
  <2>1. PICK s \in Seq(Leg) : s = JournalLegs(t)
    BY <1>1, RulesYieldLegs
  <2>2. Balanced(s) /\ t.day \in Int
    BY <1>4, <2>1, BooksAssumption DEF PostTransaction
  <2> QED BY <1>3, <2>1, <2>2 DEF EntryOK, Entry
<1> QED BY <1>1, <1>2, <1>4, <1>5, <1>6, HistoryGrows

\* Only the latest entry of an order may be reversed.
LEMMA LatestEntry ==
  ASSUME BooksInv, HistoryInv, NEW e \in journal, ~\E x \in Posting(e.of) : x.nth > e.nth
  PROVE  Cardinality(Posting(e.of)) = e.nth + 1
<1>1. HistoryOK(e) /\ Posted(e.of)
  BY DEF HistoryInv, Posted, Posting
<1>2. PICK x \in Posting(e.of) : x.nth = Cardinality(Posting(e.of)) - 1
  BY <1>1 DEF HistoryInv, HistoryOK
<1>3. e.nth \in Nat /\ e.nth < Cardinality(Posting(e.of)) /\ ~(x.nth > e.nth)
  BY <1>1 DEF HistoryOK
<1>4. Cardinality(Posting(e.of)) \in Nat
  BY PostingOK
<1> QED BY <1>2, <1>3, <1>4

LEMMA HistoryReverse ==
  ASSUME BooksInv, HistoryInv, NEW e \in journal, NEW d \in Day, Reverse(e, d)
  PROVE  HistoryInv'
<1>1. HistoryOK(e) /\ EntryOK(e)
  BY DEF HistoryInv, BooksInv
<1>2. PICK t \in Order : t = e.of
  BY <1>1 DEF HistoryOK
<1>3. PICK n \in Nat : n = e.nth + 1
  BY <1>1 DEF HistoryOK
<1>4. n = Cardinality(Posting(t)) /\ n # 0
  BY <1>1, <1>2, <1>3, LatestEntry DEF Reverse, HistoryOK
<1>5. Lines(e.legs, Inverted) = LegsAt(t, n)
  BY <1>1, <1>2, <1>3, LegsAtAre DEF HistoryOK
<1>6. journal' = journal \cup {Entry(t, n, d, LegsAt(t, n))}
  BY <1>2, <1>3, <1>5 DEF Reverse
<1>7. EntryOK(Entry(t, n, d, LegsAt(t, n)))
  <2>1. LegsAt(t, n) \in Seq(Leg) /\ Balanced(LegsAt(t, n)) /\ d \in Int
    BY <1>1, <1>5, InvertedLegs, BooksAssumption DEF EntryOK
  <2> QED BY <2>1 DEF EntryOK, Entry
<1>8. t.type \in PostingRuleTypes /\ (t.type # "JOURNAL_ADJUSTMENT" => Creatable(t))
  BY <1>1, <1>2 DEF HistoryOK
<1> QED BY <1>4, <1>6, <1>7, <1>8, HistoryGrows

LEMMA HistoryInit == BooksInit => HistoryInv
<1> SUFFICES ASSUME BooksInit PROVE HistoryInv
  OBVIOUS
<1>1. \A t : Posting(t) = {} /\ ~Posted(t) /\ ~InForce(t)
  <2>1. \A t : Posting(t) = {}
    BY DEF BooksInit, Posting
  <2>2. Cardinality({}) = 0 /\ 0 % 2 = 0
    BY FS_EmptySet
  <2> QED BY <2>1, <2>2 DEF Posted, InForce
<1>2. \A w : Balance(w, {}) = 0
  BY SumEmpty DEF Balance
<1> QED BY <1>1, <1>2 DEF HistoryInv, Tallied, BooksInit

LEMMA HistoryStays ==
  ASSUME HistoryInv, UNCHANGED journal
  PROVE  HistoryInv'
<1>1. \A t : Posting(t)' = Posting(t) /\ (Posted(t)' <=> Posted(t)) /\ (InForce(t)' <=> InForce(t))
  BY DEF Posting, Posted, InForce
<1>2. \A e \in journal : HistoryOK(e)'
  BY <1>1 DEF HistoryInv, HistoryOK
<1>3. \A t \in Order : Posted(t)' => \E x \in Posting(t)' : x.nth = Cardinality(Posting(t)') - 1
  BY <1>1 DEF HistoryInv
<1>4. \A t \in Order : Tallied(t)'
  BY <1>1 DEF HistoryInv, Tallied
<1> QED BY <1>2, <1>3, <1>4 DEF HistoryInv

-----------------------------------------------------------------------------
(* Invoices and bills.                                                     *)

BillTypes == {"CUSTOMER_INVOICE", "VENDOR_BILL"}
PaymentKinds == {"CUSTOMER_PAYMENT", "PAY_VENDOR_BILL"}
ReleaseKinds == {"RETENTION_RELEASE"}

Once(t) == Cardinality(Posting(t)) = 1

BilledOK(b) == b \in Order /\ b.type \in BillTypes /\ Once(b)

AppliedOK(x) ==
  /\ x \in Order \X Order
  /\ x[2].type = BillOf(x[1].type) /\ x[2].type \in BillTypes
  /\ Once(x[1]) /\ Posted(x[2])

\* Nothing is applied twice or in excess.
BillsInv ==
  /\ IsFiniteSet(billed) /\ \A b \in billed : BilledOK(b)
  /\ IsFiniteSet(applied) /\ \A x \in applied : AppliedOK(x)
  /\ \A x \in applied, y \in applied : x[1] = y[1] => x = y
  /\ \A b \in billed : PaidAmount(b) <= b.amount /\ Released(b) <= b.retention

AmountOf(S) == SumFunctionOnSet([x \in S |-> x[1].amount], S)

LEMMA AppliedAmounts ==
  ASSUME NEW b
  PROVE  /\ PaidAmount(b) = AmountOf(AppliedTo(b, PaymentKinds))
         /\ Released(b) = AmountOf(AppliedTo(b, ReleaseKinds))
         /\ PaidAmount(b)' = AmountOf(AppliedTo(b, PaymentKinds)')
         /\ Released(b)' = AmountOf(AppliedTo(b, ReleaseKinds)')
  BY DEF PaidAmount, Released, AmountOf, Total, PaymentKinds, ReleaseKinds

\* Where nothing new is applied to a bill, its sums stay.
LEMMA SameApplied ==
  ASSUME NEW b, \A K : AppliedTo(b, K)' = AppliedTo(b, K)
  PROVE  PaidAmount(b)' = PaidAmount(b) /\ Released(b)' = Released(b)
  BY AppliedAmounts

LEMMA AmountsAre ==
  ASSUME NEW S, IsFiniteSet(S), \A x \in S : x \in Order \X Order
  PROVE  /\ AmountOf(S) \in Nat
         /\ \A R \in SUBSET S : AmountOf(R) <= AmountOf(S)
         /\ \A t \in Order, b \in Order :
              <<t, b>> \notin S => AmountOf(S \cup {<<t, b>>}) = AmountOf(S) + t.amount
<1>1. PICK f : f = [x \in S |-> x[1].amount]
  OBVIOUS
<1>2. \A x \in S : f[x] \in Nat
  BY <1>1, OrderFields
<1>3. AmountOf(S) \in Nat
  <2>1. SumFunctionOnSet(f, S) \in Nat
    BY <1>2, SumType
  <2> QED BY <1>1, <2>1 DEF AmountOf
<1>4. ASSUME NEW R \in SUBSET S
      PROVE  AmountOf(R) <= AmountOf(S)
  <2>1. PICK g : g = [x \in R |-> x[1].amount]
    OBVIOUS
  <2>2. IsFiniteSet(R) /\ \A x \in R : f[x] = g[x]
    BY <1>1, <2>1, FS_Subset
  <2>3. SumFunctionOnSet(f, R) = SumFunctionOnSet(g, R)
    BY <2>2, SumSame
  <2>4. SumFunctionOnSet(f, R) <= SumFunctionOnSet(f, S)
    BY <1>2, SumSubset
  <2> QED BY <1>1, <2>1, <2>3, <2>4 DEF AmountOf
<1>5. ASSUME NEW t \in Order, NEW b \in Order, <<t, b>> \notin S
      PROVE  AmountOf(S \cup {<<t, b>>}) = AmountOf(S) + t.amount
  <2>1. PICK x : x = <<t, b>>
    OBVIOUS
  <2>2. PICK g : g = [y \in S \cup {x} |-> y[1].amount]
    OBVIOUS
  <2>3. g[x] = t.amount /\ t.amount \in Int /\ \A y \in S : g[y] = f[y] /\ f[y] \in Int
    BY <1>1, <1>2, <2>1, <2>2, OrderFields
  <2>4. SumFunctionOnSet(g, S \cup {x}) = g[x] + SumFunctionOnSet(g, S)
    <3>1. x \notin S /\ \A y \in S \cup {x} : g[y] \in Int
      BY <1>5, <2>1, <2>3
    <3> QED BY <3>1, SumAdd
  <2>5. SumFunctionOnSet(g, S) = SumFunctionOnSet(f, S)
    BY <2>3, SumSame
  <2>6. /\ AmountOf(S \cup {x}) = SumFunctionOnSet(g, S \cup {x})
        /\ AmountOf(S) = SumFunctionOnSet(f, S)
    BY <1>1, <2>2 DEF AmountOf
  <2> QED BY <1>3, <2>1, <2>3, <2>4, <2>5, <2>6
<1> QED BY <1>3, <1>4, <1>5

LEMMA AppliedPart ==
  ASSUME BillsInv, NEW b, NEW K
  PROVE  /\ IsFiniteSet(AppliedTo(b, K))
         /\ \A x \in AppliedTo(b, K) : x \in Order \X Order
         /\ AmountOf(AppliedTo(b, K)) \in Nat
<1>1. AppliedTo(b, K) \in SUBSET applied
  BY DEF AppliedTo
<1>2. IsFiniteSet(AppliedTo(b, K))
  BY <1>1, FS_Subset DEF BillsInv
<1>3. \A x \in AppliedTo(b, K) : x \in Order \X Order
  BY <1>1 DEF BillsInv, AppliedOK
<1> QED BY <1>2, <1>3, AmountsAre

LEMMA BillSums ==
  ASSUME BillsInv, NEW b
  PROVE  PaidAmount(b) \in Nat /\ Released(b) \in Nat
  BY AppliedAmounts, AppliedPart

\* A reversal can only lessen what is applied.
LEMMA FewerApplied ==
  ASSUME BillsInv, applied' \in SUBSET applied, NEW b
  PROVE  /\ PaidAmount(b)' <= PaidAmount(b) /\ Released(b)' <= Released(b)
         /\ PaidAmount(b)' \in Nat /\ Released(b)' \in Nat
<1>1. ASSUME NEW K
      PROVE  /\ AmountOf(AppliedTo(b, K)') <= AmountOf(AppliedTo(b, K))
             /\ AmountOf(AppliedTo(b, K)') \in Nat
  <2>1. AppliedTo(b, K)' \in SUBSET AppliedTo(b, K)
    BY DEF AppliedTo
  <2>2. PICK S : S = AppliedTo(b, K)
    OBVIOUS
  <2>3. PICK R : R = AppliedTo(b, K)'
    OBVIOUS
  <2>4. IsFiniteSet(S) /\ \A x \in S : x \in Order \X Order
    BY <2>2, AppliedPart
  <2>5. R \in SUBSET S
    BY <2>1, <2>2, <2>3
  <2>6. IsFiniteSet(R) /\ \A x \in R : x \in Order \X Order
    BY <2>4, <2>5, FS_Subset
  <2>7. AmountOf(R) <= AmountOf(S) /\ AmountOf(R) \in Nat
    BY <2>4, <2>5, <2>6, AmountsAre
  <2> QED BY <2>2, <2>3, <2>7
<1> QED BY <1>1, AppliedAmounts

LEMMA BillsInit == BooksInit => BillsInv
  BY FS_EmptySet DEF BooksInit, BillsInv

LEMMA BillsStay ==
  ASSUME BillsInv, UNCHANGED <<journal, billed, applied>>
  PROVE  BillsInv'
<1>1. \A t : (Once(t)' <=> Once(t)) /\ (Posted(t)' <=> Posted(t))
  BY DEF Once, Posted, Posting
<1>2. \A b : PaidAmount(b)' = PaidAmount(b) /\ Released(b)' = Released(b)
  <2>1. \A b, K : AppliedTo(b, K)' = AppliedTo(b, K)
    BY DEF AppliedTo
  <2> QED BY <2>1, SameApplied
<1>3. \A b \in billed : BilledOK(b)'
  BY <1>1 DEF BillsInv, BilledOK
<1>4. \A x \in applied : AppliedOK(x)'
  BY <1>1 DEF BillsInv, AppliedOK
<1> QED BY <1>2, <1>3, <1>4 DEF BillsInv

\* Posting an order leaves the histories of the others alone.
LEMMA OthersStay ==
  ASSUME BooksInv, NEW t, NEW n, NEW d, NEW legs, journal' = journal \cup {Entry(t, n, d, legs)}
  PROVE  /\ \A o : o # t => (Once(o)' <=> Once(o))
         /\ \A o : Posted(o) => Posted(o)'
         /\ ~Posted(t) => Once(t)'
<1>1. PICK e : e = Entry(t, n, d, legs)
  OBVIOUS
<1>2. e.of = t
  BY <1>1 DEF Entry
<1>3. Posting(t)' = Posting(t) \cup {e} /\ \A o : o # t => Posting(o)' = Posting(o)
  BY <1>1, <1>2 DEF Posting
<1>4. ~Posted(t) => Posting(t)' = {e}
  BY <1>3 DEF Posted
<1>5. Cardinality({e}) = 1
  BY FS_Singleton
<1> QED BY <1>3, <1>4, <1>5 DEF Once, Posted

LEMMA OncePosted == ASSUME NEW t, Once(t) PROVE Posted(t)
  BY FS_EmptySet DEF Once, Posted

LEMMA PostedEntry ==
  ASSUME NEW t, PostTransaction(t)
  PROVE  /\ ~Posted(t)
         /\ journal' = journal \cup {Entry(t, 0, t.day, JournalLegs(t))}
         /\ billed' = billed \cup ({t} \cap {b \in Order : b.type \in BillTypes})
  BY DEF PostTransaction, BillTypes

LEMMA BillsBook ==
  ASSUME BooksInv, BillsInv, NEW t \in Order, Book(t)
  PROVE  BillsInv'
<1>1. /\ ~Posted(t) /\ UNCHANGED applied
      /\ journal' = journal \cup {Entry(t, 0, t.day, JournalLegs(t))}
      /\ billed' = billed \cup ({t} \cap {b \in Order : b.type \in BillTypes})
  BY PostedEntry DEF Book
<1>2. Once(t)' /\ \A o : (Once(o) => Once(o)') /\ (Posted(o) => Posted(o)')
  BY <1>1, OthersStay, OncePosted
<1>3. IsFiniteSet(billed')
  <2>1. IsFiniteSet(billed \cup {t}) /\ billed' \in SUBSET (billed \cup {t})
    BY <1>1, FS_AddElement DEF BillsInv
  <2> QED BY <2>1, FS_Subset
<1>4. \A b \in billed' : BilledOK(b)'
  BY <1>1, <1>2 DEF BillsInv, BilledOK
<1>5. \A x \in applied' : AppliedOK(x)'
  BY <1>1, <1>2 DEF BillsInv, AppliedOK
<1>6. \A b : PaidAmount(b)' = PaidAmount(b) /\ Released(b)' = Released(b)
  <2>1. \A b, K : AppliedTo(b, K)' = AppliedTo(b, K)
    BY <1>1 DEF AppliedTo
  <2> QED BY <2>1, SameApplied
<1>7. PaidAmount(t) = 0 /\ Released(t) = 0
  <2>1. \A K : AppliedTo(t, K) = {}
    BY <1>1 DEF AppliedTo, BillsInv, AppliedOK
  <2>2. AmountOf({}) = 0
    BY SumEmpty DEF AmountOf
  <2> QED BY <2>1, <2>2, AppliedAmounts
<1>8. \A b \in billed' : PaidAmount(b)' <= b.amount /\ Released(b)' <= b.retention
  <2>1. \A b \in billed' : b = t \/ b \in billed
    BY <1>1
  <2>2. 0 <= t.amount /\ 0 <= t.retention
    BY OrderFields
  <2> QED BY <1>6, <1>7, <2>1, <2>2 DEF BillsInv
<1> QED BY <1>1, <1>3, <1>4, <1>5, <1>8 DEF BillsInv

LEMMA SettledAmounts ==
  ASSUME BillsInv, NEW t \in Order, NEW b \in billed, b \in Order, ~\E c : <<t, c>> \in applied,
         applied' = applied \cup {<<t, b>>}
  PROVE  /\ \A c : c # b => PaidAmount(c)' = PaidAmount(c) /\ Released(c)' = Released(c)
         /\ PaidAmount(b)' = PaidAmount(b) + IF t.type \in PaymentKinds THEN t.amount ELSE 0
         /\ Released(b)' = Released(b) + IF t.type \in ReleaseKinds THEN t.amount ELSE 0
<1>1. \A c : c # b => PaidAmount(c)' = PaidAmount(c) /\ Released(c)' = Released(c)
  <2>1. \A c, K : c # b => AppliedTo(c, K)' = AppliedTo(c, K)
    BY DEF AppliedTo
  <2> QED BY <2>1, SameApplied
<1>2. ASSUME NEW K
      PROVE  AmountOf(AppliedTo(b, K)') =
               AmountOf(AppliedTo(b, K)) + IF t.type \in K THEN t.amount ELSE 0
  <2>1. PICK S : S = AppliedTo(b, K)
    OBVIOUS
  <2>2. IsFiniteSet(S) /\ (\A x \in S : x \in Order \X Order) /\ AmountOf(S) \in Nat
    BY <2>1, AppliedPart
  <2>3. <<t, b>> \notin S
    BY <2>1 DEF AppliedTo
  <2>4. AppliedTo(b, K)' = S \cup IF t.type \in K THEN {<<t, b>>} ELSE {}
    BY <2>1 DEF AppliedTo
  <2>5. AmountOf(S \cup {<<t, b>>}) = AmountOf(S) + t.amount
    BY <2>2, <2>3, AmountsAre
  <2>6. CASE t.type \in K
    BY <2>1, <2>4, <2>5, <2>6
  <2>7. CASE t.type \notin K
    <3>1. AppliedTo(b, K)' = S
      BY <2>4, <2>7
    <3> QED BY <2>1, <2>2, <2>7, <3>1
  <2> QED BY <2>6, <2>7
<1> QED BY <1>1, <1>2, AppliedAmounts

LEMMA BillsSettle ==
  ASSUME BooksInv, BillsInv, NEW t \in Order, NEW b \in billed, Settle(t, b)
  PROVE  BillsInv'
<1>1. /\ ~Posted(t)
      /\ journal' = journal \cup {Entry(t, 0, t.day, JournalLegs(t))}
      /\ billed' = billed \cup ({t} \cap {x \in Order : x.type \in BillTypes})
  BY PostedEntry DEF Settle
<1>2. applied' = applied \cup {<<t, b>>} /\ b.type = BillOf(t.type)
  BY DEF Settle
<1>3. BilledOK(b)
  BY DEF BillsInv
<1>4. t.type \in PaymentKinds \cup ReleaseKinds
  BY <1>2, <1>3 DEF BilledOK, BillTypes, BillOf, PaymentKinds, ReleaseKinds
<1>5. billed' = billed
  BY <1>1, <1>4 DEF BillTypes, PaymentKinds, ReleaseKinds
<1>6. Once(t)' /\ \A o : (Once(o) => Once(o)') /\ (Posted(o) => Posted(o)')
  BY <1>1, OthersStay, OncePosted
<1>7. ~\E c : <<t, c>> \in applied
  <2> SUFFICES ASSUME NEW c, <<t, c>> \in applied PROVE FALSE
    OBVIOUS
  <2>1. AppliedOK(<<t, c>>)
    BY DEF BillsInv
  <2>2. Once(t)
    BY <2>1 DEF AppliedOK
  <2> QED BY <1>1, <2>2, OncePosted
<1>8. \A x \in billed' : BilledOK(x)'
  BY <1>5, <1>6 DEF BillsInv, BilledOK
<1>9. \A x \in applied' : AppliedOK(x)'
  <2>1. Posted(b)
    BY <1>3, OncePosted DEF BilledOK
  <2>2. AppliedOK(<<t, b>>)'
    BY <1>2, <1>3, <1>6, <2>1 DEF AppliedOK, BilledOK
  <2>3. \A x \in applied : AppliedOK(x)'
    BY <1>6 DEF BillsInv, AppliedOK
  <2> QED BY <1>2, <2>2, <2>3
<1>10. \A x \in applied', y \in applied' : x[1] = y[1] => x = y
  <2>1. \A x \in applied : x[1] # t
    BY <1>1, OncePosted DEF BillsInv, AppliedOK
  <2> QED BY <1>2, <2>1 DEF BillsInv
<1>11. IsFiniteSet(applied')
  BY <1>2, FS_AddElement DEF BillsInv
<1>12. /\ \A c : c # b => PaidAmount(c)' = PaidAmount(c) /\ Released(c)' = Released(c)
       /\ PaidAmount(b)' = PaidAmount(b) + IF t.type \in PaymentKinds THEN t.amount ELSE 0
       /\ Released(b)' = Released(b) + IF t.type \in ReleaseKinds THEN t.amount ELSE 0
  BY <1>2, <1>3, <1>7, SettledAmounts DEF BilledOK
<1>13. PaidAmount(b)' <= b.amount /\ Released(b)' <= b.retention
  <2>1. PICK a \in Nat, r \in Nat, m \in Nat : a = b.amount /\ r = b.retention /\ m = t.amount
    BY <1>3, OrderFields DEF BilledOK
  <2>2. PICK u \in Nat, v \in Nat : u = PaidAmount(b) /\ v = Released(b)
    BY BillSums
  <2>3. u <= a /\ v <= r
    BY <2>1, <2>2 DEF BillsInv
  <2>4. UnreleasedRetention(b) = IF 0 >= r - v THEN 0 ELSE r - v
    BY <2>1, <2>2, MaxOfTwo DEF UnreleasedRetention
  <2>5. Outstanding(b) = IF 0 >= a - r + v - u THEN 0 ELSE a - r + v - u
    BY <2>1, <2>2, MaxOfTwo DEF Outstanding, CollectibleAmount
  <2>6. m <= IF t.type = "RETENTION_RELEASE" THEN UnreleasedRetention(b) ELSE Outstanding(b)
    BY <2>1 DEF Settle
  <2>7. CASE t.type \in ReleaseKinds
    <3>1. t.type \notin PaymentKinds /\ t.type = "RETENTION_RELEASE"
      BY <2>7 DEF PaymentKinds, ReleaseKinds
    <3> QED BY <1>12, <2>1, <2>2, <2>3, <2>4, <2>6, <2>7, <3>1
  <2>8. CASE t.type \in PaymentKinds
    <3>1. t.type \notin ReleaseKinds /\ t.type # "RETENTION_RELEASE"
      BY <2>8 DEF PaymentKinds, ReleaseKinds
    <3> QED BY <1>12, <2>1, <2>2, <2>3, <2>5, <2>6, <2>8, <3>1
  <2> QED BY <1>4, <2>7, <2>8
<1>14. \A c \in billed' : PaidAmount(c)' <= c.amount /\ Released(c)' <= c.retention
  BY <1>5, <1>12, <1>13 DEF BillsInv
<1> QED BY <1>5, <1>8, <1>9, <1>10, <1>11, <1>14 DEF BillsInv

LEMMA BillsReverse ==
  ASSUME BooksInv, HistoryInv, BillsInv, NEW e \in journal, NEW d \in Day, Reverse(e, d)
  PROVE  BillsInv'
<1>1. PICK t : t = e.of
  OBVIOUS
<1>2. journal' = journal \cup {Entry(t, e.nth + 1, d, Lines(e.legs, Inverted))}
  BY <1>1 DEF Reverse
<1>3. e.nth \in Nat /\ Cardinality(Posting(t)) = e.nth + 1
  BY <1>1, LatestEntry DEF Reverse, HistoryInv, HistoryOK
<1>4. (\A o : o # t => (Once(o)' <=> Once(o))) /\ (\A o : Posted(o) => Posted(o)')
  BY <1>2, OthersStay
<1>5. billed' \in SUBSET billed /\ applied' \in SUBSET applied
  BY DEF Reverse, BilledAfter, AppliedAfter
<1>6. t \notin billed' /\ \A x \in applied' : x[1] # t
  <2>1. CASE e.nth = 0
    BY <1>1, <2>1 DEF Reverse, BilledAfter, AppliedAfter
  <2>2. CASE e.nth # 0
    BY <1>3, <1>5, <2>2 DEF BillsInv, BilledOK, AppliedOK, Once
  <2> QED BY <2>1, <2>2
<1>7. \A b \in billed' : BilledOK(b)'
  BY <1>4, <1>5, <1>6 DEF BillsInv, BilledOK
<1>8. \A x \in applied' : AppliedOK(x)'
  BY <1>4, <1>5, <1>6 DEF BillsInv, AppliedOK
<1>9. IsFiniteSet(billed') /\ IsFiniteSet(applied')
  BY <1>5, FS_Subset DEF BillsInv
<1>10. \A b \in billed' : PaidAmount(b)' <= b.amount /\ Released(b)' <= b.retention
  <2> SUFFICES ASSUME NEW b \in billed' PROVE PaidAmount(b)' <= b.amount /\ Released(b)' <= b.retention
    OBVIOUS
  <2>1. PaidAmount(b) <= b.amount /\ Released(b) <= b.retention /\ b \in Order
    BY <1>5 DEF BillsInv, BilledOK
  <2>2. b.amount \in Nat /\ b.retention \in Nat /\ PaidAmount(b) \in Nat /\ Released(b) \in Nat
    BY <2>1, OrderFields, BillSums
  <2>3. /\ PaidAmount(b)' <= PaidAmount(b) /\ Released(b)' <= Released(b)
        /\ PaidAmount(b)' \in Nat /\ Released(b)' \in Nat
    BY <1>5, FewerApplied
  <2> QED BY <2>1, <2>2, <2>3
<1>11. \A x \in applied', y \in applied' : x[1] = y[1] => x = y
  BY <1>5 DEF BillsInv
<1> QED BY <1>7, <1>8, <1>9, <1>10, <1>11 DEF BillsInv

LEMMA RecordsStep ==
  BooksInv /\ HistoryInv /\ BillsInv /\ [BooksNext]_booksVars => HistoryInv' /\ BillsInv'
<1> SUFFICES ASSUME BooksInv, HistoryInv, BillsInv, [BooksNext]_booksVars
             PROVE  HistoryInv' /\ BillsInv'
  OBVIOUS
<1>1. ASSUME NEW t \in Order, Book(t)
      PROVE  HistoryInv' /\ BillsInv'
  BY <1>1, HistoryPost, BillsBook DEF Book
<1>2. ASSUME NEW t \in Order, NEW b \in billed, Settle(t, b)
      PROVE  HistoryInv' /\ BillsInv'
  BY <1>2, HistoryPost, BillsSettle DEF Settle
<1>3. ASSUME NEW e \in journal, NEW d \in Day, Reverse(e, d)
      PROVE  HistoryInv' /\ BillsInv'
  BY <1>3, HistoryReverse, BillsReverse
<1>4. ASSUME UNCHANGED <<journal, billed, applied>>
      PROVE  HistoryInv' /\ BillsInv'
  BY <1>4, HistoryStays, BillsStay
<1> QED BY <1>1, <1>2, <1>3, <1>4 DEF BooksNext, CreateAccount, UpdateAccount, booksVars

RecordsInv == BooksInv /\ HistoryInv /\ BillsInv

(* Whatever is posted, settled and reversed, the entries of an order       *)
(* alternate between its legs and their reversal, an order is applied to   *)
(* at most one invoice or bill and only while it is posted once, and no    *)
(* open invoice or bill is paid or released beyond its amounts.            *)
THEOREM RecordsStayTrue == BooksSpec => []RecordsInv
<1>1. BooksInit => RecordsInv
  BY BooksInvInit, HistoryInit, BillsInit DEF RecordsInv
<1>2. RecordsInv /\ [BooksNext]_booksVars => RecordsInv'
  BY BooksInvStep, RecordsStep DEF RecordsInv
<1> QED BY <1>1, <1>2, PTL DEF BooksSpec

-----------------------------------------------------------------------------
(* Order by order.                                                         *)

Live == {t \in Order : InForce(t)}
Recorded(T) == {e \in journal : e.of \in T}
LegsValue(w, t) == LegsWeight(w, JournalLegs(t))

LEMMA PostedIsFinite == ASSUME RecordsInv PROVE IsFiniteSet({t \in Order : Posted(t)})
<1>1. PICK Q : Q = {t \in Order : Posted(t)}
  OBVIOUS
<1>2. PICK f : f = [e \in journal |-> e.of]
  OBVIOUS
<1>3. f \in [journal -> Q]
  BY <1>1, <1>2 DEF RecordsInv, HistoryInv, HistoryOK, Posted, Posting
<1>4. \A t \in Q : \E e \in journal : f[e] = t
  BY <1>1, <1>2 DEF Posted, Posting
<1>5. f \in Surjection(journal, Q)
  BY <1>3, <1>4 DEF Surjection
<1>6. IsFiniteSet(journal)
  BY DEF RecordsInv, BooksInv
<1> QED BY <1>1, <1>5, <1>6, FS_Surjection

LEMMA InForceIsPosted == ASSUME NEW t, InForce(t) PROVE Posted(t)
<1>1. Cardinality({}) = 0 /\ 0 % 2 = 0
  BY FS_EmptySet
<1> QED BY <1>1 DEF InForce, Posted

LEMMA LiveIsFinite == ASSUME RecordsInv, NEW S \in SUBSET Live PROVE IsFiniteSet(S)
<1>1. S \in SUBSET {t \in Order : Posted(t)}
  BY InForceIsPosted DEF Live
<1> QED BY <1>1, PostedIsFinite, FS_Subset

LEMMA LiveOrders ==
  ASSUME RecordsInv, NEW t \in Live
  PROVE  /\ t \in Order /\ t.type \in PostingRuleTypes
         /\ t.type # "JOURNAL_ADJUSTMENT" => Creatable(t)
<1>1. PICK e \in journal : e.of = t
  BY InForceIsPosted DEF Live, Posted, Posting
<1> QED BY <1>1 DEF RecordsInv, HistoryInv, HistoryOK, Live

LEMMA LegsValueType ==
  ASSUME RecordsInv, NEW w \in [Leg -> Int], NEW t \in Live
  PROVE  LegsValue(w, t) \in Int
  BY LiveOrders, RulesYieldLegs, LegsWeightType DEF LegsValue

\* Entries that were reversed cancel out: what counts are the orders in force.
LEMMA BalanceByOrder ==
  ASSUME RecordsInv, NEW w \in Weight, NEW T \in SUBSET Order
  PROVE  Balance(w, Recorded(T)) =
           SumFunctionOnSet([t \in T \cap Live |-> LegsValue(w, t)], T \cap Live)
<1>1. PICK Q : Q = {t \in T : Posted(t)}
  OBVIOUS
<1>2. PICK f : f = [e \in journal |-> LegsWeight(w, e.legs)]
  OBVIOUS
<1>3. PICK key : key = [e \in journal |-> e.of]
  OBVIOUS
<1>4. PICK groups : groups = [t \in Q |-> Balance(w, Posting(t))]
  OBVIOUS
<1>5. w \in [Leg -> Int]
  BY DEF Weight
<1>6. BooksInv /\ HistoryInv /\ EntriesOK(journal) /\ IsFiniteSet(journal)
  BY JournalPart DEF RecordsInv, EntriesOK
<1>7. \A e \in journal : f[e] \in Int
  BY <1>2, <1>5, <1>6, LegsWeightType DEF EntriesOK, EntryOK
<1>8. IsFiniteSet(Q)
  <2>1. Q \in SUBSET {t \in Order : Posted(t)}
    BY <1>1
  <2> QED BY <2>1, PostedIsFinite, FS_Subset
<1>9. ASSUME NEW t \in Q
      PROVE  groups[t] = SumFunctionOnSet(f, Under(key, journal, t))
  <2>1. PICK P : P = Posting(t)
    OBVIOUS
  <2>2. Under(key, journal, t) = P /\ P \in SUBSET journal
    BY <1>3, <2>1 DEF Under, Posting
  <2>3. PICK g : g = [e \in P |-> LegsWeight(w, e.legs)]
    OBVIOUS
  <2>4. IsFiniteSet(P) /\ \A e \in P : f[e] = g[e]
    BY <1>2, <1>6, <2>2, <2>3, FS_Subset
  <2>5. SumFunctionOnSet(f, P) = SumFunctionOnSet(g, P)
    BY <2>4, SumSame
  <2> QED BY <1>4, <2>1, <2>2, <2>3, <2>5 DEF Balance
<1>10. SumFunctionOnSet(groups, Q) = SumFunctionOnSet(f, UnderAny(key, journal, Q))
  BY <1>6, <1>7, <1>8, <1>9, SumGrouped
<1>11. UnderAny(key, journal, Q) = Recorded(T)
  BY <1>1, <1>3 DEF UnderAny, Recorded, Posted, Posting
<1>12. SumFunctionOnSet(f, Recorded(T)) = Balance(w, Recorded(T))
  <2>1. PICK P : P = Recorded(T)
    OBVIOUS
  <2>2. PICK g : g = [e \in P |-> LegsWeight(w, e.legs)]
    OBVIOUS
  <2>3. P \in SUBSET journal
    BY <2>1 DEF Recorded
  <2>4. IsFiniteSet(P) /\ \A e \in P : f[e] = g[e]
    BY <1>2, <1>6, <2>2, <2>3, FS_Subset
  <2>5. SumFunctionOnSet(f, P) = SumFunctionOnSet(g, P)
    BY <2>4, SumSame
  <2> QED BY <2>1, <2>2, <2>5 DEF Balance
<1>13. PICK L : L = T \cap Live
  OBVIOUS
<1>14. PICK h : h = [t \in L |-> LegsValue(w, t)]
  OBVIOUS
<1>15. \A t \in Q : groups[t] = IF InForce(t) THEN LegsValue(w, t) ELSE 0
  BY <1>1, <1>4, <1>6 DEF HistoryInv, Tallied, LegsValue
<1>16. L \in SUBSET Q /\ IsFiniteSet(L)
  BY <1>1, <1>8, <1>13, InForceIsPosted, FS_Subset DEF Live
<1>17. \A t \in L : groups[t] = h[t] /\ h[t] \in Int
  BY <1>5, <1>13, <1>14, <1>15, <1>16, LegsValueType DEF Live
<1>18. \A t \in Q \ L : groups[t] = 0
  BY <1>1, <1>13, <1>15 DEF Live
<1>19. SumFunctionOnSet(groups, Q) = SumFunctionOnSet(groups, L)
  BY <1>8, <1>16, <1>17, <1>18, SumWithin
<1>20. SumFunctionOnSet(groups, L) = SumFunctionOnSet(h, L)
  BY <1>16, <1>17, SumSame
<1> QED BY <1>10, <1>11, <1>12, <1>13, <1>14, <1>19, <1>20

-----------------------------------------------------------------------------
(* Rule by rule.                                                           *)

\* The accounts that any of the ties is about.
TiedCodes == {1101, 1201, 1202, 2101, 4101}
Tying == {w \in [Leg -> Int] : \A x \in Leg : x.code \notin TiedCodes => w[x] = 0}

LEMMA PlainSides ==
  ASSUME NEW code \in Int, NEW m \in Int
  PROVE  /\ Dr(code, m) \in Leg /\ Cr(code, m) \in Leg
         /\ Dr(code, m).code = code /\ Cr(code, m).code = code
<1>1. Dr(code, m) \in RuleLeg /\ Cr(code, m) \in RuleLeg
  BY PlainLegs
<1>2. \A x \in RuleLeg : x \in Leg
  BY DEF RuleLeg
<1>3. Dr(code, m).code = code /\ Cr(code, m).code = code
  BY DEF Dr, Cr, Debit, Credit
<1> QED BY <1>1, <1>2, <1>3

LEMMA WeightIf ==
  ASSUME NEW w \in [Leg -> Int], NEW x \in Leg, NEW b \in BOOLEAN
  PROVE  /\ (IF b THEN <<x>> ELSE <<>>) \in Seq(Leg)
         /\ LegsWeight(w, IF b THEN <<x>> ELSE <<>>) = IF b THEN w[x] ELSE 0
<1>1. <<x>> \in Seq(Leg) /\ <<>> \in Seq(Leg)
  OBVIOUS
<1>2. CASE b
  BY <1>1, <1>2, WeightOfOne
<1>3. CASE ~b
  BY <1>1, <1>3, WeightOfNone
<1> QED BY <1>2, <1>3

LEMMA PlainCodes ==
  ASSUME NEW w \in Tying, NEW code \in Int, code \notin TiedCodes, NEW m \in Int
  PROVE  w[Dr(code, m)] = 0 /\ w[Cr(code, m)] = 0
  BY PlainSides DEF Tying

LEMMA CostsAreUntied ==
  ASSUME NEW w \in Tying, NEW t \in Order
  PROVE  CostLegs(t) \in Seq(Leg) /\ LegsWeight(w, CostLegs(t)) = 0
<1>1. PICK s \in Seq(RuleLeg) : s = CostLegs(t)
  BY CostLegsAreLegs
<1>2. s \in Seq(Leg)
  BY DEF RuleLeg
<1>3. \A i \in DOMAIN s : s[i].code \notin TiedCodes
  <2>1. \A k : ExpenseAccount(k) \notin TiedCodes
    BY DEF ExpenseAccount, ExpenseAccounts, TiedCodes
  <2>2. \A a : CostLeg(a).code \notin TiedCodes
    BY <2>1 DEF CostLeg, Debit, TiedCodes
  <2>3. Dr(5101, t.amount).code \notin TiedCodes
    BY DEF Dr, Debit, TiedCodes
  <2>4. CASE t.allocations = <<>>
    <3>1. s = <<Dr(5101, t.amount)>>
      BY <1>1, <2>4 DEF CostLegs
    <3> QED BY <2>3, <3>1
  <2>5. CASE t.allocations # <<>>
    <3>1. s = [i \in DOMAIN t.allocations |-> CostLeg(t.allocations[i])]
      BY <1>1, <2>5 DEF CostLegs, Lines
    <3> QED BY <2>2, <3>1
  <2> QED BY <2>4, <2>5
<1>4. \A i \in DOMAIN s : w[s[i]] = 0
  BY <1>2, <1>3, LegsAre DEF Tying
<1>5. w \in [Leg -> Int]
  BY DEF Tying
<1> QED BY <1>1, <1>2, <1>4, <1>5, NoWeight

RevenueLegs(t) ==
  IF t.allocations = <<>> THEN <<Cr(4101, t.amount)>>
  ELSE [i \in DOMAIN t.allocations |->
          Credit(4101, t.allocations[i].amount, t.allocations[i].project, "NONE", "NONE")]

LEMMA RevenueLegsAre ==
  ASSUME NEW t \in Order
  PROVE  /\ RevenueLegs(t) \in Seq(Leg)
         /\ \A i \in DOMAIN RevenueLegs(t) : RevenueLegs(t)[i].code = 4101
<1>1. <<Cr(4101, t.amount)>> \in Seq(Leg) /\ Cr(4101, t.amount).code = 4101
  <2>1. t.amount \in Int
    BY OrderFields
  <2> QED BY <2>1, PlainSides
<1>2. CASE t.allocations = <<>>
  BY <1>1, <1>2 DEF RevenueLegs
<1>3. CASE t.allocations # <<>>
  <2>1. ASSUME NEW i \in DOMAIN t.allocations
        PROVE  /\ Credit(4101, t.allocations[i].amount, t.allocations[i].project, "NONE", "NONE") \in Leg
               /\ Credit(4101, t.allocations[i].amount, t.allocations[i].project, "NONE", "NONE").code = 4101
    <3>1. t.allocations[i] \in Allocation
      BY OrderFields
    <3>2. t.allocations[i].amount \in Int /\ t.allocations[i].project \in ItsProject
      BY <3>1, AllocationFields
    <3> QED BY <3>2, NotNamed, SidesAreLegs DEF Credit
  <2>2. PICK s : s = [i \in DOMAIN t.allocations |->
                        Credit(4101, t.allocations[i].amount, t.allocations[i].project, "NONE", "NONE")]
    OBVIOUS
  <2>3. s \in Seq(Leg) /\ \A i \in DOMAIN s : s[i].code = 4101
    BY <2>1, <2>2, OrderFields
  <2>4. RevenueLegs(t) = s
    BY <1>3, <2>2 DEF RevenueLegs
  <2> QED BY <2>3, <2>4
<1> QED BY <1>2, <1>3

LEMMA InvoiceValue ==
  ASSUME NEW w \in [Leg -> Int], NEW t \in Order
  PROVE  LegsWeight(w, CustomerInvoice(t)) =
           (IF t.amount - t.retention > 0 THEN w[Dr(1201, t.amount - t.retention)] ELSE 0)
             + (IF t.retention > 0 THEN w[Dr(1202, t.retention)] ELSE 0)
             + LegsWeight(w, RevenueLegs(t))
<1>1. PICK m \in Int, r \in Int : m = t.amount - t.retention /\ r = t.retention
  BY OrderFields
<1>2. PICK x \in Leg, y \in Leg : x = Dr(1201, m) /\ y = Dr(1202, r)
  BY PlainSides
<1>3. (m > 0) \in BOOLEAN /\ (r > 0) \in BOOLEAN
  OBVIOUS
<1>4. PICK a : a = IF m > 0 THEN <<x>> ELSE <<>>
  OBVIOUS
<1>5. PICK b : b = IF r > 0 THEN <<y>> ELSE <<>>
  OBVIOUS
<1>6. a \in Seq(Leg) /\ LegsWeight(w, a) = IF m > 0 THEN w[x] ELSE 0
  BY <1>3, <1>4, WeightIf
<1>7. b \in Seq(Leg) /\ LegsWeight(w, b) = IF r > 0 THEN w[y] ELSE 0
  BY <1>3, <1>5, WeightIf
<1>8. PICK c \in Seq(Leg) : c = RevenueLegs(t)
  BY RevenueLegsAre
<1>9. CustomerInvoice(t) = a \o b \o c
  BY <1>1, <1>2, <1>4, <1>5, <1>8 DEF CustomerInvoice, RevenueLegs, Lines
<1>10. a \o b \in Seq(Leg)
  BY <1>6, <1>7
<1>11. /\ LegsWeight(w, a \o b \o c) = LegsWeight(w, a \o b) + LegsWeight(w, c)
       /\ LegsWeight(w, a \o b) = LegsWeight(w, a) + LegsWeight(w, b)
  BY <1>6, <1>7, <1>10, WeightOfBoth
<1> QED BY <1>1, <1>2, <1>6, <1>7, <1>8, <1>9, <1>11

Transfers == {"BANK_TO_CASH", "CASH_TO_BANK", "INTERBANK_TRANSFER"}
Receipts == {"CUSTOMER_ADVANCE", "OWNER_CONTRIBUTION"}
Expenditures == {"VENDOR_ADVANCE", "OWNER_WITHDRAWAL", "BANK_CHARGE"}
CostRules == {"DIRECT_PURCHASE", "VENDOR_BILL", "SUBCONTRACTOR_BILL", "SETTLE_VENDOR_ADVANCE"}

PayableDebit(t) == Debit(2101, t.amount, FirstProject(t), "NONE", "NONE")
TransferIn(t) == Debit(1101, t.amount, "NONE", "NONE", t.to)

LEMMA TiedLegs ==
  ASSUME NEW t \in Order
  PROVE  /\ CashIn(t) \in Leg /\ PayableDebit(t) \in Leg /\ TransferIn(t) \in Leg
         /\ \A p \in ItsProject : CashOut(t, p) \in Leg
         /\ \A c \in Int : Dr(c, t.amount) \in Leg /\ Cr(c, t.amount) \in Leg
<1>1. \A x \in RuleLeg : x \in Leg
  BY DEF RuleLeg
<1>2. t.amount \in Int /\ FirstProject(t) \in ItsProject /\ t.to \in ItsAccount
  BY OrderFields, Projects
<1>3. PayableDebit(t) \in Leg /\ TransferIn(t) \in Leg
  BY <1>2, NotNamed, SidesAreLegs DEF PayableDebit, TransferIn
<1> QED BY <1>1, <1>2, <1>3, CashLegs, PlainSides

LEMMA CostRuleValues ==
  ASSUME NEW w \in Tying, NEW t \in Order
  PROVE  /\ t.type = "DIRECT_PURCHASE" => LegsValue(w, t) = w[CashOut(t, OnlyProject(t))]
         /\ t.type \in {"VENDOR_BILL", "SUBCONTRACTOR_BILL"} => LegsValue(w, t) = w[Cr(2101, t.amount)]
         /\ t.type = "SETTLE_VENDOR_ADVANCE" => LegsValue(w, t) = 0
<1>1. w \in [Leg -> Int]
  BY DEF Tying
<1>2. PICK c \in Seq(Leg) : c = CostLegs(t) /\ LegsWeight(w, c) = 0
  BY CostsAreUntied
<1>3. PICK x \in Leg, y \in Leg, z \in Leg :
        x = CashOut(t, OnlyProject(t)) /\ y = Cr(2101, t.amount) /\ z = Cr(1301, t.amount)
  BY TiedLegs, Projects
<1>4. LegsWeight(w, c \o <<x>>) = 0 + w[x] /\ LegsWeight(w, c \o <<y>>) = 0 + w[y]
      /\ LegsWeight(w, c \o <<z>>) = 0 + w[z]
  BY <1>1, <1>2, OneMore
<1>5. w[x] \in Int /\ w[y] \in Int /\ w[z] = 0
  <2>1. z.code = 1301
    BY <1>3 DEF Cr, Credit
  <2> QED BY <1>1, <2>1 DEF Tying, TiedCodes
<1>6. /\ DirectPurchase(t) = c \o <<x>> /\ VendorBill(t) = c \o <<y>>
      /\ SettleVendorAdvance(t) = c \o <<z>>
  BY <1>2, <1>3 DEF DirectPurchase, VendorBill, SettleVendorAdvance
<1>7. /\ t.type = "DIRECT_PURCHASE" => JournalLegs(t) = c \o <<x>>
      /\ t.type \in {"VENDOR_BILL", "SUBCONTRACTOR_BILL"} => JournalLegs(t) = c \o <<y>>
      /\ t.type = "SETTLE_VENDOR_ADVANCE" => JournalLegs(t) = c \o <<z>>
  BY <1>6 DEF JournalLegs
<1>8. ASSUME JournalLegs(t) = c \o <<x>> PROVE LegsValue(w, t) = w[x]
  BY <1>4, <1>5, <1>8 DEF LegsValue
<1>9. ASSUME JournalLegs(t) = c \o <<y>> PROVE LegsValue(w, t) = w[y]
  BY <1>4, <1>5, <1>9 DEF LegsValue
<1>10. ASSUME JournalLegs(t) = c \o <<z>> PROVE LegsValue(w, t) = 0
  BY <1>4, <1>5, <1>10 DEF LegsValue
<1> QED BY <1>3, <1>7, <1>8, <1>9, <1>10

LEMMA PairValue ==
  ASSUME NEW w \in [Leg -> Int], NEW x \in Leg, NEW y \in Leg, NEW t, JournalLegs(t) = <<x, y>>
  PROVE  LegsValue(w, t) = w[x] + w[y]
  BY WeightOfTwo DEF LegsValue

LEMMA CustomerRuleValues ==
  ASSUME NEW w \in Tying, NEW t \in Order
  PROVE  /\ t.type = "CUSTOMER_INVOICE" => LegsValue(w, t) = LegsWeight(w, CustomerInvoice(t))
         /\ t.type = "RETENTION_RELEASE" =>
              LegsValue(w, t) = w[Dr(1201, t.amount)] + w[Cr(1202, t.amount)]
         /\ t.type = "CUSTOMER_PAYMENT" => LegsValue(w, t) = w[CashIn(t)] + w[Cr(1201, t.amount)]
         /\ t.type \in Receipts => LegsValue(w, t) = w[CashIn(t)]
<1>1. w \in [Leg -> Int]
  BY DEF Tying
<1>2. t.amount \in Int
  BY OrderFields
<1>3. /\ CashIn(t) \in Leg /\ Cr(1201, t.amount) \in Leg /\ Dr(1201, t.amount) \in Leg
      /\ Cr(1202, t.amount) \in Leg /\ Cr(2201, t.amount) \in Leg /\ Cr(3101, t.amount) \in Leg
  BY TiedLegs
<1>4. w[Cr(2201, t.amount)] = 0 /\ w[Cr(3101, t.amount)] = 0 /\ w[CashIn(t)] \in Int
  BY <1>1, <1>2, <1>3, PlainCodes DEF TiedCodes
<1>5. CASE t.type = "CUSTOMER_INVOICE"
  <2>1. JournalLegs(t) = CustomerInvoice(t)
    BY <1>5 DEF JournalLegs
  <2> QED BY <1>5, <2>1 DEF LegsValue, Receipts
<1>6. CASE t.type = "RETENTION_RELEASE"
  <2>1. JournalLegs(t) = <<Dr(1201, t.amount), Cr(1202, t.amount)>>
    BY <1>6 DEF JournalLegs, RetentionRelease
  <2> QED BY <1>1, <1>3, <1>6, <2>1, PairValue DEF Receipts
<1>7. CASE t.type = "CUSTOMER_PAYMENT"
  <2>1. JournalLegs(t) = <<CashIn(t), Cr(1201, t.amount)>>
    BY <1>7 DEF JournalLegs, CustomerPayment
  <2> QED BY <1>1, <1>3, <1>7, <2>1, PairValue DEF Receipts
<1>8. CASE t.type = "CUSTOMER_ADVANCE"
  <2>1. JournalLegs(t) = <<CashIn(t), Cr(2201, t.amount)>>
    BY <1>8 DEF JournalLegs, CustomerAdvance
  <2> QED BY <1>1, <1>3, <1>4, <1>8, <2>1, PairValue
<1>9. CASE t.type = "OWNER_CONTRIBUTION"
  <2>1. JournalLegs(t) = <<CashIn(t), Cr(3101, t.amount)>>
    BY <1>9 DEF JournalLegs, OwnerContribution
  <2> QED BY <1>1, <1>3, <1>4, <1>9, <2>1, PairValue
<1> QED BY <1>5, <1>6, <1>7, <1>8, <1>9 DEF Receipts

LEMMA PaymentRuleValues ==
  ASSUME NEW w \in Tying, NEW t \in Order
  PROVE  /\ t.type \in {"PAY_VENDOR_BILL", "PAY_SUBCONTRACTOR"} =>
              LegsValue(w, t) = w[PayableDebit(t)] + w[CashOut(t, FirstProject(t))]
         /\ t.type \in Expenditures => LegsValue(w, t) = w[CashOut(t, "NONE")]
         /\ t.type \in Transfers => LegsValue(w, t) = w[TransferIn(t)] + w[CashOut(t, "NONE")]
         /\ t.type = "FIXED_ASSET_DEPRECIATION" => LegsValue(w, t) = 0
         /\ t.type = "ASSET_PURCHASE" =>
              LegsValue(w, t) = IF t.from # "NONE" THEN w[CashOut(t, "NONE")] ELSE w[Cr(2101, t.amount)]
<1>1. w \in [Leg -> Int]
  BY DEF Tying
<1>2. t.amount \in Int
  BY OrderFields
<1>3. PICK p \in Leg, q \in Leg, r \in Leg, x \in Leg, y \in Leg :
        /\ p = PayableDebit(t) /\ q = CashOut(t, FirstProject(t)) /\ r = TransferIn(t)
        /\ x = CashOut(t, "NONE") /\ y = Cr(2101, t.amount)
  BY TiedLegs, Projects, NotNamed
<1>4. /\ Dr(1301, t.amount) \in Leg /\ Dr(3301, t.amount) \in Leg /\ Dr(6107, t.amount) \in Leg
      /\ Dr(6108, t.amount) \in Leg /\ Cr(1502, t.amount) \in Leg /\ Dr(1501, t.amount) \in Leg
  BY TiedLegs
<1>5. /\ w[Dr(1301, t.amount)] = 0 /\ w[Dr(3301, t.amount)] = 0 /\ w[Dr(6107, t.amount)] = 0
      /\ w[Dr(6108, t.amount)] = 0 /\ w[Cr(1502, t.amount)] = 0 /\ w[Dr(1501, t.amount)] = 0
  BY <1>2, PlainCodes DEF TiedCodes
<1>6. w[x] \in Int /\ w[y] \in Int
  BY <1>1
<1>7. CASE t.type \in {"PAY_VENDOR_BILL", "PAY_SUBCONTRACTOR"}
  <2>1. JournalLegs(t) = <<p, q>>
    BY <1>3, <1>7 DEF JournalLegs, PayVendorBill, PayableDebit
  <2> QED BY <1>1, <1>3, <1>7, <2>1, PairValue DEF Expenditures, Transfers
<1>8. CASE t.type \in Expenditures
  <2>1. t.type = "VENDOR_ADVANCE" => JournalLegs(t) = <<Dr(1301, t.amount), x>>
    BY <1>3 DEF JournalLegs, VendorAdvance
  <2>2. t.type = "OWNER_WITHDRAWAL" => JournalLegs(t) = <<Dr(3301, t.amount), x>>
    BY <1>3 DEF JournalLegs, OwnerWithdrawal
  <2>3. t.type = "BANK_CHARGE" => JournalLegs(t) = <<Dr(6107, t.amount), x>>
    BY <1>3 DEF JournalLegs, BankCharge
  <2>4. LegsValue(w, t) = 0 + w[x]
    BY <1>1, <1>4, <1>5, <1>8, <2>1, <2>2, <2>3, PairValue DEF Expenditures
  <2> QED BY <1>3, <1>6, <1>8, <2>4 DEF Expenditures, Transfers
<1>9. CASE t.type \in Transfers
  <2>1. JournalLegs(t) = <<r, x>>
    BY <1>3, <1>9 DEF JournalLegs, InterbankTransfer, TransferIn, Transfers
  <2> QED BY <1>1, <1>3, <1>9, <2>1, PairValue DEF Expenditures, Transfers
<1>10. CASE t.type = "FIXED_ASSET_DEPRECIATION"
  <2>1. JournalLegs(t) = <<Dr(6108, t.amount), Cr(1502, t.amount)>>
    BY <1>10 DEF JournalLegs, Depreciation
  <2> QED BY <1>1, <1>4, <1>5, <1>10, <2>1, PairValue DEF Expenditures, Transfers
<1>11. CASE t.type = "ASSET_PURCHASE"
  <2>1. JournalLegs(t) = AssetPurchase(t)
    BY <1>11 DEF JournalLegs
  <2>2. CASE t.from # "NONE"
    <3>1. JournalLegs(t) = <<Dr(1501, t.amount), x>>
      BY <1>3, <2>1, <2>2 DEF AssetPurchase
    <3>2. LegsValue(w, t) = 0 + w[x]
      BY <1>1, <1>4, <1>5, <3>1, PairValue
    <3> QED BY <1>3, <1>6, <1>11, <2>2, <3>2 DEF Expenditures, Transfers
  <2>3. CASE t.from = "NONE"
    <3>1. JournalLegs(t) = <<Dr(1501, t.amount), y>>
      BY <1>3, <2>1, <2>3 DEF AssetPurchase
    <3>2. LegsValue(w, t) = 0 + w[y]
      BY <1>1, <1>4, <1>5, <3>1, PairValue
    <3> QED BY <1>3, <1>6, <1>11, <2>3, <3>2 DEF Expenditures, Transfers
  <2> QED BY <2>2, <2>3
<1> QED BY <1>7, <1>8, <1>9, <1>10, <1>11 DEF Expenditures, Transfers

-----------------------------------------------------------------------------
(* Control accounts.                                                       *)

\* The legs on the accounts C.
Coded(C) == [x \in Leg |-> IF x.code \in C THEN x.dr - x.cr ELSE 0]

LEMMA LegFields ==
  ASSUME NEW x \in Leg
  PROVE  /\ x.code \in Int /\ x.dr \in Int /\ x.cr \in Int
         /\ x.project \in ItsProject /\ x.cost \in ItsCost /\ x.account \in ItsAccount
         /\ x.account # "NONE" => x.code = 1101
  BY DEF Leg

LEMMA CodedWeight == ASSUME NEW C PROVE Coded(C) \in Weight
<1>1. PICK w : w = Coded(C)
  OBVIOUS
<1>2. \A x \in Leg : w[x] = (IF x.code \in C THEN x.dr - x.cr ELSE 0) /\ w[x] \in Int
  BY <1>1, LegFields DEF Coded
<1>3. w \in [Leg -> Int]
  BY <1>1, <1>2 DEF Coded
<1>4. ASSUME NEW x \in Leg PROVE w[Inverted(x)] = -w[x]
  <2>1. PICK y \in Leg : y = Inverted(x) /\ y.dr = x.cr /\ y.cr = x.dr /\ y.code = x.code
    BY InvertedLeg
  <2>2. /\ w[y] = IF x.code \in C THEN x.cr - x.dr ELSE 0
        /\ w[x] = IF x.code \in C THEN x.dr - x.cr ELSE 0
    BY <1>2, <2>1
  <2>3. x.dr \in Int /\ x.cr \in Int
    BY LegFields
  <2> QED BY <2>1, <2>2, <2>3
<1> QED BY <1>1, <1>3, <1>4 DEF Weight

LEMMA NetIsBalance ==
  ASSUME NEW E, EntriesOK(E), NEW C
  PROVE  Net(C, E) = Balance(Coded(C), E)
<1>1. ASSUME NEW e \in E PROVE EntryNet(C, e) = LegsWeight(Coded(C), e.legs)
  <2>1. \A i \in DOMAIN e.legs :
          Coded(C)[e.legs[i]] = IF e.legs[i].code \in C THEN e.legs[i].dr - e.legs[i].cr ELSE 0
    BY LegsAre DEF Coded, EntriesOK, EntryOK
  <2>2. [i \in DOMAIN e.legs |-> Coded(C)[e.legs[i]]]
         = [i \in DOMAIN e.legs |->
              IF e.legs[i].code \in C THEN e.legs[i].dr - e.legs[i].cr ELSE 0]
    BY <2>1
  <2> QED BY <2>2 DEF EntryNet, LegsWeight
<1>2. [e \in E |-> EntryNet(C, e)] = [e \in E |-> LegsWeight(Coded(C), e.legs)]
  BY <1>1
<1> QED BY <1>2, NetIs DEF Balance

Controls == {1201, 1202, 2101}
Held(C, code, m) == IF code \in C THEN m ELSE 0

LEMMA HeldType == ASSUME NEW C, NEW code, NEW m \in Int PROVE Held(C, code, m) \in Int
  BY DEF Held

LEMMA CodedTies == ASSUME NEW C \in SUBSET Controls PROVE Coded(C) \in Tying
<1>1. Coded(C) \in [Leg -> Int]
  BY CodedWeight DEF Weight
<1>2. ASSUME NEW x \in Leg, x.code \notin TiedCodes PROVE Coded(C)[x] = 0
  <2>1. \A c \in Controls : c \in TiedCodes
    BY DEF TiedCodes, Controls
  <2>2. x.code \notin C
    BY <1>2, <2>1
  <2> QED BY <2>2 DEF Coded
<1> QED BY <1>1, <1>2 DEF Tying

LEMMA CodedSides ==
  ASSUME NEW C \in SUBSET Controls, NEW t \in Order
  PROVE  /\ \A code \in Int, m \in Int :
              /\ Coded(C)[Dr(code, m)] = Held(C, code, m)
              /\ Coded(C)[Cr(code, m)] = -Held(C, code, m)
         /\ Coded(C)[CashIn(t)] = 0 /\ Coded(C)[TransferIn(t)] = 0
         /\ \A p \in ItsProject : Coded(C)[CashOut(t, p)] = 0
         /\ Coded(C)[PayableDebit(t)] = Held(C, 2101, t.amount)
<1>1. ASSUME NEW code \in Int, NEW m \in Int
      PROVE  /\ Coded(C)[Dr(code, m)] = Held(C, code, m)
             /\ Coded(C)[Cr(code, m)] = -Held(C, code, m)
  <2>1. PICK x \in Leg, y \in Leg : x = Dr(code, m) /\ y = Cr(code, m)
    BY PlainSides
  <2>2. x.code = code /\ x.dr = m /\ x.cr = 0 /\ y.code = code /\ y.dr = 0 /\ y.cr = m
    BY <2>1 DEF Dr, Cr, Debit, Credit
  <2>3. Coded(C)[x] = Held(C, code, m) /\ Coded(C)[y] = -Held(C, code, m)
    BY <2>2 DEF Coded, Held
  <2> QED BY <2>1, <2>3
<1>2. ASSUME NEW x \in Leg, x.code = 1101 PROVE Coded(C)[x] = 0
  BY <1>2 DEF Coded, Controls
<1>3. /\ CashIn(t).code = 1101 /\ TransferIn(t).code = 1101
      /\ \A p \in ItsProject : CashOut(t, p).code = 1101
  BY DEF CashIn, CashOut, TransferIn, Debit, Credit
<1>4. Coded(C)[PayableDebit(t)] = Held(C, 2101, t.amount)
  <2>1. PICK x \in Leg : x = PayableDebit(t)
    BY TiedLegs
  <2>2. x.code = 2101 /\ x.dr = t.amount /\ x.cr = 0 /\ t.amount \in Int
    BY <2>1, OrderFields DEF PayableDebit, Debit
  <2>3. Coded(C)[x] = Held(C, 2101, t.amount)
    BY <2>2 DEF Coded, Held
  <2> QED BY <2>1, <2>3
<1> QED BY <1>1, <1>2, <1>3, <1>4, TiedLegs

LEMMA ControlOfInvoice ==
  ASSUME NEW C \in SUBSET Controls, NEW t \in Order, Creatable(t), t.type = "CUSTOMER_INVOICE"
  PROVE  LegsValue(Coded(C), t) = Held(C, 1201, t.amount - t.retention) + Held(C, 1202, t.retention)
<1>1. PICK w : w = Coded(C)
  OBVIOUS
<1>2. w \in Tying /\ w \in [Leg -> Int]
  BY <1>1, CodedTies DEF Tying
<1>3. PICK m \in Nat, r \in Nat : m = t.amount - t.retention /\ r = t.retention
  BY OrderFields DEF Creatable
<1>4. LegsWeight(w, RevenueLegs(t)) = 0
  <2>1. PICK s \in Seq(Leg) : s = RevenueLegs(t) /\ \A i \in DOMAIN s : s[i].code = 4101
    BY RevenueLegsAre
  <2>2. \A i \in DOMAIN s : w[s[i]] = 0
    BY <1>1, <2>1, LegsAre DEF Coded, Controls
  <2> QED BY <1>2, <2>1, <2>2, NoWeight
<1>5. LegsValue(w, t) =
        (IF m > 0 THEN w[Dr(1201, m)] ELSE 0) + (IF r > 0 THEN w[Dr(1202, r)] ELSE 0)
  <2>1. LegsValue(w, t) = LegsWeight(w, CustomerInvoice(t))
    BY <1>2, CustomerRuleValues
  <2>2. w[Dr(1201, m)] \in Int /\ w[Dr(1202, r)] \in Int
    BY <1>2, PlainSides
  <2> QED BY <1>2, <1>3, <1>4, <2>1, <2>2, InvoiceValue
<1>6. w[Dr(1201, m)] = Held(C, 1201, m) /\ w[Dr(1202, r)] = Held(C, 1202, r)
  BY <1>1, CodedSides
<1>7. (m = 0 => Held(C, 1201, m) = 0) /\ (r = 0 => Held(C, 1202, r) = 0)
  BY DEF Held
<1>8. Held(C, 1201, m) \in Int /\ Held(C, 1202, r) \in Int
  BY HeldType
<1> QED BY <1>1, <1>3, <1>5, <1>6, <1>7, <1>8

\* What an order adds to the control accounts C.
ControlValue(C, t) ==
  CASE t.type = "CUSTOMER_INVOICE" -> Held(C, 1201, t.amount - t.retention) + Held(C, 1202, t.retention)
    [] t.type = "RETENTION_RELEASE" -> Held(C, 1201, t.amount) - Held(C, 1202, t.amount)
    [] t.type = "CUSTOMER_PAYMENT" -> -Held(C, 1201, t.amount)
    [] t.type \in {"VENDOR_BILL", "SUBCONTRACTOR_BILL"} -> -Held(C, 2101, t.amount)
    [] t.type \in {"PAY_VENDOR_BILL", "PAY_SUBCONTRACTOR"} -> Held(C, 2101, t.amount)
    [] t.type = "ASSET_PURCHASE" /\ t.from = "NONE" -> -Held(C, 2101, t.amount)
    [] OTHER -> 0

LEMMA ControlValueIs ==
  ASSUME NEW C \in SUBSET Controls, NEW t \in Order, t.type \in PostingRuleTypes,
         t.type # "JOURNAL_ADJUSTMENT", Creatable(t)
  PROVE  LegsValue(Coded(C), t) = ControlValue(C, t)
<1>1. PICK w \in Tying : w = Coded(C)
  BY CodedTies
<1>2. /\ \A code \in Int, m \in Int :
           w[Dr(code, m)] = Held(C, code, m) /\ w[Cr(code, m)] = -Held(C, code, m)
      /\ w[CashIn(t)] = 0 /\ w[TransferIn(t)] = 0
      /\ \A p \in ItsProject : w[CashOut(t, p)] = 0
      /\ w[PayableDebit(t)] = Held(C, 2101, t.amount)
  BY <1>1, CodedSides
<1>3. /\ OnlyProject(t) \in ItsProject /\ FirstProject(t) \in ItsProject /\ "NONE" \in ItsProject
      /\ t.amount \in Int
  BY Projects, NotNamed, OrderFields
<1>4. PICK a \in Int, b \in Int, c \in Int :
        a = Held(C, 1201, t.amount) /\ b = Held(C, 1202, t.amount) /\ c = Held(C, 2101, t.amount)
  BY <1>3, HeldType
<1>5. /\ w[Dr(1201, t.amount)] = a /\ w[Cr(1201, t.amount)] = -a /\ w[Cr(1202, t.amount)] = -b
      /\ w[Cr(2101, t.amount)] = -c /\ w[PayableDebit(t)] = c
      /\ w[CashOut(t, OnlyProject(t))] = 0 /\ w[CashOut(t, FirstProject(t))] = 0
      /\ w[CashOut(t, "NONE")] = 0
  BY <1>2, <1>3, <1>4
<1>6. CASE t.type \in CostRules
  <2>1. LegsValue(w, t) = IF t.type \in {"VENDOR_BILL", "SUBCONTRACTOR_BILL"} THEN -c ELSE 0
    BY <1>5, <1>6, CostRuleValues DEF CostRules
  <2> QED BY <1>1, <1>4, <1>6, <2>1 DEF ControlValue, CostRules
<1>7. CASE t.type = "CUSTOMER_INVOICE"
  BY <1>7, ControlOfInvoice DEF ControlValue
<1>8. CASE t.type \in {"RETENTION_RELEASE", "CUSTOMER_PAYMENT"} \cup Receipts
  <2>1. LegsValue(w, t) = IF t.type = "RETENTION_RELEASE" THEN a - b
                          ELSE IF t.type = "CUSTOMER_PAYMENT" THEN -a ELSE 0
    BY <1>2, <1>4, <1>5, <1>8, CustomerRuleValues DEF Receipts
  <2> QED BY <1>1, <1>4, <1>8, <2>1 DEF ControlValue, Receipts
<1>9. CASE t.type \in {"PAY_VENDOR_BILL", "PAY_SUBCONTRACTOR"} \cup Expenditures \cup Transfers
                        \cup {"FIXED_ASSET_DEPRECIATION"}
  <2>1. LegsValue(w, t) = IF t.type \in {"PAY_VENDOR_BILL", "PAY_SUBCONTRACTOR"} THEN c ELSE 0
    BY <1>2, <1>4, <1>5, <1>9, PaymentRuleValues DEF Expenditures, Transfers
  <2> QED BY <1>1, <1>4, <1>9, <2>1 DEF ControlValue, Expenditures, Transfers
<1>10. CASE t.type = "ASSET_PURCHASE"
  <2>1. LegsValue(w, t) = IF t.from = "NONE" THEN -c ELSE 0
    BY <1>5, <1>10, PaymentRuleValues
  <2> QED BY <1>1, <1>4, <1>10, <2>1 DEF ControlValue
<1> QED BY <1>6, <1>7, <1>8, <1>9, <1>10
        DEF PostingRuleTypes, CostRules, Receipts, Expenditures, Transfers

-----------------------------------------------------------------------------
(* Amounts.                                                                *)

AmountFn == [t \in Order |-> t.amount]
RetentionFn == [t \in Order |-> t.retention]

LEMMA AmountsAreNumbers == \A t \in Order : AmountFn[t] \in Nat /\ RetentionFn[t] \in Nat
  BY OrderFields DEF AmountFn, RetentionFn

LEMMA AmountsAreSums ==
  ASSUME NEW S \in SUBSET Order, IsFiniteSet(S)
  PROVE  /\ Amounts(S) = SumFunctionOnSet(AmountFn, S)
         /\ Withheld(S) = SumFunctionOnSet(RetentionFn, S)
         /\ Amounts(S) \in Int /\ Withheld(S) \in Int
<1>1. PICK f : f = [t \in S |-> t.amount]
  OBVIOUS
<1>2. PICK g : g = [t \in S |-> t.retention]
  OBVIOUS
<1>3. (\A t \in S : f[t] = AmountFn[t]) /\ (\A t \in S : g[t] = RetentionFn[t])
  BY <1>1, <1>2 DEF AmountFn, RetentionFn
<1>4. SumFunctionOnSet(f, S) = SumFunctionOnSet(AmountFn, S)
  BY <1>3, SumSame
<1>5. SumFunctionOnSet(g, S) = SumFunctionOnSet(RetentionFn, S)
  BY <1>3, SumSame
<1>6. SumFunctionOnSet(AmountFn, S) \in Int
  <2>1. \A t \in S : AmountFn[t] \in Int
    BY AmountsAreNumbers
  <2> QED BY <2>1, SumType
<1>7. SumFunctionOnSet(RetentionFn, S) \in Int
  <2>1. \A t \in S : RetentionFn[t] \in Int
    BY AmountsAreNumbers
  <2> QED BY <2>1, SumType
<1> QED BY <1>1, <1>2, <1>4, <1>5, <1>6, <1>7 DEF Amounts, Withheld, Total

LEMMA AmountsOfBoth ==
  ASSUME NEW S \in SUBSET Order, IsFiniteSet(S), NEW T \in SUBSET Order, IsFiniteSet(T), S \cap T = {}
  PROVE  /\ Amounts(S \cup T) = Amounts(S) + Amounts(T)
         /\ Withheld(S \cup T) = Withheld(S) + Withheld(T)
         /\ Amounts(S) \in Int /\ Amounts(T) \in Int /\ Withheld(S) \in Int /\ Withheld(T) \in Int
<1>1. S \cup T \in SUBSET Order /\ IsFiniteSet(S \cup T)
  BY FS_Union
<1>2. \A t \in S \cup T : AmountFn[t] \in Int /\ RetentionFn[t] \in Int
  BY <1>1, AmountsAreNumbers
<1>3. SumFunctionOnSet(AmountFn, S \cup T) = SumFunctionOnSet(AmountFn, S) + SumFunctionOnSet(AmountFn, T)
  BY <1>2, SumUnion
<1>4. SumFunctionOnSet(RetentionFn, S \cup T) =
        SumFunctionOnSet(RetentionFn, S) + SumFunctionOnSet(RetentionFn, T)
  BY <1>2, SumUnion
<1> QED BY <1>1, <1>3, <1>4, AmountsAreSums

OfKind(k) == {t \in Live : t.type = k}
AppliedKind(k) == {t \in OfKind(k) : \E b \in billed : <<t, b>> \in applied}

LEMMA KindsAre ==
  ASSUME RecordsInv, NEW S \in SUBSET Live
  PROVE  S \in SUBSET Order /\ IsFiniteSet(S)
  BY LiveIsFinite DEF Live

LEMMA OnceIsLive == ASSUME NEW t \in Order, Once(t) PROVE t \in Live
<1>1. 1 % 2 = 1
  OBVIOUS
<1> QED BY <1>1 DEF Once, Live, InForce

LEMMA BilledAreLive ==
  ASSUME RecordsInv, NEW k
  PROVE  /\ BilledOf(k) \in SUBSET OfKind(k) /\ BilledOf(k) \in SUBSET Order
         /\ IsFiniteSet(BilledOf(k))
<1>1. \A b \in billed : b \in Live
  BY OnceIsLive DEF RecordsInv, BillsInv, BilledOK
<1>2. BilledOf(k) \in SUBSET OfKind(k) /\ BilledOf(k) \in SUBSET Live
  BY <1>1 DEF BilledOf, OfKind
<1> QED BY <1>2, KindsAre

LEMMA KindsSplit ==
  ASSUME RecordsInv, NEW k
  PROVE  /\ OfKind(k) = BilledOf(k) \cup Revived(k) /\ BilledOf(k) \cap Revived(k) = {}
         /\ OfKind(k) = Loose(k) \cup AppliedKind(k) /\ Loose(k) \cap AppliedKind(k) = {}
         /\ Revived(k) \in SUBSET Live /\ Loose(k) \in SUBSET Live /\ AppliedKind(k) \in SUBSET Live
         /\ OfKind(k) \in SUBSET Live
<1>1. BilledOf(k) \in SUBSET OfKind(k)
  BY BilledAreLive
<1>2. /\ Revived(k) = {t \in OfKind(k) : t \notin billed}
      /\ Loose(k) = {t \in OfKind(k) : ~\E b \in billed : <<t, b>> \in applied}
  BY DEF Revived, Loose, OfKind, Live
<1> QED BY <1>1, <1>2 DEF BilledOf, AppliedKind, OfKind

LEMMA SplitAmounts ==
  ASSUME RecordsInv, NEW k
  PROVE  /\ Amounts(OfKind(k)) = Amounts(BilledOf(k)) + Amounts(Revived(k))
         /\ Withheld(OfKind(k)) = Withheld(BilledOf(k)) + Withheld(Revived(k))
         /\ Amounts(OfKind(k)) = Amounts(Loose(k)) + Amounts(AppliedKind(k))
         /\ Amounts(BilledOf(k)) \in Int /\ Amounts(Revived(k)) \in Int
         /\ Withheld(BilledOf(k)) \in Int /\ Withheld(Revived(k)) \in Int
         /\ Amounts(Loose(k)) \in Int /\ Amounts(AppliedKind(k)) \in Int
<1>1. PICK B : B = BilledOf(k)
  OBVIOUS
<1>2. PICK R : R = Revived(k)
  OBVIOUS
<1>3. PICK L : L = Loose(k)
  OBVIOUS
<1>4. PICK A : A = AppliedKind(k)
  OBVIOUS
<1>5. /\ OfKind(k) = B \cup R /\ B \cap R = {} /\ OfKind(k) = L \cup A /\ L \cap A = {}
      /\ R \in SUBSET Live /\ L \in SUBSET Live /\ A \in SUBSET Live
  BY <1>1, <1>2, <1>3, <1>4, KindsSplit
<1>6. /\ B \in SUBSET Order /\ IsFiniteSet(B) /\ R \in SUBSET Order /\ IsFiniteSet(R)
      /\ L \in SUBSET Order /\ IsFiniteSet(L) /\ A \in SUBSET Order /\ IsFiniteSet(A)
  BY <1>1, <1>5, BilledAreLive, KindsAre
<1>7. /\ Amounts(B \cup R) = Amounts(B) + Amounts(R) /\ Withheld(B \cup R) = Withheld(B) + Withheld(R)
      /\ Amounts(B) \in Int /\ Amounts(R) \in Int /\ Withheld(B) \in Int /\ Withheld(R) \in Int
  BY <1>5, <1>6, AmountsOfBoth
<1>8. Amounts(L \cup A) = Amounts(L) + Amounts(A) /\ Amounts(L) \in Int /\ Amounts(A) \in Int
  BY <1>5, <1>6, AmountsOfBoth
<1> QED BY <1>1, <1>2, <1>3, <1>4, <1>5, <1>7, <1>8

\* The orders of a kind that are applied, bill by bill.
LEMMA AppliedByBill ==
  ASSUME RecordsInv, NEW K, NEW k \in K, \A j \in K : BillOf(j) = BillOf(k) => j = k,
         NEW part, \A b \in BilledOf(BillOf(k)) : part[b] = AmountOf(AppliedTo(b, K))
  PROVE  Amounts(AppliedKind(k)) = SumFunctionOnSet(part, BilledOf(BillOf(k)))
<1>1. PICK P : P = {x \in applied : x[1].type = k /\ x[2] \in billed}
  OBVIOUS
<1>2. PICK A : A = AppliedKind(k)
  OBVIOUS
<1>3. PICK B : B = BilledOf(BillOf(k))
  OBVIOUS
<1>4. PICK f : f = [x \in P |-> x[1].amount]
  OBVIOUS
<1>5. PICK first : first = [x \in P |-> x[1]]
  OBVIOUS
<1>6. PICK second : second = [x \in P |-> x[2]]
  OBVIOUS
<1>7. \A x \in applied : /\ x \in Order \X Order /\ x[1] \in Live
                         /\ x[2].type = BillOf(x[1].type)
  BY OnceIsLive DEF RecordsInv, BillsInv, AppliedOK
<1>8. IsFiniteSet(P) /\ IsFiniteSet(A) /\ IsFiniteSet(B) /\ A \in SUBSET Order
  <2>1. P \in SUBSET applied /\ IsFiniteSet(applied)
    BY <1>1 DEF RecordsInv, BillsInv
  <2>2. IsFiniteSet(P)
    BY <2>1, FS_Subset
  <2>3. A \in SUBSET Live
    BY <1>2, KindsSplit
  <2> QED BY <1>3, <2>2, <2>3, KindsAre, BilledAreLive
<1>9. \A x \in P : f[x] \in Int
  BY <1>1, <1>4, <1>7, OrderFields
<1>10. Renames(first, P, A)
  <2>1. \A x \in P : first[x] \in A
    <3> SUFFICES ASSUME NEW x \in P PROVE first[x] \in A
      OBVIOUS
    <3>1. x = <<x[1], x[2]>> /\ x[1] \in Live /\ x[1].type = k /\ x[2] \in billed /\ x \in applied
      BY <1>1, <1>7
    <3>2. x[1] \in OfKind(k) /\ <<x[1], x[2]>> \in applied
      BY <3>1 DEF OfKind
    <3> QED BY <1>2, <1>5, <3>1, <3>2 DEF AppliedKind
  <2>2. \A t \in A : \E x \in P : first[x] = t
    <3> SUFFICES ASSUME NEW t \in A PROVE \E x \in P : first[x] = t
      OBVIOUS
    <3>1. PICK b \in billed : <<t, b>> \in applied
      BY <1>2 DEF AppliedKind
    <3>2. t.type = k
      BY <1>2 DEF AppliedKind, OfKind
    <3>3. <<t, b>> \in P
      BY <1>1, <3>1, <3>2
    <3> QED BY <1>5, <3>3
  <2>3. \A x \in P : \A y \in P : first[x] = first[y] => x = y
    BY <1>1, <1>5 DEF RecordsInv, BillsInv
  <2> QED BY <2>1, <2>2, <2>3 DEF Renames
<1>11. \A x \in P : AmountFn[first[x]] = f[x]
  BY <1>1, <1>4, <1>5, <1>7 DEF AmountFn
<1>12. SumFunctionOnSet(AmountFn, A) = SumFunctionOnSet(f, P)
  BY ONLY <1>8, <1>9, <1>10, <1>11, SumImage
<1>13. ASSUME NEW b \in B
       PROVE  part[b] = SumFunctionOnSet(f, Under(second, P, b))
  <2>1. PICK S : S = AppliedTo(b, K)
    OBVIOUS
  <2>2. b.type = BillOf(k) /\ b \in billed
    BY <1>3 DEF BilledOf
  <2>3. \A x \in applied : x[2] = b => (x[1].type \in K <=> x[1].type = k)
    BY <1>7, <2>2
  <2>4. Under(second, P, b) = S
    BY <1>1, <1>6, <2>1, <2>2, <2>3 DEF Under, AppliedTo
  <2>5. PICK g : g = [x \in S |-> x[1].amount]
    OBVIOUS
  <2>6. S \in SUBSET P
    BY <2>4 DEF Under
  <2>7. IsFiniteSet(S) /\ \A x \in S : f[x] = g[x]
    BY <1>4, <1>8, <2>5, <2>6, FS_Subset
  <2>8. SumFunctionOnSet(f, S) = SumFunctionOnSet(g, S)
    BY <2>7, SumSame
  <2> QED BY <1>3, <2>1, <2>4, <2>5, <2>8 DEF AmountOf
<1>14. SumFunctionOnSet(part, B) = SumFunctionOnSet(f, UnderAny(second, P, B))
  BY <1>8, <1>9, <1>13, SumGrouped
<1>15. UnderAny(second, P, B) = P
  <2>1. \A x \in P : second[x] \in B
    BY <1>1, <1>3, <1>6, <1>7 DEF BilledOf
  <2> QED BY <2>1 DEF UnderAny
<1> QED BY <1>2, <1>3, <1>8, <1>12, <1>14, <1>15, AmountsAreSums

\* What is paid and released on open invoices and bills.
PaidOn(k) == SumFunctionOnSet([b \in BilledOf(k) |-> PaidAmount(b)], BilledOf(k))
ReleasedOn(k) == SumFunctionOnSet([b \in BilledOf(k) |-> Released(b)], BilledOf(k))

LEMMA AppliedIsPaid ==
  ASSUME RecordsInv
  PROVE  /\ Amounts(AppliedKind("CUSTOMER_PAYMENT")) = PaidOn("CUSTOMER_INVOICE")
         /\ Amounts(AppliedKind("PAY_VENDOR_BILL")) = PaidOn("VENDOR_BILL")
         /\ Amounts(AppliedKind("RETENTION_RELEASE")) = ReleasedOn("CUSTOMER_INVOICE")
         /\ AppliedKind("PAY_SUBCONTRACTOR") = {}
<1>1. /\ BillOf("CUSTOMER_PAYMENT") = "CUSTOMER_INVOICE"
      /\ BillOf("RETENTION_RELEASE") = "CUSTOMER_INVOICE"
      /\ BillOf("PAY_VENDOR_BILL") = "VENDOR_BILL" /\ BillOf("PAY_SUBCONTRACTOR") = "NONE"
  BY DEF BillOf
<1>2. /\ "CUSTOMER_PAYMENT" \in PaymentKinds /\ "PAY_VENDOR_BILL" \in PaymentKinds
      /\ "RETENTION_RELEASE" \in ReleaseKinds
      /\ \A j \in PaymentKinds : j = "CUSTOMER_PAYMENT" \/ j = "PAY_VENDOR_BILL"
      /\ \A j \in ReleaseKinds : j = "RETENTION_RELEASE"
  BY DEF PaymentKinds, ReleaseKinds
<1>3. PICK paid : paid = [b \in BilledOf("CUSTOMER_INVOICE") |-> PaidAmount(b)]
  OBVIOUS
<1>4. PICK bills : bills = [b \in BilledOf("VENDOR_BILL") |-> PaidAmount(b)]
  OBVIOUS
<1>5. PICK released : released = [b \in BilledOf("CUSTOMER_INVOICE") |-> Released(b)]
  OBVIOUS
<1>6. Amounts(AppliedKind("CUSTOMER_PAYMENT")) = SumFunctionOnSet(paid, BilledOf("CUSTOMER_INVOICE"))
  <2>1. \A b \in BilledOf("CUSTOMER_INVOICE") : paid[b] = AmountOf(AppliedTo(b, PaymentKinds))
    BY <1>3, AppliedAmounts
  <2>2. \A j \in PaymentKinds : BillOf(j) = BillOf("CUSTOMER_PAYMENT") => j = "CUSTOMER_PAYMENT"
    BY <1>1, <1>2
  <2> QED BY <1>1, <1>2, <2>1, <2>2, AppliedByBill
<1>7. Amounts(AppliedKind("PAY_VENDOR_BILL")) = SumFunctionOnSet(bills, BilledOf("VENDOR_BILL"))
  <2>1. \A b \in BilledOf("VENDOR_BILL") : bills[b] = AmountOf(AppliedTo(b, PaymentKinds))
    BY <1>4, AppliedAmounts
  <2>2. \A j \in PaymentKinds : BillOf(j) = BillOf("PAY_VENDOR_BILL") => j = "PAY_VENDOR_BILL"
    BY <1>1, <1>2
  <2> QED BY <1>1, <1>2, <2>1, <2>2, AppliedByBill
<1>8. Amounts(AppliedKind("RETENTION_RELEASE")) = SumFunctionOnSet(released, BilledOf("CUSTOMER_INVOICE"))
  <2>1. \A b \in BilledOf("CUSTOMER_INVOICE") : released[b] = AmountOf(AppliedTo(b, ReleaseKinds))
    BY <1>5, AppliedAmounts
  <2>2. \A j \in ReleaseKinds : BillOf(j) = BillOf("RETENTION_RELEASE") => j = "RETENTION_RELEASE"
    BY <1>2
  <2> QED BY <1>1, <1>2, <2>1, <2>2, AppliedByBill
<1>9. AppliedKind("PAY_SUBCONTRACTOR") = {}
  <2> SUFFICES ASSUME NEW t \in AppliedKind("PAY_SUBCONTRACTOR") PROVE FALSE
    OBVIOUS
  <2>1. PICK b \in billed : <<t, b>> \in applied
    BY DEF AppliedKind
  <2>2. t.type = "PAY_SUBCONTRACTOR"
    BY DEF AppliedKind, OfKind
  <2>3. AppliedOK(<<t, b>>)
    BY <2>1 DEF RecordsInv, BillsInv
  <2> QED BY <1>1, <2>2, <2>3 DEF AppliedOK, BillTypes
<1> QED BY <1>3, <1>4, <1>5, <1>6, <1>7, <1>8, <1>9 DEF PaidOn, ReleasedOn

-----------------------------------------------------------------------------
(* Receivables and payables.                                               *)

LEMMA BillAlgebra ==
  ASSUME RecordsInv, NEW b \in billed
  PROVE  /\ Outstanding(b) \in Int /\ Overpaid(b) \in Int /\ UnreleasedRetention(b) \in Int
         /\ Outstanding(b) - Overpaid(b) = b.amount - b.retention + Released(b) - PaidAmount(b)
         /\ UnreleasedRetention(b) = b.retention - Released(b)
         /\ Max({0, b.amount - PaidAmount(b)}) = b.amount - PaidAmount(b)
         /\ b.amount \in Int /\ b.retention \in Int /\ PaidAmount(b) \in Int /\ Released(b) \in Int
<1>1. BilledOK(b) /\ PaidAmount(b) <= b.amount /\ Released(b) <= b.retention
  BY DEF RecordsInv, BillsInv
<1>2. PICK a \in Nat, r \in Nat : a = b.amount /\ r = b.retention
  BY <1>1, OrderFields DEF BilledOK
<1>3. PICK u \in Nat, v \in Nat : u = PaidAmount(b) /\ v = Released(b)
  BY BillSums DEF RecordsInv
<1>4. u <= a /\ v <= r
  BY <1>1, <1>2, <1>3
<1>5. Outstanding(b) = IF 0 >= a - r + v - u THEN 0 ELSE a - r + v - u
  BY <1>2, <1>3, MaxOfTwo DEF Outstanding, CollectibleAmount
<1>6. Overpaid(b) = IF 0 >= u - (a - r + v) THEN 0 ELSE u - (a - r + v)
  BY <1>2, <1>3, MaxOfTwo DEF Overpaid, CollectibleAmount
<1>7. UnreleasedRetention(b) = r - v
  BY <1>2, <1>3, <1>4, MaxOfTwo DEF UnreleasedRetention
<1>8. Max({0, a - u}) = a - u
  BY <1>4, MaxOfTwo
<1> QED BY <1>2, <1>3, <1>4, <1>5, <1>6, <1>7, <1>8

LEMMA BilledPart == ASSUME NEW k, NEW b \in BilledOf(k) PROVE b \in billed /\ b.type = k
  BY DEF BilledOf

LEMMA OpenSums ==
  ASSUME RecordsInv, NEW k
  PROVE  /\ Amounts(BilledOf(k)) - PaidOn(k) =
              Total(BilledOf(k), LAMBDA b : Max({0, b.amount - PaidAmount(b)}))
         /\ PaidOn(k) \in Int /\ ReleasedOn(k) \in Int
<1>1. PICK B : B = BilledOf(k)
  OBVIOUS
<1>2. PICK paid : paid = [b \in B |-> PaidAmount(b)]
  OBVIOUS
<1>3. PICK released : released = [b \in B |-> Released(b)]
  OBVIOUS
<1>4. PICK left : left = [b \in B |-> Max({0, b.amount - PaidAmount(b)})]
  OBVIOUS
<1>5. IsFiniteSet(B) /\ B \in SUBSET Order
  BY <1>1, BilledAreLive
<1>6. ASSUME NEW b \in B
      PROVE  /\ AmountFn[b] \in Int /\ paid[b] \in Int /\ released[b] \in Int
             /\ left[b] = AmountFn[b] - paid[b]
  <2>1. b \in billed /\ b \in Order
    BY <1>1, <1>5, BilledPart
  <2>2. AmountFn[b] = b.amount
    BY <2>1 DEF AmountFn
  <2> QED BY <1>2, <1>3, <1>4, <2>1, <2>2, BillAlgebra
<1>7. SumFunctionOnSet(left, B) = SumFunctionOnSet(AmountFn, B) - SumFunctionOnSet(paid, B)
  BY <1>5, <1>6, SumMinus
<1>8. SumFunctionOnSet(paid, B) \in Int /\ SumFunctionOnSet(released, B) \in Int
  BY <1>5, <1>6, SumType
<1>9. Amounts(B) = SumFunctionOnSet(AmountFn, B)
  BY <1>5, AmountsAreSums
<1>10. PaidOn(k) = SumFunctionOnSet(paid, B) /\ ReleasedOn(k) = SumFunctionOnSet(released, B)
  BY <1>1, <1>2, <1>3 DEF PaidOn, ReleasedOn
<1>11. Total(B, LAMBDA b : Max({0, b.amount - PaidAmount(b)})) = SumFunctionOnSet(left, B)
  BY <1>4 DEF Total
<1> QED BY <1>1, <1>7, <1>8, <1>9, <1>10, <1>11

LEMMA AgingSums ==
  ASSUME RecordsInv
  PROVE  ReceivableAging - Total(BilledOf("CUSTOMER_INVOICE"), Overpaid) =
           Amounts(BilledOf("CUSTOMER_INVOICE")) - Withheld(BilledOf("CUSTOMER_INVOICE"))
             + ReleasedOn("CUSTOMER_INVOICE") - PaidOn("CUSTOMER_INVOICE")
<1>1. PICK B : B = BilledOf("CUSTOMER_INVOICE")
  OBVIOUS
<1>2. PICK paid : paid = [b \in B |-> PaidAmount(b)]
  OBVIOUS
<1>3. PICK released : released = [b \in B |-> Released(b)]
  OBVIOUS
<1>4. PICK out : out = [b \in B |-> Outstanding(b)]
  OBVIOUS
<1>5. PICK over : over = [b \in B |-> Overpaid(b)]
  OBVIOUS
<1>6. PICK net : net = [b \in B |-> AmountFn[b] - RetentionFn[b]]
  OBVIOUS
<1>7. PICK moved : moved = [b \in B |-> released[b] - paid[b]]
  OBVIOUS
<1>8. PICK open : open = [b \in B |-> out[b] - over[b]]
  OBVIOUS
<1>9. IsFiniteSet(B) /\ B \in SUBSET Order
  BY <1>1, BilledAreLive
<1>10. ASSUME NEW b \in B
       PROVE  /\ AmountFn[b] \in Int /\ RetentionFn[b] \in Int /\ net[b] \in Int
              /\ net[b] = AmountFn[b] - RetentionFn[b]
              /\ paid[b] \in Int /\ released[b] \in Int /\ moved[b] \in Int
              /\ moved[b] = released[b] - paid[b]
              /\ out[b] \in Int /\ over[b] \in Int /\ open[b] = out[b] - over[b]
              /\ open[b] = net[b] + moved[b]
  <2>1. b \in billed /\ b \in Order
    BY <1>1, <1>9, BilledPart
  <2>2. AmountFn[b] = b.amount /\ RetentionFn[b] = b.retention
    BY <2>1 DEF AmountFn, RetentionFn
  <2>3. /\ paid[b] = PaidAmount(b) /\ released[b] = Released(b) /\ out[b] = Outstanding(b)
        /\ over[b] = Overpaid(b) /\ net[b] = AmountFn[b] - RetentionFn[b]
        /\ moved[b] = released[b] - paid[b] /\ open[b] = out[b] - over[b]
    BY <1>2, <1>3, <1>4, <1>5, <1>6, <1>7, <1>8
  <2>4. /\ Outstanding(b) \in Int /\ Overpaid(b) \in Int
        /\ Outstanding(b) - Overpaid(b) = b.amount - b.retention + Released(b) - PaidAmount(b)
        /\ b.amount \in Int /\ b.retention \in Int /\ PaidAmount(b) \in Int /\ Released(b) \in Int
    BY <2>1, BillAlgebra
  <2> QED BY <2>2, <2>3, <2>4
<1>11. SumFunctionOnSet(open, B) = SumFunctionOnSet(out, B) - SumFunctionOnSet(over, B)
  BY <1>9, <1>10, SumMinus
<1>12. SumFunctionOnSet(open, B) = SumFunctionOnSet(net, B) + SumFunctionOnSet(moved, B)
  BY <1>9, <1>10, SumPlus
<1>13. SumFunctionOnSet(net, B) = SumFunctionOnSet(AmountFn, B) - SumFunctionOnSet(RetentionFn, B)
  BY <1>9, <1>10, SumMinus
<1>14. SumFunctionOnSet(moved, B) = SumFunctionOnSet(released, B) - SumFunctionOnSet(paid, B)
  BY <1>9, <1>10, SumMinus
<1>15. /\ SumFunctionOnSet(AmountFn, B) \in Int /\ SumFunctionOnSet(RetentionFn, B) \in Int
       /\ SumFunctionOnSet(released, B) \in Int /\ SumFunctionOnSet(paid, B) \in Int
  BY <1>9, <1>10, SumType
<1>16. Amounts(B) = SumFunctionOnSet(AmountFn, B) /\ Withheld(B) = SumFunctionOnSet(RetentionFn, B)
  BY <1>9, AmountsAreSums
<1>17. /\ PaidOn("CUSTOMER_INVOICE") = SumFunctionOnSet(paid, B)
       /\ ReleasedOn("CUSTOMER_INVOICE") = SumFunctionOnSet(released, B)
  BY <1>1, <1>2, <1>3 DEF PaidOn, ReleasedOn
<1>18. ReceivableAging = SumFunctionOnSet(out, B) /\ Total(B, Overpaid) = SumFunctionOnSet(over, B)
  BY <1>1, <1>4, <1>5 DEF ReceivableAging, Total
<1> QED BY <1>1, <1>11, <1>12, <1>13, <1>14, <1>15, <1>16, <1>17, <1>18

LiveRuled == {t \in Live : t.type # "JOURNAL_ADJUSTMENT"}

LEMMA RuledIsRecorded ==
  ASSUME RecordsInv
  PROVE  /\ Ruled = Recorded({t \in Order : t.type # "JOURNAL_ADJUSTMENT"})
         /\ {t \in Order : t.type # "JOURNAL_ADJUSTMENT"} \cap Live = LiveRuled
         /\ EntriesOK(Ruled)
<1>1. \A e \in journal : e.of \in Order
  BY DEF RecordsInv, HistoryInv, HistoryOK
<1>2. Ruled = Recorded({t \in Order : t.type # "JOURNAL_ADJUSTMENT"})
  BY <1>1 DEF Ruled, Adjusting, Recorded
<1>3. EntriesOK(Ruled)
  <2>1. Ruled \in SUBSET journal
    BY DEF Ruled
  <2> QED BY <2>1, JournalPart DEF RecordsInv
<1>4. {t \in Order : t.type # "JOURNAL_ADJUSTMENT"} \cap Live = LiveRuled
  BY DEF Live, LiveRuled
<1> QED BY <1>2, <1>3, <1>4

LEMMA RuledOrders ==
  ASSUME RecordsInv
  PROVE  /\ LiveRuled \in SUBSET Live /\ IsFiniteSet(LiveRuled)
         /\ \A t \in LiveRuled : /\ t \in Order /\ t.type \in PostingRuleTypes
                                 /\ t.type # "JOURNAL_ADJUSTMENT" /\ Creatable(t)
         /\ \A k : k # "JOURNAL_ADJUSTMENT" => OfKind(k) \in SUBSET LiveRuled
<1>1. LiveRuled \in SUBSET Live
  BY DEF LiveRuled
<1>2. \A t \in LiveRuled : t \in Live /\ t.type # "JOURNAL_ADJUSTMENT"
  BY DEF LiveRuled
<1>3. \A k : k # "JOURNAL_ADJUSTMENT" => OfKind(k) \in SUBSET LiveRuled
  BY DEF OfKind, LiveRuled
<1> QED BY <1>1, <1>2, <1>3, LiveIsFinite, LiveOrders

\* What the rules have on an account is what the orders in force put there.
LEMMA RuledBalance ==
  ASSUME RecordsInv, NEW w \in Weight, NEW v, \A t \in LiveRuled : v[t] = LegsValue(w, t)
  PROVE  /\ Balance(w, Ruled) = SumFunctionOnSet(v, LiveRuled)
         /\ \A t \in LiveRuled : v[t] \in Int
<1>1. PICK T \in SUBSET Order : T = {t \in Order : t.type # "JOURNAL_ADJUSTMENT"}
  OBVIOUS
<1>2. Ruled = Recorded(T) /\ T \cap Live = LiveRuled
  BY <1>1, RuledIsRecorded
<1>3. PICK f : f = [t \in LiveRuled |-> LegsValue(w, t)]
  OBVIOUS
<1>4. Balance(w, Ruled) = SumFunctionOnSet(f, LiveRuled)
  <2>1. Balance(w, Recorded(T)) =
          SumFunctionOnSet([t \in T \cap Live |-> LegsValue(w, t)], T \cap Live)
    BY BalanceByOrder
  <2> QED BY <1>2, <1>3, <2>1
<1>5. SumFunctionOnSet(f, LiveRuled) = SumFunctionOnSet(v, LiveRuled)
  <2>1. \A t \in LiveRuled : f[t] = v[t]
    BY <1>3
  <2> QED BY <2>1, RuledOrders, SumSame
<1>6. \A t \in LiveRuled : v[t] \in Int
  BY RuledOrders, LegsValueType DEF Weight
<1> QED BY <1>4, <1>5, <1>6

LEMMA ControlSum ==
  ASSUME RecordsInv, NEW C \in SUBSET Controls, NEW v, \A t \in LiveRuled : v[t] = ControlValue(C, t)
  PROVE  /\ Net(C, Ruled) = SumFunctionOnSet(v, LiveRuled)
         /\ \A t \in LiveRuled : v[t] \in Int
<1>1. Coded(C) \in Weight
  BY CodedWeight
<1>2. \A t \in LiveRuled : v[t] = LegsValue(Coded(C), t)
  BY RuledOrders, ControlValueIs
<1>3. Net(C, Ruled) = Balance(Coded(C), Ruled)
  BY RuledIsRecorded, NetIsBalance
<1> QED BY <1>1, <1>2, <1>3, RuledBalance

LEMMA DebtorsBalance ==
  ASSUME RecordsInv
  PROVE  Net({1201}, Ruled) =
           Amounts(OfKind("CUSTOMER_INVOICE")) - Withheld(OfKind("CUSTOMER_INVOICE"))
             + Amounts(OfKind("RETENTION_RELEASE")) - Amounts(OfKind("CUSTOMER_PAYMENT"))
<1> DEFINE C == {1201}
<1>1. C \in SUBSET Controls
  BY DEF Controls
<1> HIDE DEF C
<1>2. PICK v : v = [t \in LiveRuled |-> ControlValue(C, t)]
  OBVIOUS
<1>3. PICK A : A = OfKind("CUSTOMER_INVOICE")
  OBVIOUS
<1>4. PICK B : B = OfKind("RETENTION_RELEASE")
  OBVIOUS
<1>5. PICK D : D = OfKind("CUSTOMER_PAYMENT")
  OBVIOUS
<1>6. /\ \A t \in A : t.type = "CUSTOMER_INVOICE"
      /\ \A t \in B : t.type = "RETENTION_RELEASE"
      /\ \A t \in D : t.type = "CUSTOMER_PAYMENT"
      /\ \A t \in LiveRuled : /\ t.type = "CUSTOMER_INVOICE" => t \in A
                              /\ t.type = "RETENTION_RELEASE" => t \in B
                              /\ t.type = "CUSTOMER_PAYMENT" => t \in D
  BY <1>3, <1>4, <1>5 DEF OfKind, LiveRuled
<1>7. A \in SUBSET LiveRuled /\ B \in SUBSET LiveRuled /\ D \in SUBSET LiveRuled
  BY <1>3, <1>4, <1>5, RuledOrders
<1>8. A \cap B = {} /\ A \cap D = {} /\ B \cap D = {}
  BY <1>6
<1>9. \A t \in LiveRuled : v[t] = ControlValue(C, t)
  BY <1>2
<1>10. \A m : Held(C, 1201, m) = m /\ Held(C, 1202, m) = 0 /\ Held(C, 2101, m) = 0
  BY DEF C, Held
<1>11. \A t \in LiveRuled : t \in Order /\ AmountFn[t] = t.amount /\ RetentionFn[t] = t.retention
                            /\ t.amount \in Int /\ t.retention \in Int
  BY RuledOrders, OrderFields DEF AmountFn, RetentionFn
<1>12. Net(C, Ruled) = SumFunctionOnSet(v, LiveRuled) /\ \A t \in LiveRuled : v[t] \in Int
  BY <1>1, <1>9, ControlSum
<1>13. \A t \in LiveRuled : t \notin A /\ t \notin B /\ t \notin D => v[t] = 0
  BY <1>6, <1>9, <1>10 DEF ControlValue
<1>14. SumFunctionOnSet(v, LiveRuled) =
         SumFunctionOnSet(v, A) + SumFunctionOnSet(v, B) + SumFunctionOnSet(v, D)
  BY <1>7, <1>8, <1>12, <1>13, RuledOrders, SumOfThree
<1>15. A \in SUBSET Order /\ B \in SUBSET Order /\ D \in SUBSET Order
       /\ IsFiniteSet(A) /\ IsFiniteSet(B) /\ IsFiniteSet(D)
  BY <1>7, <1>11, RuledOrders, FS_Subset
<1>16. SumFunctionOnSet(v, A) = SumFunctionOnSet(AmountFn, A) - SumFunctionOnSet(RetentionFn, A)
  <2>1. \A t \in A : /\ AmountFn[t] \in Int /\ RetentionFn[t] \in Int
                     /\ v[t] = AmountFn[t] - RetentionFn[t]
    BY <1>6, <1>7, <1>9, <1>10, <1>11 DEF ControlValue
  <2> QED BY <1>15, <2>1, SumMinus
<1>17. SumFunctionOnSet(v, B) = SumFunctionOnSet(AmountFn, B)
  <2>1. \A t \in B : v[t] = AmountFn[t]
    BY <1>6, <1>7, <1>9, <1>10, <1>11 DEF ControlValue
  <2> QED BY <1>15, <2>1, SumSame
<1>18. SumFunctionOnSet(v, D) = -SumFunctionOnSet(AmountFn, D)
  <2>1. \A t \in D : AmountFn[t] \in Int /\ v[t] = -AmountFn[t]
    BY <1>6, <1>7, <1>9, <1>10, <1>11 DEF ControlValue
  <2> QED BY <1>15, <2>1, SumNegative
<1>19. /\ Amounts(A) = SumFunctionOnSet(AmountFn, A) /\ Withheld(A) = SumFunctionOnSet(RetentionFn, A)
       /\ Amounts(B) = SumFunctionOnSet(AmountFn, B) /\ Amounts(D) = SumFunctionOnSet(AmountFn, D)
       /\ Amounts(A) \in Int /\ Withheld(A) \in Int /\ Amounts(B) \in Int /\ Amounts(D) \in Int
  BY <1>15, AmountsAreSums
<1> QED BY <1>3, <1>4, <1>5, <1>12, <1>14, <1>16, <1>17, <1>18, <1>19 DEF C

LEMMA ReceivablesBalance ==
  ASSUME RecordsInv
  PROVE  Net({1201, 1202}, Ruled) =
           Amounts(OfKind("CUSTOMER_INVOICE")) - Amounts(OfKind("CUSTOMER_PAYMENT"))
<1> DEFINE C == {1201, 1202}
<1>1. C \in SUBSET Controls
  BY DEF Controls
<1> HIDE DEF C
<1>2. PICK v : v = [t \in LiveRuled |-> ControlValue(C, t)]
  OBVIOUS
<1>3. PICK A : A = OfKind("CUSTOMER_INVOICE")
  OBVIOUS
<1>4. PICK B : B = {}
  OBVIOUS
<1>5. PICK D : D = OfKind("CUSTOMER_PAYMENT")
  OBVIOUS
<1>6. /\ \A t \in A : t.type = "CUSTOMER_INVOICE"
      /\ \A t \in D : t.type = "CUSTOMER_PAYMENT"
      /\ \A t \in LiveRuled : /\ t.type = "CUSTOMER_INVOICE" => t \in A
                              /\ t.type = "CUSTOMER_PAYMENT" => t \in D
  BY <1>3, <1>5 DEF OfKind, LiveRuled
<1>7. A \in SUBSET LiveRuled /\ B \in SUBSET LiveRuled /\ D \in SUBSET LiveRuled
  BY <1>3, <1>4, <1>5, RuledOrders
<1>8. A \cap B = {} /\ A \cap D = {} /\ B \cap D = {}
  BY <1>4, <1>6
<1>9. \A t \in LiveRuled : v[t] = ControlValue(C, t)
  BY <1>2
<1>10. \A m : Held(C, 1201, m) = m /\ Held(C, 1202, m) = m /\ Held(C, 2101, m) = 0
  BY DEF C, Held
<1>11. \A t \in LiveRuled : t \in Order /\ AmountFn[t] = t.amount
                            /\ t.amount \in Int /\ t.retention \in Int
  BY RuledOrders, OrderFields DEF AmountFn
<1>12. Net(C, Ruled) = SumFunctionOnSet(v, LiveRuled) /\ \A t \in LiveRuled : v[t] \in Int
  BY <1>1, <1>9, ControlSum
<1>13. \A t \in LiveRuled : t \notin A /\ t \notin B /\ t \notin D => v[t] = 0
  BY <1>6, <1>9, <1>10, <1>11 DEF ControlValue
<1>14. SumFunctionOnSet(v, LiveRuled) =
         SumFunctionOnSet(v, A) + SumFunctionOnSet(v, B) + SumFunctionOnSet(v, D)
  BY <1>7, <1>8, <1>12, <1>13, RuledOrders, SumOfThree
<1>15. A \in SUBSET Order /\ D \in SUBSET Order /\ IsFiniteSet(A) /\ IsFiniteSet(D)
  BY <1>7, <1>11, RuledOrders, FS_Subset
<1>16. SumFunctionOnSet(v, A) = SumFunctionOnSet(AmountFn, A)
  <2>1. \A t \in A : v[t] = AmountFn[t]
    BY <1>6, <1>7, <1>9, <1>10, <1>11 DEF ControlValue
  <2> QED BY <1>15, <2>1, SumSame
<1>17. SumFunctionOnSet(v, B) = 0
  BY <1>4, SumEmpty
<1>18. SumFunctionOnSet(v, D) = -SumFunctionOnSet(AmountFn, D)
  <2>1. \A t \in D : AmountFn[t] \in Int /\ v[t] = -AmountFn[t]
    BY <1>6, <1>7, <1>9, <1>10, <1>11 DEF ControlValue
  <2> QED BY <1>15, <2>1, SumNegative
<1>19. /\ Amounts(A) = SumFunctionOnSet(AmountFn, A) /\ Amounts(D) = SumFunctionOnSet(AmountFn, D)
       /\ Amounts(A) \in Int /\ Amounts(D) \in Int
  BY <1>15, AmountsAreSums
<1> QED BY <1>3, <1>5, <1>12, <1>14, <1>16, <1>17, <1>18, <1>19 DEF C

LEMMA PayablesBalance ==
  ASSUME RecordsInv
  PROVE  /\ -Net({2101}, Ruled) =
              Amounts(OfKind("VENDOR_BILL")) + Amounts(Unbilled)
                - (Amounts(OfKind("PAY_VENDOR_BILL")) + Amounts(OfKind("PAY_SUBCONTRACTOR")))
         /\ Amounts(Unbilled) \in Int
<1> DEFINE C == {2101}
<1>1. C \in SUBSET Controls
  BY DEF Controls
<1> HIDE DEF C
<1>2. PICK v : v = [t \in LiveRuled |-> ControlValue(C, t)]
  OBVIOUS
<1>3. PICK A : A = OfKind("VENDOR_BILL")
  OBVIOUS
<1>4. PICK B : B = Unbilled
  OBVIOUS
<1>5. PICK P : P = OfKind("PAY_VENDOR_BILL")
  OBVIOUS
<1>6. PICK Q : Q = OfKind("PAY_SUBCONTRACTOR")
  OBVIOUS
<1>7. PICK D : D = P \cup Q
  OBVIOUS
<1>8. /\ \A t \in A : t.type = "VENDOR_BILL"
      /\ \A t \in B : \/ t.type = "SUBCONTRACTOR_BILL"
                      \/ t.type = "ASSET_PURCHASE" /\ t.from = "NONE"
      /\ \A t \in P : t.type = "PAY_VENDOR_BILL"
      /\ \A t \in Q : t.type = "PAY_SUBCONTRACTOR"
      /\ \A t \in LiveRuled : /\ t.type = "VENDOR_BILL" => t \in A
                              /\ t.type = "SUBCONTRACTOR_BILL" => t \in B
                              /\ t.type = "ASSET_PURCHASE" /\ t.from = "NONE" => t \in B
                              /\ t.type = "PAY_VENDOR_BILL" => t \in D
                              /\ t.type = "PAY_SUBCONTRACTOR" => t \in D
  BY <1>3, <1>4, <1>5, <1>6, <1>7 DEF OfKind, LiveRuled, Live, Unbilled
<1>9. A \in SUBSET LiveRuled /\ B \in SUBSET LiveRuled /\ D \in SUBSET LiveRuled
      /\ P \in SUBSET LiveRuled /\ Q \in SUBSET LiveRuled
  <2>1. B \in SUBSET LiveRuled
    BY <1>4 DEF Unbilled, LiveRuled, Live
  <2> QED BY <1>3, <1>5, <1>6, <1>7, <2>1, RuledOrders
<1>10. A \cap B = {} /\ A \cap D = {} /\ B \cap D = {} /\ P \cap Q = {}
  BY <1>7, <1>8
<1>11. \A t \in LiveRuled : v[t] = ControlValue(C, t)
  BY <1>2
<1>12. \A m : Held(C, 1201, m) = 0 /\ Held(C, 1202, m) = 0 /\ Held(C, 2101, m) = m
  BY DEF C, Held
<1>13. \A t \in LiveRuled : t \in Order /\ AmountFn[t] = t.amount /\ t.amount \in Int
  BY RuledOrders, OrderFields DEF AmountFn
<1>14. Net(C, Ruled) = SumFunctionOnSet(v, LiveRuled) /\ \A t \in LiveRuled : v[t] \in Int
  BY <1>1, <1>11, ControlSum
<1>15. \A t \in LiveRuled : t \notin A /\ t \notin B /\ t \notin D => v[t] = 0
  BY <1>8, <1>11, <1>12 DEF ControlValue
<1>16. SumFunctionOnSet(v, LiveRuled) =
         SumFunctionOnSet(v, A) + SumFunctionOnSet(v, B) + SumFunctionOnSet(v, D)
  BY <1>9, <1>10, <1>14, <1>15, RuledOrders, SumOfThree
<1>17. /\ A \in SUBSET Order /\ B \in SUBSET Order /\ D \in SUBSET Order
       /\ P \in SUBSET Order /\ Q \in SUBSET Order
       /\ IsFiniteSet(A) /\ IsFiniteSet(B) /\ IsFiniteSet(D) /\ IsFiniteSet(P) /\ IsFiniteSet(Q)
  BY <1>9, <1>13, RuledOrders, FS_Subset
<1>18. SumFunctionOnSet(v, A) = -SumFunctionOnSet(AmountFn, A)
  <2>1. \A t \in A : AmountFn[t] \in Int /\ v[t] = -AmountFn[t]
    BY <1>8, <1>9, <1>11, <1>12, <1>13 DEF ControlValue
  <2> QED BY <1>17, <2>1, SumNegative
<1>19. SumFunctionOnSet(v, B) = -SumFunctionOnSet(AmountFn, B)
  <2>1. \A t \in B : AmountFn[t] \in Int /\ v[t] = -AmountFn[t]
    BY <1>8, <1>9, <1>11, <1>12, <1>13 DEF ControlValue
  <2> QED BY <1>17, <2>1, SumNegative
<1>20. SumFunctionOnSet(v, D) = SumFunctionOnSet(AmountFn, D)
  <2>1. \A t \in D : v[t] = AmountFn[t]
    BY <1>7, <1>8, <1>9, <1>11, <1>12, <1>13 DEF ControlValue
  <2> QED BY <1>17, <2>1, SumSame
<1>21. /\ Amounts(A) = SumFunctionOnSet(AmountFn, A) /\ Amounts(B) = SumFunctionOnSet(AmountFn, B)
       /\ Amounts(D) = SumFunctionOnSet(AmountFn, D)
       /\ Amounts(A) \in Int /\ Amounts(B) \in Int
  BY <1>17, AmountsAreSums
<1>22. Amounts(D) = Amounts(P) + Amounts(Q) /\ Amounts(P) \in Int /\ Amounts(Q) \in Int
  BY <1>7, <1>10, <1>17, AmountsOfBoth
<1> QED BY <1>3, <1>4, <1>5, <1>6, <1>14, <1>16, <1>18, <1>19, <1>20, <1>21, <1>22 DEF C

LEMMA ReceivablesAgree == ASSUME RecordsInv PROVE ReceivablesTie
<1>1. PICK a \in Int, h \in Int, da \in Int, dh \in Int :
        /\ a = Amounts(BilledOf("CUSTOMER_INVOICE")) /\ h = Withheld(BilledOf("CUSTOMER_INVOICE"))
        /\ da = Amounts(Revived("CUSTOMER_INVOICE")) /\ dh = Withheld(Revived("CUSTOMER_INVOICE"))
  BY SplitAmounts
<1>2. PICK lp \in Int, lr \in Int :
        lp = Amounts(Loose("CUSTOMER_PAYMENT")) /\ lr = Amounts(Loose("RETENTION_RELEASE"))
  BY SplitAmounts
<1>3. PICK u \in Int, v \in Int : u = PaidOn("CUSTOMER_INVOICE") /\ v = ReleasedOn("CUSTOMER_INVOICE")
  BY OpenSums
<1>4. /\ Amounts(OfKind("CUSTOMER_INVOICE")) = a + da /\ Withheld(OfKind("CUSTOMER_INVOICE")) = h + dh
      /\ Amounts(OfKind("RETENTION_RELEASE")) = lr + v /\ Amounts(OfKind("CUSTOMER_PAYMENT")) = lp + u
  BY <1>1, <1>2, <1>3, SplitAmounts, AppliedIsPaid
<1>5. ReceivableAging - Total(BilledOf("CUSTOMER_INVOICE"), Overpaid) = a - h + v - u
  BY <1>1, <1>3, AgingSums
<1>6. ReceivableOutstanding = a - u
  BY <1>1, <1>3, OpenSums DEF ReceivableOutstanding
<1>7. Net({1201}, Ruled) = (a + da) - (h + dh) + (lr + v) - (lp + u)
  BY <1>4, DebtorsBalance
<1>8. Net({1201, 1202}, Ruled) = (a + da) - (lp + u)
  BY <1>4, ReceivablesBalance
<1>9. Net({1201}, Ruled) =
        ReceivableAging - Total(BilledOf("CUSTOMER_INVOICE"), Overpaid)
          - Amounts(Loose("CUSTOMER_PAYMENT")) + Amounts(Loose("RETENTION_RELEASE"))
          + Amounts(Revived("CUSTOMER_INVOICE")) - Withheld(Revived("CUSTOMER_INVOICE"))
  BY <1>1, <1>2, <1>3, <1>5, <1>7
<1>10. Net({1201, 1202}, Ruled) =
         ReceivableOutstanding - Amounts(Loose("CUSTOMER_PAYMENT")) + Amounts(Revived("CUSTOMER_INVOICE"))
  BY <1>1, <1>2, <1>3, <1>6, <1>8
<1> QED BY <1>9, <1>10 DEF ReceivablesTie

LEMMA PayablesAgree == ASSUME RecordsInv PROVE PayablesTie
<1>1. PICK a \in Int, d \in Int, l \in Int, u \in Int :
        /\ a = Amounts(BilledOf("VENDOR_BILL")) /\ d = Amounts(Revived("VENDOR_BILL"))
        /\ l = Amounts(Loose("PAY_VENDOR_BILL")) /\ u = PaidOn("VENDOR_BILL")
  BY SplitAmounts, OpenSums
<1>2. PICK s \in Int, n \in Int : s = Amounts(Loose("PAY_SUBCONTRACTOR")) /\ n = Amounts(Unbilled)
  BY SplitAmounts, PayablesBalance
<1>3. Amounts(OfKind("VENDOR_BILL")) = a + d /\ Amounts(OfKind("PAY_VENDOR_BILL")) = l + u
  BY <1>1, SplitAmounts, AppliedIsPaid
<1>4. Amounts(OfKind("PAY_SUBCONTRACTOR")) = s
  <2>1. AppliedKind("PAY_SUBCONTRACTOR") = {}
    BY AppliedIsPaid
  <2>2. OfKind("PAY_SUBCONTRACTOR") = Loose("PAY_SUBCONTRACTOR") \cup AppliedKind("PAY_SUBCONTRACTOR")
    BY KindsSplit
  <2>3. OfKind("PAY_SUBCONTRACTOR") = Loose("PAY_SUBCONTRACTOR")
    BY <2>1, <2>2
  <2> QED BY <1>2, <2>3
<1>5. PayableOutstanding = a - u
  BY <1>1, OpenSums DEF PayableOutstanding
<1>6. -Net({2101}, Ruled) = (a + d) + n - ((l + u) + s)
  BY <1>2, <1>3, <1>4, PayablesBalance
<1>7. (a + d) + n - ((l + u) + s) = (a - u) - l - s + n + d
  OBVIOUS
<1> QED BY <1>1, <1>2, <1>5, <1>6, <1>7 DEF PayablesTie

-----------------------------------------------------------------------------
(* Payment accounts.                                                       *)

\* The legs that name an account of R, and the cash that names none.
AccountLegs(R) == [x \in Leg |-> IF x.account \in R THEN x.dr - x.cr ELSE 0]
UnnamedLegs == [x \in Leg |-> IF x.account = "NONE" /\ x.code \in Cash THEN x.dr - x.cr ELSE 0]

LEMMA AccountWeights ==
  /\ \A R : AccountLegs(R) \in [Leg -> Int]
  /\ UnnamedLegs \in [Leg -> Int]
  BY LegFields DEF AccountLegs, UnnamedLegs

LEMMA JournalOK ==
  ASSUME RecordsInv
  PROVE  /\ EntriesOK(journal) /\ IsFiniteSet(journal)
         /\ \A e \in journal : /\ e.legs \in Seq(Leg)
                               /\ \A i \in DOMAIN e.legs : e.legs[i] \in Leg
<1>1. EntriesOK(journal)
  BY JournalPart DEF RecordsInv
<1>2. \A e \in journal : e.legs \in Seq(Leg)
  BY <1>1 DEF EntriesOK, EntryOK
<1> QED BY <1>1, <1>2, LegsAre DEF EntriesOK

LEMMA JournalAdds ==
  ASSUME RecordsInv, NEW u \in [Leg -> Int], NEW v \in [Leg -> Int], NEW w,
         \A x \in Leg : w[x] = u[x] + v[x]
  PROVE  Balance(w, journal) = Balance(u, journal) + Balance(v, journal)
<1>1. \A e \in journal : \A i \in DOMAIN e.legs : w[e.legs[i]] = u[e.legs[i]] + v[e.legs[i]]
  BY JournalOK
<1>2. EntriesOK(journal)
  BY JournalOK
<1> QED BY ONLY <1>1, <1>2, AddedBalance, u \in [Leg -> Int], v \in [Leg -> Int]

LEMMA AccountBalanceIs ==
  ASSUME RecordsInv, NEW a
  PROVE  PaymentAccountBalance(a) = Balance(AccountLegs({a}), journal)
<1>1. ASSUME NEW e \in journal
      PROVE  SumFunctionOnSet([i \in DOMAIN e.legs |->
                                 IF e.legs[i].account = a THEN e.legs[i].dr - e.legs[i].cr ELSE 0],
                              DOMAIN e.legs)
               = LegsWeight(AccountLegs({a}), e.legs)
  <2>1. \A i \in DOMAIN e.legs :
          AccountLegs({a})[e.legs[i]] =
            IF e.legs[i].account = a THEN e.legs[i].dr - e.legs[i].cr ELSE 0
    BY JournalOK DEF AccountLegs
  <2>2. [i \in DOMAIN e.legs |-> IF e.legs[i].account = a THEN e.legs[i].dr - e.legs[i].cr ELSE 0]
         = [i \in DOMAIN e.legs |-> AccountLegs({a})[e.legs[i]]]
    BY <2>1
  <2> QED BY <2>2 DEF LegsWeight
<1>2. [e \in journal |->
         SumFunctionOnSet([i \in DOMAIN e.legs |->
                             IF e.legs[i].account = a THEN e.legs[i].dr - e.legs[i].cr ELSE 0],
                          DOMAIN e.legs)]
       = [e \in journal |-> LegsWeight(AccountLegs({a}), e.legs)]
  BY <1>1
<1> QED BY <1>2 DEF PaymentAccountBalance, Sum, SumLegs, Balance

LEMMA UnnamedCashIs ==
  ASSUME RecordsInv
  PROVE  UnnamedCash = Balance(UnnamedLegs, journal)
<1>1. ASSUME NEW e \in journal
      PROVE  SumFunctionOnSet([i \in DOMAIN e.legs |->
                                 IF e.legs[i].account = "NONE" /\ e.legs[i].code \in Cash
                                   THEN e.legs[i].dr - e.legs[i].cr ELSE 0],
                              DOMAIN e.legs)
               = LegsWeight(UnnamedLegs, e.legs)
  <2>1. \A i \in DOMAIN e.legs :
          UnnamedLegs[e.legs[i]] =
            IF e.legs[i].account = "NONE" /\ e.legs[i].code \in Cash
              THEN e.legs[i].dr - e.legs[i].cr ELSE 0
    BY JournalOK DEF UnnamedLegs
  <2>2. [i \in DOMAIN e.legs |-> IF e.legs[i].account = "NONE" /\ e.legs[i].code \in Cash
                                   THEN e.legs[i].dr - e.legs[i].cr ELSE 0]
         = [i \in DOMAIN e.legs |-> UnnamedLegs[e.legs[i]]]
    BY <2>1
  <2> QED BY <2>2 DEF LegsWeight
<1>2. [e \in journal |->
         SumFunctionOnSet([i \in DOMAIN e.legs |->
                             IF e.legs[i].account = "NONE" /\ e.legs[i].code \in Cash
                               THEN e.legs[i].dr - e.legs[i].cr ELSE 0],
                          DOMAIN e.legs)]
       = [e \in journal |-> LegsWeight(UnnamedLegs, e.legs)]
  BY <1>1
<1> QED BY <1>2 DEF UnnamedCash, Sum, SumLegs, Balance

LEMMA NamedCashIs ==
  ASSUME RecordsInv
  PROVE  NamedCash = Balance(AccountLegs(PaymentAccount), journal)
<1>1. PICK f : f = [a \in PaymentAccount |-> PaymentAccountBalance(a)]
  OBVIOUS
<1>2. PICK g : g = [R \in SUBSET PaymentAccount |-> Balance(AccountLegs(R), journal)]
  OBVIOUS
<1>3. \A R : AccountLegs(R) \in [Leg -> Int]
  BY AccountWeights
<1>4. g[{}] = 0
  <2>1. \A x \in Leg : AccountLegs({})[x] = 0
    BY DEF AccountLegs
  <2>2. Balance(AccountLegs({}), journal) = 0
    BY <1>3, <2>1, JournalOK, NoBalance
  <2>3. {} \in SUBSET PaymentAccount
    OBVIOUS
  <2> QED BY <1>2, <2>2, <2>3
<1>5. ASSUME NEW R \in SUBSET PaymentAccount, NEW a \in PaymentAccount \ R
      PROVE  g[R \cup {a}] = f[a] + g[R]
  <2>1. PICK u \in [Leg -> Int] : u = AccountLegs({a})
    BY <1>3
  <2>2. PICK v \in [Leg -> Int] : v = AccountLegs(R)
    BY <1>3
  <2>3. PICK w : w = AccountLegs(R \cup {a})
    OBVIOUS
  <2>4. \A x \in Leg : w[x] = u[x] + v[x]
    <3> SUFFICES ASSUME NEW x \in Leg PROVE w[x] = u[x] + v[x]
      OBVIOUS
    <3>1. /\ u[x] = IF x.account = a THEN x.dr - x.cr ELSE 0
          /\ v[x] = IF x.account \in R THEN x.dr - x.cr ELSE 0
          /\ w[x] = IF x.account = a \/ x.account \in R THEN x.dr - x.cr ELSE 0
      BY <2>1, <2>2, <2>3 DEF AccountLegs
    <3> QED BY <3>1, LegFields
  <2>5. Balance(w, journal) = Balance(u, journal) + Balance(v, journal)
    BY <2>4, JournalAdds
  <2>6. R \cup {a} \in SUBSET PaymentAccount
    OBVIOUS
  <2>7. g[R \cup {a}] = Balance(w, journal) /\ g[R] = Balance(v, journal)
    BY <1>2, <2>2, <2>3, <2>6
  <2>8. f[a] = Balance(u, journal)
    BY <1>1, <2>1, AccountBalanceIs
  <2> QED BY <2>5, <2>7, <2>8
<1>6. \A a \in PaymentAccount : f[a] \in Int
  BY <1>1, <1>3, AccountBalanceIs, BalanceType, JournalOK
<1>7. GrowsBy(g, f, PaymentAccount)
  BY <1>4, <1>5 DEF GrowsBy
<1>8. SumFunctionOnSet(f, PaymentAccount) = g[PaymentAccount]
  BY <1>6, <1>7, SumIs, BooksAssumption
<1>9. NamedCash = SumFunctionOnSet(f, PaymentAccount)
  BY <1>1 DEF NamedCash, Total
<1> QED BY <1>2, <1>8, <1>9

LEMMA CashAgrees ==
  ASSUME RecordsInv
  PROVE  /\ Net(Cash, journal) = NamedCash + UnnamedCash
         /\ NamedCash \in Int /\ UnnamedCash \in Int
<1>1. PICK u \in [Leg -> Int] : u = AccountLegs(PaymentAccount)
  BY AccountWeights
<1>2. PICK v \in [Leg -> Int] : v = UnnamedLegs
  BY AccountWeights
<1>3. PICK w : w = Coded(Cash)
  OBVIOUS
<1>4. 1101 \in Cash
  <2>1. 1101 \in DOMAIN chart
    BY DEF RecordsInv, BooksInv, ChartOK
  <2>2. 1101 \div 1 = 1101
    OBVIOUS
  <2> QED BY <2>1, <2>2 DEF Cash, Starts
<1>5. \A x \in Leg : w[x] = u[x] + v[x]
  <2> SUFFICES ASSUME NEW x \in Leg PROVE w[x] = u[x] + v[x]
    OBVIOUS
  <2>1. /\ u[x] = IF x.account \in PaymentAccount THEN x.dr - x.cr ELSE 0
        /\ v[x] = IF x.account = "NONE" /\ x.code \in Cash THEN x.dr - x.cr ELSE 0
        /\ w[x] = IF x.code \in Cash THEN x.dr - x.cr ELSE 0
    BY <1>1, <1>2, <1>3 DEF AccountLegs, UnnamedLegs, Coded
  <2>2. x.account \in PaymentAccount <=> x.account # "NONE"
    BY LegFields, BooksAssumption DEF ItsAccount
  <2>3. x.account # "NONE" => x.code \in Cash
    BY <1>4, LegFields
  <2> QED BY <2>1, <2>2, <2>3, LegFields
<1>6. Balance(w, journal) = Balance(u, journal) + Balance(v, journal)
  BY <1>5, JournalAdds
<1>7. Balance(u, journal) \in Int /\ Balance(v, journal) \in Int
  BY JournalOK, BalanceType
<1> QED BY <1>1, <1>2, <1>3, <1>6, <1>7, JournalOK, NetIsBalance, NamedCashIs, UnnamedCashIs

\* A bill is dated like its entry.
LEMMA BilledByNow ==
  ASSUME RecordsInv, NEW d \in Int, journal = UpTo(d), NEW b \in billed
  PROVE  b.day <= d
<1>1. b \in Order /\ Cardinality(Posting(b)) = 1
  BY DEF RecordsInv, BillsInv, BilledOK, Once
<1>2. PICK e \in journal : e.of = b
  BY <1>1, OncePosted DEF Once, Posted, Posting
<1>3. e.nth \in Nat /\ e.nth < 1 /\ (e.nth = 0 => e.day = b.day)
  BY <1>1, <1>2 DEF RecordsInv, HistoryInv, HistoryOK
<1> QED BY <1>2, <1>3 DEF UpTo

LEMMA LatestAgrees ==
  ASSUME RecordsInv, NEW d \in Day, journal = UpTo(d)
  PROVE  LatestTie(d)
<1>1. d \in Int
  BY BooksAssumption
<1>2. PayableAging(d) = PayableOutstanding
  <2>1. {b \in BilledOf("VENDOR_BILL") : b.day <= d} = BilledOf("VENDOR_BILL")
    BY <1>1, BilledByNow, BilledPart
  <2> QED BY <2>1 DEF PayableAging, PayableOutstanding
<1>3. NamedCash = DashboardCash(d) - UnnamedCash
  BY CashAgrees DEF DashboardCash
<1>4. Total(PaymentAccount, LAMBDA a : OverviewBalance(a, d)) =
        Cardinality(PaymentAccount) * (NamedCash + UnnamedCash - Net(Cash \ {1101}, journal))
  <2>1. PICK f : f = [a \in PaymentAccount |-> OverviewBalance(a, d)]
    OBVIOUS
  <2>2. PICK n \in Int : n = Net({1101}, journal)
    BY JournalOK, NetType
  <2>3. \A a \in PaymentAccount : f[a] = n
    BY <2>1, <2>2 DEF OverviewBalance
  <2>4. SumFunctionOnSet(f, PaymentAccount) = Cardinality(PaymentAccount) * n
    BY <2>3, SumConstant, BooksAssumption
  <2>5. n = NamedCash + UnnamedCash - Net(Cash \ {1101}, journal)
    <3> DEFINE D == {1101}
    <3>1. D \subseteq Cash
      <4>1. 1101 \in DOMAIN chart
        BY DEF RecordsInv, BooksInv, ChartOK
      <4>2. 1101 \div 1 = 1101
        OBVIOUS
      <4> QED BY <4>1, <4>2 DEF Cash, Starts
    <3> HIDE DEF D
    <3>2. BooksInv /\ journal \in SUBSET journal
      BY DEF RecordsInv
    <3>3. /\ Net(Cash, journal) = Net(Cash \ D, journal) + Net(D, journal)
          /\ Net(Cash, journal) \in Int /\ Net(Cash \ D, journal) \in Int
      BY ONLY <3>1, <3>2, NetOfDifference
    <3>4. n = Net(D, journal)
      BY <2>2 DEF D
    <3>5. n = NamedCash + UnnamedCash - Net(Cash \ D, journal)
      BY <3>3, <3>4, CashAgrees
    <3> QED BY <3>5 DEF D
  <2>6. Total(PaymentAccount, LAMBDA a : OverviewBalance(a, d)) = SumFunctionOnSet(f, PaymentAccount)
    BY <2>1 DEF Total
  <2> QED BY <2>4, <2>5, <2>6
<1> QED BY <1>2, <1>3, <1>4 DEF LatestTie

\* The records alone decide what the subledgers say.
LEMMA SubledgersTieAlways == RecordsInv => SubledgersTie
  BY ReceivablesAgree, PayablesAgree, LatestAgrees DEF SubledgersTie

-----------------------------------------------------------------------------
(* Projects.                                                               *)

ProjectLegs(p, C) == [x \in Leg |-> IF x.project = p /\ x.code \in C THEN x.dr - x.cr ELSE 0]

LEMMA ProjectWeight == ASSUME NEW p, NEW C PROVE ProjectLegs(p, C) \in Weight
<1>1. PICK w : w = ProjectLegs(p, C)
  OBVIOUS
<1>2. \A x \in Leg : /\ w[x] = IF x.project = p /\ x.code \in C THEN x.dr - x.cr ELSE 0
                     /\ w[x] \in Int
  BY <1>1, LegFields DEF ProjectLegs
<1>3. w \in [Leg -> Int]
  BY <1>1, <1>2 DEF ProjectLegs
<1>4. ASSUME NEW x \in Leg PROVE w[Inverted(x)] = -w[x]
  <2>1. PICK y \in Leg : /\ y = Inverted(x) /\ y.dr = x.cr /\ y.cr = x.dr /\ y.code = x.code
                         /\ y.project = x.project
    BY InvertedLeg
  <2>2. /\ w[y] = IF x.project = p /\ x.code \in C THEN x.cr - x.dr ELSE 0
        /\ w[x] = IF x.project = p /\ x.code \in C THEN x.dr - x.cr ELSE 0
    BY <1>2, <2>1
  <2>3. x.dr \in Int /\ x.cr \in Int
    BY LegFields
  <2> QED BY <2>1, <2>2, <2>3
<1> QED BY <1>1, <1>3, <1>4 DEF Weight

LEMMA ProjectNetIs ==
  ASSUME RecordsInv, NEW p, NEW C
  PROVE  ProjectNet(p, C) = Balance(ProjectLegs(p, C), journal)
<1>1. ASSUME NEW e \in journal
      PROVE  SumFunctionOnSet([i \in DOMAIN e.legs |->
                                 IF e.legs[i].project = p /\ e.legs[i].code \in C
                                   THEN e.legs[i].dr - e.legs[i].cr ELSE 0],
                              DOMAIN e.legs)
               = LegsWeight(ProjectLegs(p, C), e.legs)
  <2>1. \A i \in DOMAIN e.legs :
          ProjectLegs(p, C)[e.legs[i]] =
            IF e.legs[i].project = p /\ e.legs[i].code \in C
              THEN e.legs[i].dr - e.legs[i].cr ELSE 0
    BY JournalOK DEF ProjectLegs
  <2>2. [i \in DOMAIN e.legs |-> IF e.legs[i].project = p /\ e.legs[i].code \in C
                                   THEN e.legs[i].dr - e.legs[i].cr ELSE 0]
         = [i \in DOMAIN e.legs |-> ProjectLegs(p, C)[e.legs[i]]]
    BY <2>1
  <2> QED BY <2>2 DEF LegsWeight
<1>2. [e \in journal |->
         SumFunctionOnSet([i \in DOMAIN e.legs |->
                             IF e.legs[i].project = p /\ e.legs[i].code \in C
                               THEN e.legs[i].dr - e.legs[i].cr ELSE 0],
                          DOMAIN e.legs)]
       = [e \in journal |-> LegsWeight(ProjectLegs(p, C), e.legs)]
  BY <1>1
<1> QED BY <1>2 DEF ProjectNet, Sum, SumLegs, Balance

LEMMA InvertedRuleLeg == ASSUME NEW x \in RuleLeg PROVE Inverted(x) \in RuleLeg
<1>1. x \in Leg /\ (x.project # "NONE" => x.code \in ProjectCodes)
  BY DEF RuleLeg
<1>2. Inverted(x) \in Leg /\ Inverted(x).code = x.code /\ Inverted(x).project = x.project
  BY <1>1, InvertedLeg
<1> QED BY <1>1, <1>2 DEF RuleLeg

\* Only these accounts name a project that no adjustment names.
LEMMA NamedCodes ==
  ASSUME RecordsInv, NEW p \in Project, ~Adjusted(p), NEW e \in journal, NEW i \in DOMAIN e.legs,
         e.legs[i].project = p
  PROVE  e.legs[i].code \in ProjectCodes
<1>1. e \notin Adjusting
  BY DEF Adjusted
<1>2. HistoryOK(e)
  BY DEF RecordsInv, HistoryInv
<1>3. PICK t \in Order : t = e.of /\ t.type \in PostingRuleTypes /\ t.type # "JOURNAL_ADJUSTMENT"
  BY <1>1, <1>2 DEF Adjusting, HistoryOK
<1>4. PICK s \in Seq(RuleLeg) : s = JournalLegs(t)
  BY <1>3, RulesYieldRuleLegs
<1>5. e.legs = s \/ e.legs = Lines(s, Inverted)
  BY <1>2, <1>3, <1>4 DEF HistoryOK, LegsAt
<1>6. e.legs[i] \in RuleLeg
  <2>1. CASE e.legs = s
    BY <2>1
  <2>2. CASE e.legs = Lines(s, Inverted)
    BY <2>2, InvertedRuleLeg DEF Lines
  <2> QED BY <1>5, <2>1, <2>2
<1>7. p # "NONE"
  BY BooksAssumption
<1> QED BY <1>6, <1>7 DEF RuleLeg

LEMMA ProjectNetAgrees ==
  ASSUME RecordsInv, NEW p \in Project, ~Adjusted(p), NEW C, NEW D,
         \A c \in ProjectCodes : c \in C <=> c \in D
  PROVE  ProjectNet(p, C) = ProjectNet(p, D)
<1>1. PICK u : u = ProjectLegs(p, C)
  OBVIOUS
<1>2. PICK v : v = ProjectLegs(p, D)
  OBVIOUS
<1>3. \A e \in journal : \A i \in DOMAIN e.legs : u[e.legs[i]] = v[e.legs[i]]
  <2> SUFFICES ASSUME NEW e \in journal, NEW i \in DOMAIN e.legs
               PROVE  u[e.legs[i]] = v[e.legs[i]]
    OBVIOUS
  <2>1. e.legs[i] \in Leg
    BY JournalOK
  <2>2. e.legs[i].project = p => (e.legs[i].code \in C <=> e.legs[i].code \in D)
    BY NamedCodes
  <2> QED BY <1>1, <1>2, <2>1, <2>2 DEF ProjectLegs
<1>4. Balance(u, journal) = Balance(v, journal)
  <2>1. EntriesOK(journal)
    BY JournalOK
  <2> QED BY ONLY <1>3, <2>1, SameBalance
<1> QED BY <1>1, <1>2, <1>4, ProjectNetIs

LEMMA NoProjectNet ==
  ASSUME RecordsInv, NEW p \in Project, ~Adjusted(p), NEW C, \A c \in ProjectCodes : c \notin C
  PROVE  ProjectNet(p, C) = 0
<1>1. PICK w : w = ProjectLegs(p, C)
  OBVIOUS
<1>2. \A e \in journal : \A i \in DOMAIN e.legs : w[e.legs[i]] = 0
  <2> SUFFICES ASSUME NEW e \in journal, NEW i \in DOMAIN e.legs PROVE w[e.legs[i]] = 0
    OBVIOUS
  <2>1. e.legs[i] \in Leg
    BY JournalOK
  <2>2. e.legs[i].project = p => e.legs[i].code \notin C
    BY NamedCodes
  <2> QED BY <1>1, <2>1, <2>2 DEF ProjectLegs
<1>3. w \in [Leg -> Int]
  BY <1>1, ProjectWeight DEF Weight
<1>4. Balance(w, journal) = 0
  <2>1. EntriesOK(journal)
    BY JournalOK
  <2> QED BY ONLY <1>2, <1>3, <2>1, NoBalance
<1> QED BY <1>1, <1>4, ProjectNetIs

\* Adjustments that do not name the project do not count.
LEMMA BalanceWithoutAdjustments ==
  ASSUME RecordsInv, NEW p, ~Adjusted(p), NEW w \in [Leg -> Int],
         \A x \in Leg : x.project # p => w[x] = 0
  PROVE  Balance(w, journal) = Balance(w, Ruled)
<1>1. /\ Ruled \in SUBSET journal /\ Adjusting \in SUBSET journal
      /\ Ruled \cap Adjusting = {} /\ journal = Ruled \cup Adjusting
  BY DEF Ruled, Adjusting
<1>2. EntriesOK(Ruled) /\ EntriesOK(Adjusting)
  BY <1>1, JournalPart DEF RecordsInv
<1>3. Balance(w, journal) = Balance(w, Ruled) + Balance(w, Adjusting)
  BY <1>1, <1>2, BalanceOfBoth
<1>4. \A e \in Adjusting : \A i \in DOMAIN e.legs : w[e.legs[i]] = 0
  <2> SUFFICES ASSUME NEW e \in Adjusting, NEW i \in DOMAIN e.legs PROVE w[e.legs[i]] = 0
    OBVIOUS
  <2>1. e.legs[i] \in Leg
    BY <1>1, JournalOK
  <2>2. e.legs[i].project # p
    BY DEF Adjusted
  <2> QED BY <2>1, <2>2
<1>5. Balance(w, Adjusting) = 0
  BY ONLY <1>2, <1>4, NoBalance, w \in [Leg -> Int]
<1>6. Balance(w, Ruled) \in Int
  BY <1>2, BalanceType
<1> QED BY <1>3, <1>5, <1>6

\* The prefixes that the reports on a project ask for.
LEMMA ProjectPrefixes ==
  ASSUME NEW c \in ProjectCodes
  PROVE  /\ Starts(c, 4101) <=> c = 4101
         /\ Starts(c, 5101) <=> c = 5101
         /\ Starts(c, 5) <=> c = 5101
         /\ Starts(c, 110) <=> c = 1101
         /\ Starts(c, 1101) <=> c = 1101
         /\ ~Starts(c, 710) /\ ~Starts(c, 810)
<1>1. /\ 1101 \div 1 = 1101 /\ 1101 \div 10 = 110 /\ 1101 \div 100 = 11 /\ 1101 \div 1000 = 1
      /\ 2101 \div 1 = 2101 /\ 2101 \div 10 = 210 /\ 2101 \div 100 = 21 /\ 2101 \div 1000 = 2
      /\ 4101 \div 1 = 4101 /\ 4101 \div 10 = 410 /\ 4101 \div 100 = 41 /\ 4101 \div 1000 = 4
      /\ 5101 \div 1 = 5101 /\ 5101 \div 10 = 510 /\ 5101 \div 100 = 51 /\ 5101 \div 1000 = 5
  OBVIOUS
<1>2. \A q : Starts(c, q) <=>
               c \div 1 = q \/ c \div 10 = q \/ c \div 100 = q \/ c \div 1000 = q
  BY DEF Starts
<1>3. c = 1101 \/ c = 2101 \/ c = 4101 \/ c = 5101
  BY DEF ProjectCodes
<1> QED BY <1>1, <1>2, <1>3

LEMMA ProjectTies ==
  ASSUME NEW p
  PROVE  /\ ProjectLegs(p, {4101}) \in Tying
         /\ ProjectLegs(p, {4101}) \in Weight
         /\ \A x \in Leg : /\ x.project # p => ProjectLegs(p, {4101})[x] = 0
                           /\ x.code # 4101 => ProjectLegs(p, {4101})[x] = 0
                           /\ x.project = p /\ x.code = 4101 => ProjectLegs(p, {4101})[x] = x.dr - x.cr
<1>1. \A x \in Leg : ProjectLegs(p, {4101})[x] =
                       IF x.project = p /\ x.code = 4101 THEN x.dr - x.cr ELSE 0
  BY DEF ProjectLegs
<1>2. ProjectLegs(p, {4101}) \in Weight
  BY ProjectWeight
<1>3. ProjectLegs(p, {4101}) \in [Leg -> Int]
  BY <1>2 DEF Weight
<1>4. \A x \in Leg : x.code \notin TiedCodes => x.code # 4101
  BY DEF TiedCodes
<1> QED BY <1>1, <1>2, <1>3, <1>4 DEF Tying

\* The revenue legs of an invoice that is about one project.
LEMMA RevenueOfInvoice ==
  ASSUME NEW p, NEW t \in Order, Creatable(t), t.type = "CUSTOMER_INVOICE"
  PROVE  LegsWeight(ProjectLegs(p, {4101}), RevenueLegs(t)) =
           IF ProjectsOf(t) = {p} THEN -t.amount ELSE 0
<1>1. PICK w \in [Leg -> Int] :
        /\ w = ProjectLegs(p, {4101})
        /\ \A x \in Leg : /\ x.project # p => w[x] = 0
                          /\ x.project = p /\ x.code = 4101 => w[x] = x.dr - x.cr
  BY ProjectTies DEF Tying
<1>2. PICK q \in Project : ProjectsOf(t) = {q}
  BY DEF Creatable
<1>3. PICK s \in Seq(Allocation) : s = t.allocations
  BY OrderFields
<1>4. \A i \in DOMAIN s : s[i] \in Allocation /\ s[i].amount \in Int /\ s[i].project = q
  <2>1. \A i \in DOMAIN s : s[i].project \in ProjectsOf(t)
    BY <1>3 DEF ProjectsOf
  <2> QED BY <1>2, <2>1, AllocationFields
<1>5. s # <<>>
  BY <1>2, <1>3 DEF ProjectsOf
<1>6. PICK r \in Seq(Leg) : r = RevenueLegs(t)
  BY RevenueLegsAre
<1>7. r = [i \in DOMAIN s |-> Credit(4101, s[i].amount, s[i].project, "NONE", "NONE")]
  BY <1>3, <1>5, <1>6 DEF RevenueLegs
<1>8. \A i \in DOMAIN s : /\ r[i] \in Leg /\ r[i].code = 4101 /\ r[i].project = q
                          /\ r[i].dr = 0 /\ r[i].cr = s[i].amount
  BY <1>4, <1>6, <1>7, LegsAre DEF Credit
<1>9. DOMAIN r = DOMAIN s /\ IsFiniteSet(DOMAIN s)
  BY <1>6, <1>7, LegsAre
<1>10. CASE q = p
  <2>1. PICK f : f = [i \in DOMAIN r |-> w[r[i]]]
    OBVIOUS
  <2>2. PICK h : h = [i \in DOMAIN s |-> s[i].amount]
    OBVIOUS
  <2>3. \A i \in DOMAIN s : h[i] \in Int /\ f[i] = -h[i]
    <3> SUFFICES ASSUME NEW i \in DOMAIN s PROVE h[i] \in Int /\ f[i] = -h[i]
      OBVIOUS
    <3>1. w[r[i]] = r[i].dr - r[i].cr
      BY <1>1, <1>8, <1>10
    <3>2. h[i] = s[i].amount /\ f[i] = w[r[i]] /\ s[i].amount \in Int
      BY <1>4, <1>9, <2>1, <2>2
    <3>3. r[i].dr = 0 /\ r[i].cr = s[i].amount
      BY <1>8
    <3> QED BY <3>1, <3>2, <3>3
  <2>4. SumFunctionOnSet(f, DOMAIN s) = -SumFunctionOnSet(h, DOMAIN s)
    BY <1>9, <2>3, SumNegative
  <2>5. AllocatedAmount(t) = SumFunctionOnSet(h, DOMAIN s)
    BY <1>3, <2>2 DEF AllocatedAmount, SumLegs
  <2>6. AllocatedAmount(t) = t.amount
    BY <1>3, <1>5 DEF Creatable
  <2>7. LegsWeight(w, r) = SumFunctionOnSet(f, DOMAIN s)
    BY <1>9, <2>1 DEF LegsWeight
  <2> QED BY <1>1, <1>2, <1>6, <1>10, <2>4, <2>5, <2>6, <2>7
<1>11. CASE q # p
  <2>1. \A i \in DOMAIN r : w[r[i]] = 0
    BY <1>1, <1>8, <1>9, <1>11
  <2>2. LegsWeight(w, r) = 0
    BY <2>1, NoWeight
  <2>3. ProjectsOf(t) # {p}
    BY <1>2, <1>11
  <2> QED BY <1>1, <1>6, <2>2, <2>3
<1> QED BY <1>10, <1>11

RevenueValue(p, t) ==
  IF t.type = "CUSTOMER_INVOICE" /\ ProjectsOf(t) = {p} THEN -t.amount ELSE 0

LEMMA RevenueValueIs ==
  ASSUME NEW p, NEW t \in Order, t.type \in PostingRuleTypes,
         t.type # "JOURNAL_ADJUSTMENT", Creatable(t)
  PROVE  LegsValue(ProjectLegs(p, {4101}), t) = RevenueValue(p, t)
<1>1. PICK w \in Tying : /\ w = ProjectLegs(p, {4101})
                         /\ \A x \in Leg : x.code # 4101 => w[x] = 0
  BY ProjectTies
<1>2. \A code \in Int, m \in Int : code # 4101 => w[Dr(code, m)] = 0 /\ w[Cr(code, m)] = 0
  BY <1>1, PlainSides
<1>3. /\ CashIn(t).code = 1101 /\ TransferIn(t).code = 1101 /\ PayableDebit(t).code = 2101
      /\ \A q \in ItsProject : CashOut(t, q).code = 1101
  BY DEF CashIn, CashOut, TransferIn, PayableDebit, Debit, Credit
<1>4. /\ w[CashIn(t)] = 0 /\ w[TransferIn(t)] = 0 /\ w[PayableDebit(t)] = 0
      /\ \A q \in ItsProject : w[CashOut(t, q)] = 0
  BY <1>1, <1>3, TiedLegs
<1>5. /\ OnlyProject(t) \in ItsProject /\ FirstProject(t) \in ItsProject /\ "NONE" \in ItsProject
      /\ t.amount \in Int /\ t.retention \in Int
  BY Projects, NotNamed, OrderFields
<1>6. /\ w[Dr(1201, t.amount)] = 0 /\ w[Cr(1201, t.amount)] = 0 /\ w[Cr(1202, t.amount)] = 0
      /\ w[Cr(2101, t.amount)] = 0
      /\ w[CashOut(t, OnlyProject(t))] = 0 /\ w[CashOut(t, FirstProject(t))] = 0
      /\ w[CashOut(t, "NONE")] = 0
  BY <1>2, <1>4, <1>5
<1>7. CASE t.type \in CostRules
  <2>1. LegsValue(w, t) = 0
    BY <1>6, <1>7, CostRuleValues DEF CostRules
  <2> QED BY <1>1, <1>7, <2>1 DEF RevenueValue, CostRules
<1>8. CASE t.type = "CUSTOMER_INVOICE"
  <2>1. LegsValue(w, t) = LegsWeight(w, CustomerInvoice(t))
    BY <1>8, CustomerRuleValues
  <2>2. w[Dr(1201, t.amount - t.retention)] = 0 /\ w[Dr(1202, t.retention)] = 0
    BY <1>2, <1>5
  <2>3. LegsWeight(w, CustomerInvoice(t)) = 0 + 0 + LegsWeight(w, RevenueLegs(t))
    <3>1. w \in [Leg -> Int]
      BY DEF Tying
    <3> QED BY <2>2, <3>1, InvoiceValue
  <2>4. LegsWeight(w, RevenueLegs(t)) = IF ProjectsOf(t) = {p} THEN -t.amount ELSE 0
    BY <1>1, <1>8, RevenueOfInvoice
  <2> QED BY <1>1, <1>5, <1>8, <2>1, <2>3, <2>4 DEF RevenueValue
<1>9. CASE t.type \in {"RETENTION_RELEASE", "CUSTOMER_PAYMENT"} \cup Receipts
  <2>1. LegsValue(w, t) = 0
    BY <1>4, <1>6, <1>9, CustomerRuleValues DEF Receipts
  <2> QED BY <1>1, <1>9, <2>1 DEF RevenueValue, Receipts
<1>10. CASE t.type \in {"PAY_VENDOR_BILL", "PAY_SUBCONTRACTOR"} \cup Expenditures \cup Transfers
                         \cup {"FIXED_ASSET_DEPRECIATION", "ASSET_PURCHASE"}
  <2>1. LegsValue(w, t) = 0
    BY <1>4, <1>6, <1>10, PaymentRuleValues DEF Expenditures, Transfers
  <2> QED BY <1>1, <1>10, <2>1 DEF RevenueValue, Expenditures, Transfers
<1> QED BY <1>7, <1>8, <1>9, <1>10
        DEF PostingRuleTypes, CostRules, Receipts, Expenditures, Transfers

LEMMA RevenueAgrees ==
  ASSUME RecordsInv, NEW p \in Project, ~Adjusted(p)
  PROVE  RevenueTies(p)
<1> DEFINE I == {t \in OfKind("CUSTOMER_INVOICE") : ProjectsOf(t) = {p}}
           R == {t \in Revived("CUSTOMER_INVOICE") : ProjectsOf(t) = {p}}
<1>1. PICK w \in Weight : /\ w = ProjectLegs(p, {4101})
                          /\ \A x \in Leg : x.project # p => w[x] = 0
  BY ProjectTies
<1>2. PICK v : v = [t \in LiveRuled |-> RevenueValue(p, t)]
  OBVIOUS
<1>3. ProjectRevenue(p) = -ProjectNet(p, {4101})
  <2>1. PICK C : C = {c \in DOMAIN chart : Starts(c, 4101)}
    OBVIOUS
  <2>2. 4101 \in DOMAIN chart
    BY DEF RecordsInv, BooksInv, ChartOK
  <2>3. \A c \in ProjectCodes : c \in C <=> c \in {4101}
    BY <2>1, <2>2, ProjectPrefixes
  <2>4. ProjectNet(p, C) = ProjectNet(p, {4101})
    BY <2>3, ProjectNetAgrees
  <2> QED BY <2>1, <2>4 DEF ProjectRevenue
<1>4. ProjectNet(p, {4101}) = Balance(w, Ruled)
  BY <1>1, BalanceWithoutAdjustments, ProjectNetIs DEF Weight
<1>5. Balance(w, Ruled) = SumFunctionOnSet(v, LiveRuled) /\ \A t \in LiveRuled : v[t] \in Int
  <2>1. \A t \in LiveRuled : v[t] = LegsValue(w, t)
    BY <1>1, <1>2, RuledOrders, RevenueValueIs
  <2> QED BY <2>1, RuledBalance
<1>6. I \in SUBSET LiveRuled /\ I \in SUBSET Order /\ IsFiniteSet(I)
  <2>1. I \in SUBSET LiveRuled
    BY RuledOrders
  <2> QED BY <2>1, RuledOrders, FS_Subset
<1>7. SumFunctionOnSet(v, LiveRuled) = SumFunctionOnSet(v, I)
  <2>1. \A t \in LiveRuled \ I : v[t] = 0
    BY <1>2 DEF RevenueValue, OfKind, LiveRuled
  <2>2. \A t \in I : v[t] \in Int
    BY <1>5, <1>6
  <2> QED BY <1>6, <2>1, <2>2, RuledOrders, SumWithin
<1>8. SumFunctionOnSet(v, I) = -SumFunctionOnSet(AmountFn, I)
  <2>1. \A t \in I : AmountFn[t] \in Int /\ v[t] = -AmountFn[t]
    BY <1>2, <1>6, AmountsAreNumbers DEF RevenueValue, OfKind, AmountFn
  <2> QED BY <1>6, <2>1, SumNegative
<1>9. Amounts(I) = SumFunctionOnSet(AmountFn, I) /\ Amounts(I) \in Int
  BY <1>6, AmountsAreSums
<1>10. Amounts(I) = Amounts(InvoicesOf(p)) + Amounts(R)
  <2>1. PICK A : A = InvoicesOf(p)
    OBVIOUS
  <2>2. PICK B : B = R
    OBVIOUS
  <2>3. I = A \cup B /\ A \cap B = {}
    BY <2>1, <2>2, KindsSplit DEF InvoicesOf
  <2>4. A \in SUBSET Order /\ B \in SUBSET Order /\ IsFiniteSet(A) /\ IsFiniteSet(B)
    BY <1>6, <2>3, FS_Subset
  <2> QED BY <2>1, <2>2, <2>3, <2>4, AmountsOfBoth
<1>11. ProjectRevenue(p) = Amounts(I)
  BY <1>3, <1>4, <1>5, <1>7, <1>8, <1>9
<1> QED BY <1>10, <1>11 DEF RevenueTies, InvoicedAmount

LEMMA ReceivableAgrees ==
  ASSUME RecordsInv, NEW p
  PROVE  FinancialSummary(p).receivable =
           Total(InvoicesOf(p), LAMBDA b : Outstanding(b) + UnreleasedRetention(b) - Overpaid(b))
<1>1. PICK I : I = InvoicesOf(p)
  OBVIOUS
<1>2. PICK paid : paid = [b \in I |-> PaidAmount(b)]
  OBVIOUS
<1>3. PICK open : open = [b \in I |-> Outstanding(b) + UnreleasedRetention(b) - Overpaid(b)]
  OBVIOUS
<1>4. I \in SUBSET billed /\ I \in SUBSET Order /\ IsFiniteSet(I)
  <2>1. I \in SUBSET BilledOf("CUSTOMER_INVOICE")
    BY <1>1 DEF InvoicesOf
  <2> QED BY <2>1, BilledAreLive, BilledPart, FS_Subset
<1>5. ASSUME NEW b \in I
      PROVE  AmountFn[b] \in Int /\ paid[b] \in Int /\ open[b] = AmountFn[b] - paid[b]
  <2>1. b \in billed /\ AmountFn[b] = b.amount /\ paid[b] = PaidAmount(b)
    BY <1>2, <1>4 DEF AmountFn
  <2>2. open[b] = Outstanding(b) + UnreleasedRetention(b) - Overpaid(b)
    BY <1>3
  <2>3. /\ Outstanding(b) \in Int /\ Overpaid(b) \in Int
        /\ Outstanding(b) - Overpaid(b) = b.amount - b.retention + Released(b) - PaidAmount(b)
        /\ UnreleasedRetention(b) = b.retention - Released(b)
        /\ b.amount \in Int /\ b.retention \in Int /\ PaidAmount(b) \in Int /\ Released(b) \in Int
    BY <2>1, BillAlgebra
  <2> QED BY <2>1, <2>2, <2>3
<1>6. SumFunctionOnSet(open, I) = SumFunctionOnSet(AmountFn, I) - SumFunctionOnSet(paid, I)
  BY <1>4, <1>5, SumMinus
<1>7. Amounts(I) = SumFunctionOnSet(AmountFn, I)
  BY <1>4, AmountsAreSums
<1>8. InvoicedAmount(p) = Amounts(I) /\ CashReceived(p) = SumFunctionOnSet(paid, I)
  BY <1>1, <1>2 DEF InvoicedAmount, CashReceived, Total
<1>9. Total(I, LAMBDA b : Outstanding(b) + UnreleasedRetention(b) - Overpaid(b))
        = SumFunctionOnSet(open, I)
  BY <1>3 DEF Total
<1> QED BY <1>1, <1>6, <1>7, <1>8, <1>9 DEF FinancialSummary

\* Cash that leaves or comes back in the name of the project.
SpentLegs(p) == [x \in Leg |-> IF x.project = p /\ Starts(x.code, 110) THEN x.cr ELSE 0]
ReturnedLegs(p) == [x \in Leg |-> IF x.project = p /\ x.code \in Cash THEN x.dr ELSE 0]
Returned(p) == Sum(journal, LAMBDA x : IF x.project = p /\ x.code \in Cash THEN x.dr ELSE 0)

LEMMA SpentWeights ==
  ASSUME NEW p
  PROVE  SpentLegs(p) \in [Leg -> Int] /\ ReturnedLegs(p) \in [Leg -> Int]
  BY LegFields DEF SpentLegs, ReturnedLegs

LEMMA SpentIs ==
  ASSUME RecordsInv, NEW p
  PROVE  CashSpent(p) = Balance(SpentLegs(p), journal)
<1>1. ASSUME NEW e \in journal
      PROVE  SumFunctionOnSet([i \in DOMAIN e.legs |->
                                 IF e.legs[i].project = p /\ Starts(e.legs[i].code, 110)
                                   THEN e.legs[i].cr ELSE 0],
                              DOMAIN e.legs)
               = LegsWeight(SpentLegs(p), e.legs)
  <2>1. \A i \in DOMAIN e.legs :
          SpentLegs(p)[e.legs[i]] =
            IF e.legs[i].project = p /\ Starts(e.legs[i].code, 110) THEN e.legs[i].cr ELSE 0
    BY JournalOK DEF SpentLegs
  <2>2. [i \in DOMAIN e.legs |-> IF e.legs[i].project = p /\ Starts(e.legs[i].code, 110)
                                   THEN e.legs[i].cr ELSE 0]
         = [i \in DOMAIN e.legs |-> SpentLegs(p)[e.legs[i]]]
    BY <2>1
  <2> QED BY <2>2 DEF LegsWeight
<1>2. [e \in journal |->
         SumFunctionOnSet([i \in DOMAIN e.legs |->
                             IF e.legs[i].project = p /\ Starts(e.legs[i].code, 110)
                               THEN e.legs[i].cr ELSE 0],
                          DOMAIN e.legs)]
       = [e \in journal |-> LegsWeight(SpentLegs(p), e.legs)]
  BY <1>1
<1> QED BY <1>2 DEF CashSpent, Sum, SumLegs, Balance

LEMMA ReturnedIs ==
  ASSUME RecordsInv, NEW p
  PROVE  Returned(p) = Balance(ReturnedLegs(p), journal)
<1>1. ASSUME NEW e \in journal
      PROVE  SumFunctionOnSet([i \in DOMAIN e.legs |->
                                 IF e.legs[i].project = p /\ e.legs[i].code \in Cash
                                   THEN e.legs[i].dr ELSE 0],
                              DOMAIN e.legs)
               = LegsWeight(ReturnedLegs(p), e.legs)
  <2>1. \A i \in DOMAIN e.legs :
          ReturnedLegs(p)[e.legs[i]] =
            IF e.legs[i].project = p /\ e.legs[i].code \in Cash THEN e.legs[i].dr ELSE 0
    BY JournalOK DEF ReturnedLegs
  <2>2. [i \in DOMAIN e.legs |-> IF e.legs[i].project = p /\ e.legs[i].code \in Cash
                                   THEN e.legs[i].dr ELSE 0]
         = [i \in DOMAIN e.legs |-> ReturnedLegs(p)[e.legs[i]]]
    BY <2>1
  <2> QED BY <2>2 DEF LegsWeight
<1>2. [e \in journal |->
         SumFunctionOnSet([i \in DOMAIN e.legs |->
                             IF e.legs[i].project = p /\ e.legs[i].code \in Cash
                               THEN e.legs[i].dr ELSE 0],
                          DOMAIN e.legs)]
       = [e \in journal |-> LegsWeight(ReturnedLegs(p), e.legs)]
  BY <1>1
<1> QED BY <1>2 DEF Returned, Sum, SumLegs, Balance

\* Cash less what came back.
OutLegs(p) == [x \in Leg |-> IF x.project = p /\ x.code = 1101 THEN x.cr - x.dr ELSE 0]

LEMMA OutWeight ==
  ASSUME NEW p
  PROVE  /\ OutLegs(p) \in Weight /\ OutLegs(p) \in Tying
         /\ \A x \in Leg : /\ x.project # p => OutLegs(p)[x] = 0
                           /\ x.code # 1101 => OutLegs(p)[x] = 0
                           /\ x.project = p /\ x.code = 1101 => OutLegs(p)[x] = x.cr - x.dr
<1>1. PICK w : w = OutLegs(p)
  OBVIOUS
<1>2. \A x \in Leg : /\ w[x] = IF x.project = p /\ x.code = 1101 THEN x.cr - x.dr ELSE 0
                     /\ w[x] \in Int
  BY <1>1, LegFields DEF OutLegs
<1>3. w \in [Leg -> Int]
  BY <1>1, <1>2 DEF OutLegs
<1>4. ASSUME NEW x \in Leg PROVE w[Inverted(x)] = -w[x]
  <2>1. PICK y \in Leg : /\ y = Inverted(x) /\ y.dr = x.cr /\ y.cr = x.dr /\ y.code = x.code
                         /\ y.project = x.project
    BY InvertedLeg
  <2>2. /\ w[y] = IF x.project = p /\ x.code = 1101 THEN x.dr - x.cr ELSE 0
        /\ w[x] = IF x.project = p /\ x.code = 1101 THEN x.cr - x.dr ELSE 0
    BY <1>2, <2>1
  <2>3. x.dr \in Int /\ x.cr \in Int
    BY LegFields
  <2> QED BY <2>1, <2>2, <2>3
<1>5. \A x \in Leg : x.code \notin TiedCodes => x.code # 1101
  BY DEF TiedCodes
<1> QED BY <1>1, <1>2, <1>3, <1>4, <1>5 DEF Weight, Tying

PaidValue(p, t) == IF PaidFor(t) = p THEN t.amount ELSE 0

LEMMA PaidValueIs ==
  ASSUME NEW p \in Project, NEW t \in Order, t.type \in PostingRuleTypes,
         t.type # "JOURNAL_ADJUSTMENT", Creatable(t)
  PROVE  LegsValue(OutLegs(p), t) = PaidValue(p, t)
<1>1. PICK w \in Tying : /\ w = OutLegs(p)
                         /\ \A x \in Leg : /\ x.project # p => w[x] = 0
                                           /\ x.code # 1101 => w[x] = 0
                                           /\ x.project = p /\ x.code = 1101 => w[x] = x.cr - x.dr
  BY OutWeight
<1>2. \A code \in Int, m \in Int : code # 1101 => w[Dr(code, m)] = 0 /\ w[Cr(code, m)] = 0
  BY <1>1, PlainSides
<1>3. p # "NONE"
  BY BooksAssumption
<1>4. /\ OnlyProject(t) \in ItsProject /\ FirstProject(t) \in ItsProject /\ "NONE" \in ItsProject
      /\ t.amount \in Int /\ t.retention \in Int
  BY Projects, NotNamed, OrderFields
<1>5. w[CashIn(t)] = 0 /\ w[TransferIn(t)] = 0 /\ w[PayableDebit(t)] = 0
  <2>1. /\ CashIn(t).project = "NONE" /\ TransferIn(t).project = "NONE"
        /\ PayableDebit(t).code = 2101
    BY DEF CashIn, TransferIn, PayableDebit, Debit
  <2> QED BY <1>1, <1>3, <2>1, TiedLegs
<1>6. \A q \in ItsProject : w[CashOut(t, q)] = IF q = p THEN t.amount ELSE 0
  <2> SUFFICES ASSUME NEW q \in ItsProject PROVE w[CashOut(t, q)] = IF q = p THEN t.amount ELSE 0
    OBVIOUS
  <2>1. PICK x \in Leg : x = CashOut(t, q)
    BY TiedLegs
  <2>2. x.project = q /\ x.code = 1101 /\ x.dr = 0 /\ x.cr = t.amount
    BY <2>1 DEF CashOut, Credit
  <2>3. w[x] = IF q = p THEN t.amount ELSE 0
    BY <1>1, <1>4, <2>2
  <2> QED BY <2>1, <2>3
<1>7. /\ w[Dr(1201, t.amount)] = 0 /\ w[Cr(1201, t.amount)] = 0 /\ w[Cr(1202, t.amount)] = 0
      /\ w[Cr(2101, t.amount)] = 0
      /\ w[CashOut(t, OnlyProject(t))] = (IF OnlyProject(t) = p THEN t.amount ELSE 0)
      /\ w[CashOut(t, FirstProject(t))] = (IF FirstProject(t) = p THEN t.amount ELSE 0)
      /\ w[CashOut(t, "NONE")] = 0
  BY <1>2, <1>3, <1>4, <1>6
<1>8. CASE t.type \in CostRules
  <2>1. LegsValue(w, t) = IF t.type = "DIRECT_PURCHASE" /\ OnlyProject(t) = p THEN t.amount ELSE 0
    BY <1>7, <1>8, CostRuleValues DEF CostRules
  <2> QED BY <1>1, <1>3, <1>8, <2>1 DEF PaidValue, PaidFor, CostRules
<1>9. CASE t.type = "CUSTOMER_INVOICE"
  <2>1. LegsValue(w, t) = LegsWeight(w, CustomerInvoice(t))
    BY <1>9, CustomerRuleValues
  <2>2. w[Dr(1201, t.amount - t.retention)] = 0 /\ w[Dr(1202, t.retention)] = 0
    BY <1>2, <1>4
  <2>3. w \in [Leg -> Int]
    BY DEF Tying
  <2>4. LegsWeight(w, CustomerInvoice(t)) = 0 + 0 + LegsWeight(w, RevenueLegs(t))
    BY <2>2, <2>3, InvoiceValue
  <2>5. LegsWeight(w, RevenueLegs(t)) = 0
    <3>1. PICK s \in Seq(Leg) : s = RevenueLegs(t) /\ \A i \in DOMAIN s : s[i].code = 4101
      BY RevenueLegsAre
    <3>2. \A i \in DOMAIN s : w[s[i]] = 0
      BY <1>1, <3>1, LegsAre
    <3> QED BY <2>3, <3>1, <3>2, NoWeight
  <2> QED BY <1>1, <1>3, <1>9, <2>1, <2>4, <2>5 DEF PaidValue, PaidFor
<1>10. CASE t.type \in {"RETENTION_RELEASE", "CUSTOMER_PAYMENT"} \cup Receipts
  <2>1. LegsValue(w, t) = 0
    BY <1>5, <1>7, <1>10, CustomerRuleValues DEF Receipts
  <2> QED BY <1>1, <1>3, <1>10, <2>1 DEF PaidValue, PaidFor, Receipts
<1>11. CASE t.type \in {"PAY_VENDOR_BILL", "PAY_SUBCONTRACTOR"}
  <2>1. LegsValue(w, t) = IF FirstProject(t) = p THEN t.amount ELSE 0
    BY <1>4, <1>5, <1>7, <1>11, PaymentRuleValues
  <2> QED BY <1>1, <1>11, <2>1 DEF PaidValue, PaidFor
<1>12. CASE t.type \in Expenditures \cup Transfers \cup {"FIXED_ASSET_DEPRECIATION", "ASSET_PURCHASE"}
  <2>1. LegsValue(w, t) = 0
    BY <1>5, <1>7, <1>12, PaymentRuleValues DEF Expenditures, Transfers
  <2> QED BY <1>1, <1>3, <1>12, <2>1 DEF PaidValue, PaidFor, Expenditures, Transfers
<1> QED BY <1>8, <1>9, <1>10, <1>11, <1>12
        DEF PostingRuleTypes, CostRules, Receipts, Expenditures, Transfers

LEMMA SpentAgrees ==
  ASSUME RecordsInv, NEW p \in Project, ~Adjusted(p)
  PROVE  CashSpent(p) = Returned(p) + Amounts({t \in Order : InForce(t) /\ PaidFor(t) = p})
<1>1. PICK w \in Weight : /\ w = OutLegs(p)
                          /\ \A x \in Leg : /\ x.project # p => w[x] = 0
                                            /\ x.code # 1101 => w[x] = 0
                                            /\ x.project = p /\ x.code = 1101 => w[x] = x.cr - x.dr
  BY OutWeight
<1>2. PICK u \in [Leg -> Int] : u = SpentLegs(p)
  BY SpentWeights
<1>3. PICK r \in [Leg -> Int] : r = ReturnedLegs(p)
  BY SpentWeights
<1>4. \A e \in journal : \A i \in DOMAIN e.legs : u[e.legs[i]] = r[e.legs[i]] + w[e.legs[i]]
  <2> SUFFICES ASSUME NEW e \in journal, NEW i \in DOMAIN e.legs
               PROVE  u[e.legs[i]] = r[e.legs[i]] + w[e.legs[i]]
    OBVIOUS
  <2>1. PICK x \in Leg : x = e.legs[i]
    BY JournalOK
  <2>2. /\ u[x] = IF x.project = p /\ Starts(x.code, 110) THEN x.cr ELSE 0
        /\ r[x] = IF x.project = p /\ x.code \in Cash THEN x.dr ELSE 0
    BY <1>2, <1>3 DEF SpentLegs, ReturnedLegs
  <2>3. x.project = p => /\ Starts(x.code, 110) <=> x.code = 1101
                         /\ x.code \in Cash <=> x.code = 1101
    <3>1. x.project = p => x.code \in ProjectCodes
      BY <2>1, NamedCodes
    <3>2. 1101 \in DOMAIN chart
      BY DEF RecordsInv, BooksInv, ChartOK
    <3> QED BY <3>1, <3>2, ProjectPrefixes DEF Cash
  <2>4. CASE x.project = p /\ x.code = 1101
    BY <1>1, <2>1, <2>2, <2>3, <2>4, LegFields
  <2>5. CASE x.project # p \/ x.code # 1101
    BY <1>1, <2>1, <2>2, <2>3, <2>5
  <2> QED BY <2>4, <2>5
<1>5. w \in [Leg -> Int] /\ EntriesOK(journal)
  BY JournalOK DEF Weight
<1>6. Balance(u, journal) = Balance(r, journal) + Balance(w, journal)
  BY <1>4, <1>5, AddedBalance
<1>7. Balance(w, journal) = Balance(w, Ruled)
  BY <1>1, <1>5, BalanceWithoutAdjustments
<1>8. PICK v : v = [t \in LiveRuled |-> PaidValue(p, t)]
  OBVIOUS
<1>9. Balance(w, Ruled) = SumFunctionOnSet(v, LiveRuled) /\ \A t \in LiveRuled : v[t] \in Int
  <2>1. \A t \in LiveRuled : v[t] = LegsValue(w, t)
    BY <1>1, <1>8, RuledOrders, PaidValueIs
  <2> QED BY <2>1, RuledBalance
<1>10. PICK T : T = {t \in Order : InForce(t) /\ PaidFor(t) = p}
  OBVIOUS
<1>11. T \in SUBSET LiveRuled
  <2>1. p # "NONE"
    BY BooksAssumption
  <2>2. \A t \in T : t.type # "JOURNAL_ADJUSTMENT"
    BY <1>10, <2>1 DEF PaidFor
  <2> QED BY <1>10, <2>2 DEF LiveRuled, Live
<1>12. T \in SUBSET Order /\ IsFiniteSet(T)
  BY <1>10, <1>11, RuledOrders, FS_Subset
<1>13. SumFunctionOnSet(v, LiveRuled) = SumFunctionOnSet(v, T)
  <2>1. \A t \in LiveRuled \ T : v[t] = 0
    BY <1>8, <1>10 DEF PaidValue, LiveRuled, Live
  <2>2. \A t \in T : v[t] \in Int
    BY <1>9, <1>11
  <2> QED BY <1>11, <2>1, <2>2, RuledOrders, SumWithin
<1>14. SumFunctionOnSet(v, T) = SumFunctionOnSet(AmountFn, T)
  <2>1. \A t \in T : v[t] = AmountFn[t]
    BY <1>8, <1>10, <1>11 DEF PaidValue, AmountFn
  <2> QED BY <1>12, <2>1, SumSame
<1>15. Amounts(T) = SumFunctionOnSet(AmountFn, T)
  BY <1>12, AmountsAreSums
<1> QED BY <1>2, <1>3, <1>6, <1>7, <1>9, <1>10, <1>13, <1>14, <1>15, SpentIs, ReturnedIs

LEMMA MoneyAgrees ==
  ASSUME RecordsInv, NEW p \in Project, ~Adjusted(p)
  PROVE  MoneyTies(p)
  BY ReceivableAgrees, SpentAgrees DEF MoneyTies, Returned

LEMMA NoSecondaryData ==
  ASSUME RecordsInv, NEW p \in Project, ~Adjusted(p)
  PROVE  ~HasSecondaryData(p)
<1>1. ProjectNet(p, {6102, 6106}) = 0
  <2>1. \A c \in ProjectCodes : c \notin {6102, 6106}
    BY DEF ProjectCodes
  <2> QED BY <2>1, NoProjectNet
<1>2. ProjectNet(p, {c \in DOMAIN chart : Starts(c, 710)}) = 0
  <2>1. \A c \in ProjectCodes : c \notin {x \in DOMAIN chart : Starts(x, 710)}
    BY ProjectPrefixes
  <2> QED BY <2>1, NoProjectNet
<1>3. ProjectNet(p, {c \in DOMAIN chart : Starts(c, 810)}) = 0
  <2>1. \A c \in ProjectCodes : c \notin {x \in DOMAIN chart : Starts(x, 810)}
    BY ProjectPrefixes
  <2> QED BY <2>1, NoProjectNet
<1> QED BY <1>1, <1>2, <1>3 DEF HasSecondaryData

\* The accounts that the dashboard takes for a project's costs.
DirectCodes == WithPrefix(OfType({"EXPENSE"}), {5})

LEMMA LedgerCost ==
  ASSUME RecordsInv, NEW p \in Project, ~Adjusted(p)
  PROVE  ProjectCost(p) = ProjectNet(p, DirectCodes)
<1>1. PICK C : C = {c \in DOMAIN chart : Starts(c, 5101)}
  OBVIOUS
<1>2. PICK D : D = DirectCodes
  OBVIOUS
<1>3. 5101 \in DOMAIN chart /\ chart[5101].type = "EXPENSE"
  BY DEF RecordsInv, BooksInv, ChartOK
<1>4. \A c \in ProjectCodes : c \in C <=> c = 5101
  BY <1>1, <1>3, ProjectPrefixes
<1>5. \A c \in ProjectCodes : c \in D <=> c = 5101
  <2>1. \A c : c \in D <=> c \in DOMAIN chart /\ chart[c].type = "EXPENSE" /\ Starts(c, 5)
    BY <1>2 DEF DirectCodes, WithPrefix, OfType
  <2> QED BY <1>3, <2>1, ProjectPrefixes
<1>6. \A c \in ProjectCodes : c \in C <=> c \in D
  BY <1>4, <1>5
<1>7. ProjectNet(p, C) = ProjectNet(p, D)
  BY <1>6, ProjectNetAgrees
<1> QED BY <1>1, <1>2, <1>7 DEF ProjectCost

LEMMA CostsAgree ==
  ASSUME RecordsInv, NEW p \in Project, ~Adjusted(p)
  PROVE  CostsTie(p)
  BY LedgerCost DEF CostsTie, ProjectPerformance, DirectCodes

\* So they do for the reports on a project.
LEMMA ProjectsTieAlways == RecordsInv => ProjectsTie
  BY RevenueAgrees, CostsAgree, MoneyAgrees, NoSecondaryData DEF ProjectsTie

\* Whatever is posted, paid, released and reversed, the control accounts of the ledger differ
\* from the open invoices and bills by exactly the orders that SubledgersTie names, and the
\* payment accounts from the ledger's cash by the legs that name none.
THEOREM SubledgersAgree == BooksSpec => []SubledgersTie
  BY RecordsStayTrue, SubledgersTieAlways, PTL

\* Whatever is posted and reversed, unless an adjustment names the project: its revenue is what
\* was invoiced and not cancelled, the dashboard's costs are the cost report's, and what it is
\* owed and has spent is what its invoices and payments say (ProjectsTie of Books).
THEOREM ProjectsAgree == BooksSpec => []ProjectsTie
  BY RecordsStayTrue, ProjectsTieAlways, PTL
=============================================================================
