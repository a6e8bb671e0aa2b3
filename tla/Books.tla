-------------------------------- MODULE Books --------------------------------
(***************************************************************************)
(* What is posted to the books of one organization and what its reports    *)
(* make of it: the posting rules, the chart of accounts, the journal with  *)
(* the invoices, bills and allocations kept beside it, and the statements  *)
(* that are computed from them.  A handler is one step here; how handlers  *)
(* of different sessions interleave is the matter of the module Ledger.    *)
(*                                                                         *)
(* An account code is a number, and a prefix of it is tested with Starts.  *)
(* An order is a transaction with its allocations; it is posted at most    *)
(* once, with legs that only depend on it.                                 *)
(* A definition headed "Mutation" is no part of the specification.         *)
(***************************************************************************)
EXTENDS Integers, Sequences, FiniteSets, FiniteSetsExt, Functions

CONSTANTS
  Order,        \* what users and imports may ask to post
  Day,          \* posting dates, numbers from 1
  YearStart,    \* 1 January of the year of each day
  Project,
  PaymentAccount,
  NewAccounts,  \* accounts that may be added to the chart
  Retired,      \* codes that may be deactivated and activated again
  MaxEntries    \* bound on the journal entries

CostCategory == {"MAT", "SUB", "LAB", "TRN", "TRV", "LOG", "EQP", "SIT", "OTH"}

\* Allocations and orders as transaction.py declares them, accounts as coa.py does.
Allocation ==
  [amount : Nat, project : Project \cup {"NONE"}, cost : CostCategory \cup {"NONE"},
   category : STRING, side : STRING, code : Int]
OrderRow ==
  [type : STRING, amount : Nat, day : Day, allocations : Seq(Allocation), retention : Nat,
   from : PaymentAccount \cup {"NONE"}, to : PaymentAccount \cup {"NONE"}, opening : BOOLEAN]
AccountTypes == {"ASSET", "LIABILITY", "EQUITY", "REVENUE", "EXPENSE"}
AccountRow ==
  [type : AccountTypes, normal : {"DEBIT", "CREDIT"}, section : STRING, taxed : BOOLEAN,
   active : BOOLEAN]

ASSUME BooksAssumption ==
  /\ Day \subseteq Int
  /\ \A d \in Day : YearStart[d] \in Int /\ YearStart[d] <= d
  /\ "NONE" \notin Project /\ "NONE" \notin PaymentAccount /\ IsFiniteSet(PaymentAccount)
  /\ Order \subseteq OrderRow
  /\ \A c \in DOMAIN NewAccounts : NewAccounts[c] \in AccountRow

VARIABLES
  chart,    \* chart_of_accounts: the accounts by their code
  journal,  \* journal_entries with their lines
  billed,   \* orders whose customer_invoice or vendor_bill is not CANCELLED
  applied   \* <<payment or retention release, bill>> pairs

booksVars == <<chart, journal, billed, applied>>

-----------------------------------------------------------------------------
(* The chart of accounts                                                   *)

Starts(code, prefix) == \E k \in {1, 10, 100, 1000} : code \div k = prefix

\* taxed: the name of the account contains the word for tax.
Account(type, normal, section) ==
  [type |-> type, normal |-> normal, section |-> section, taxed |-> FALSE, active |-> TRUE]

StandardAssets ==
  [c \in {1101, 1201, 1202, 1301, 1401, 1501, 1502} |->
     Account("ASSET", IF c = 1502 THEN "CREDIT" ELSE "DEBIT",
             IF c \in {1501, 1502} THEN "FIXED_ASSET" ELSE "CURRENT_ASSET")]

StandardFunds ==
  [c \in {2101, 2201, 2301, 2401, 2501, 3101, 3201, 3301, 4101, 4201} |->
     CASE c \in {2101, 2201, 2301, 2401} -> Account("LIABILITY", "CREDIT", "CURRENT_LIABILITY")
       [] c = 2501 -> Account("LIABILITY", "CREDIT", "LONG_TERM_LIABILITY")
       [] c \in {3101, 3201} -> Account("EQUITY", "CREDIT", "EQUITY")
       [] c = 3301 -> Account("EQUITY", "DEBIT", "EQUITY")
       [] c = 4101 -> Account("REVENUE", "CREDIT", "OPERATING_REVENUE")
       [] c = 4201 -> Account("REVENUE", "CREDIT", "OTHER_INCOME")]

StandardCosts ==
  [c \in {5101, 6101, 6102, 6103, 6104, 6105, 6106, 6107, 6108, 6199, 7101, 8101} |->
     CASE c = 5101 -> Account("EXPENSE", "DEBIT", "COGS")
       [] c = 6106 -> [Account("EXPENSE", "DEBIT", "OPERATING_EXPENSE") EXCEPT !.taxed = TRUE]
       [] c = 7101 -> Account("EXPENSE", "DEBIT", "OTHER_EXPENSE")
       [] c = 8101 -> [Account("EXPENSE", "DEBIT", "INCOME_TAX") EXCEPT !.taxed = TRUE]
       [] OTHER -> Account("EXPENSE", "DEBIT", "OPERATING_EXPENSE")]

StandardChart ==
  [c \in DOMAIN StandardAssets \cup DOMAIN StandardFunds \cup DOMAIN StandardCosts |->
     CASE c \in DOMAIN StandardAssets -> StandardAssets[c]
       [] c \in DOMAIN StandardFunds -> StandardFunds[c]
       [] c \in DOMAIN StandardCosts -> StandardCosts[c]]

OfType(types) == {c \in DOMAIN chart : chart[c].type \in types}
ActiveAccounts == {c \in DOMAIN chart : chart[c].active}
Cash == {c \in DOMAIN chart : Starts(c, 1101)}

-----------------------------------------------------------------------------
(* Posting rules                                                           *)

PostingRuleTypes ==
  {"DIRECT_PURCHASE", "VENDOR_BILL", "SUBCONTRACTOR_BILL", "PAY_VENDOR_BILL",
   "PAY_SUBCONTRACTOR", "VENDOR_ADVANCE", "SETTLE_VENDOR_ADVANCE", "CUSTOMER_INVOICE",
   "RETENTION_RELEASE", "CUSTOMER_PAYMENT", "CUSTOMER_ADVANCE", "BANK_TO_CASH",
   "CASH_TO_BANK", "INTERBANK_TRANSFER", "JOURNAL_ADJUSTMENT", "OWNER_CONTRIBUTION",
   "OWNER_WITHDRAWAL", "BANK_CHARGE", "FIXED_ASSET_DEPRECIATION", "ASSET_PURCHASE"}

ExpenseAccounts ==
  [SALARY |-> 6101, FEE |-> 6102, OFFICE_ADMIN |-> 6103, TRAVEL_OFFICE |-> 6104,
   PERMITS |-> 6105, PROFESSIONAL_SERVICE |-> 6106, BANK_CHARGES |-> 6107,
   DEPRECIATION |-> 6108, OTHER_OPERATIONAL |-> 6199]

ExpenseAccount(category) ==
  IF category \in DOMAIN ExpenseAccounts THEN ExpenseAccounts[category] ELSE 6199

\* A line of the journal: an amount on one side of an account and what it is about.
Debit(code, m, project, cost, account) ==
  [code |-> code, dr |-> m, cr |-> 0, project |-> project, cost |-> cost, account |-> account]
Credit(code, m, project, cost, account) ==
  [code |-> code, dr |-> 0, cr |-> m, project |-> project, cost |-> cost, account |-> account]
Dr(code, m) == Debit(code, m, "NONE", "NONE", "NONE")
Cr(code, m) == Credit(code, m, "NONE", "NONE", "NONE")
CashIn(t) == Debit(1101, t.amount, "NONE", "NONE", t.from)
CashOut(t, project) == Credit(1101, t.amount, project, "NONE", t.from)

Lines(s, F(_)) == [i \in DOMAIN s |-> F(s[i])]

CostLeg(a) ==
  Debit(IF a.project # "NONE" THEN 5101 ELSE ExpenseAccount(a.category),
        a.amount, a.project, a.cost, "NONE")
CostLegs(t) ==
  IF t.allocations = <<>> THEN <<Dr(5101, t.amount)>> ELSE Lines(t.allocations, CostLeg)

OnlyProject(t) ==
  IF Len(t.allocations) = 1 THEN t.allocations[1].project ELSE "NONE"
FirstProject(t) ==
  IF t.allocations # <<>> THEN t.allocations[1].project ELSE "NONE"

DirectPurchase(t) == CostLegs(t) \o <<CashOut(t, OnlyProject(t))>>
VendorBill(t) == CostLegs(t) \o <<Cr(2101, t.amount)>>
PayVendorBill(t) ==
  <<Debit(2101, t.amount, FirstProject(t), "NONE", "NONE"), CashOut(t, FirstProject(t))>>
VendorAdvance(t) == <<Dr(1301, t.amount), CashOut(t, "NONE")>>
SettleVendorAdvance(t) == CostLegs(t) \o <<Cr(1301, t.amount)>>

CustomerInvoice(t) ==
  LET Revenue(a) == Credit(4101, a.amount, a.project, "NONE", "NONE")
      Receivable(code, m) == IF m > 0 THEN <<Dr(code, m)>> ELSE <<>>
  IN  Receivable(1201, t.amount - t.retention)
        \o Receivable(1202, t.retention)
        \o IF t.allocations = <<>> THEN <<Cr(4101, t.amount)>>
           ELSE Lines(t.allocations, Revenue)

RetentionRelease(t) == <<Dr(1201, t.amount), Cr(1202, t.amount)>>
CustomerPayment(t) == <<CashIn(t), Cr(1201, t.amount)>>
CustomerAdvance(t) == <<CashIn(t), Cr(2201, t.amount)>>
InterbankTransfer(t) ==
  <<Debit(1101, t.amount, "NONE", "NONE", t.to), CashOut(t, "NONE")>>

\* The notes of an allocation carry the side and the account.
JournalAdjustment(t) ==
  LET Leg(a) == IF a.side = "CR" THEN Credit(a.code, a.amount, a.project, a.cost, "NONE")
                ELSE Debit(a.code, a.amount, a.project, a.cost, "NONE")
  IN  Lines(t.allocations, Leg)

OwnerContribution(t) == <<CashIn(t), Cr(3101, t.amount)>>
OwnerWithdrawal(t) == <<Dr(3301, t.amount), CashOut(t, "NONE")>>
BankCharge(t) == <<Dr(6107, t.amount), CashOut(t, "NONE")>>
Depreciation(t) == <<Dr(6108, t.amount), Cr(1502, t.amount)>>
AssetPurchase(t) ==
  <<Dr(1501, t.amount),
    IF t.from # "NONE" THEN CashOut(t, "NONE") ELSE Cr(2101, t.amount)>>

\* _RULE_TYPE_BY_TRANSACTION_TYPE and generate_journal_legs
JournalLegs(t) ==
  CASE t.type = "DIRECT_PURCHASE" -> DirectPurchase(t)
    [] t.type \in {"VENDOR_BILL", "SUBCONTRACTOR_BILL"} -> VendorBill(t)
    [] t.type \in {"PAY_VENDOR_BILL", "PAY_SUBCONTRACTOR"} -> PayVendorBill(t)
    [] t.type = "VENDOR_ADVANCE" -> VendorAdvance(t)
    [] t.type = "SETTLE_VENDOR_ADVANCE" -> SettleVendorAdvance(t)
    [] t.type = "CUSTOMER_INVOICE" -> CustomerInvoice(t)
    [] t.type = "RETENTION_RELEASE" -> RetentionRelease(t)
    [] t.type = "CUSTOMER_PAYMENT" -> CustomerPayment(t)
    [] t.type = "CUSTOMER_ADVANCE" -> CustomerAdvance(t)
    [] t.type \in {"BANK_TO_CASH", "CASH_TO_BANK", "INTERBANK_TRANSFER"} -> InterbankTransfer(t)
    [] t.type = "JOURNAL_ADJUSTMENT" -> JournalAdjustment(t)
    [] t.type = "OWNER_CONTRIBUTION" -> OwnerContribution(t)
    [] t.type = "OWNER_WITHDRAWAL" -> OwnerWithdrawal(t)
    [] t.type = "BANK_CHARGE" -> BankCharge(t)
    [] t.type = "FIXED_ASSET_DEPRECIATION" -> Depreciation(t)
    [] t.type = "ASSET_PURCHASE" -> AssetPurchase(t)

-----------------------------------------------------------------------------
(* Sums over the journal                                                   *)

Total(S, F(_)) == SumFunctionOnSet([x \in S |-> F(x)], S)
SumLegs(legs, W(_)) == SumFunctionOnSet([i \in DOMAIN legs |-> W(legs[i])], DOMAIN legs)
Sum(entries, W(_)) == SumFunctionOnSet([e \in entries |-> SumLegs(e.legs, W)], entries)

DebitOf(x) == x.dr
CreditOf(x) == x.cr
Balanced(legs) == SumLegs(legs, DebitOf) = SumLegs(legs, CreditOf)

Between(from, to) == {e \in journal : from <= e.day /\ e.day <= to}
UpTo(d) == {e \in journal : e.day <= d}

\* Debits less credits of the accounts C.
Net(C, entries) == Sum(entries, LAMBDA x : IF x.code \in C THEN x.dr - x.cr ELSE 0)

Posting(t) == {e \in journal : e.of = t}
Posted(t) == Posting(t) # {}
\* Neither reversed nor a reversal that was itself reversed.
InForce(t) == Cardinality(Posting(t)) % 2 = 1
Amounts(orders) == Total(orders, LAMBDA t : t.amount)

-----------------------------------------------------------------------------
(* Invoices and bills                                                      *)

BillOf(k) ==
  CASE k \in {"CUSTOMER_PAYMENT", "RETENTION_RELEASE"} -> "CUSTOMER_INVOICE"
    [] k = "PAY_VENDOR_BILL" -> "VENDOR_BILL"
    [] OTHER -> "NONE"

AppliedTo(b, kinds) == {x \in applied : x[2] = b /\ x[1].type \in kinds}
PaidAmount(b) ==
  Total(AppliedTo(b, {"CUSTOMER_PAYMENT", "PAY_VENDOR_BILL"}), LAMBDA x : x[1].amount)
Released(b) == Total(AppliedTo(b, {"RETENTION_RELEASE"}), LAMBDA x : x[1].amount)
CollectibleAmount(b) == b.amount - b.retention + Released(b)
Outstanding(b) == Max({0, CollectibleAmount(b) - PaidAmount(b)})
UnreleasedRetention(b) == Max({0, b.retention - Released(b)})

-----------------------------------------------------------------------------
(* Posting                                                                 *)

AllocatedAmount(t) == SumLegs(t.allocations, LAMBDA a : a.amount)
ProjectsOf(t) == {t.allocations[i].project : i \in DOMAIN t.allocations}

\* What create_transaction accepts.
Creatable(t) ==
  /\ t.type \in PostingRuleTypes
  /\ t.allocations # <<>> => AllocatedAmount(t) = t.amount
  /\ t.type = "CUSTOMER_INVOICE" => \E p \in Project : ProjectsOf(t) = {p}
  /\ t.type = "INTERBANK_TRANSFER" => "NONE" \notin {t.from, t.to} /\ t.from # t.to
  /\ t.retention <= t.amount

\* What post_opening_balances accepts: it does not go through create_transaction.
Establishable(t) ==
  /\ t.type = "JOURNAL_ADJUSTMENT"
  /\ Balanced(JournalLegs(t))
  /\ t.amount = SumLegs(JournalLegs(t), DebitOf)

Entry(t, nth, d, legs) == [of |-> t, nth |-> nth, day |-> d, legs |-> legs]

PostTransaction(t) ==
  LET legs == JournalLegs(t)
  IN  /\ Cardinality(journal) < MaxEntries
      /\ ~Posted(t)
      /\ IF t.opening THEN Establishable(t) ELSE Creatable(t)
      /\ t.type = "JOURNAL_ADJUSTMENT" => t.allocations # <<>>
      /\ Balanced(legs)
      /\ \A i \in DOMAIN legs : legs[i].code \in DOMAIN chart
      /\ journal' = journal \cup {Entry(t, 0, t.day, legs)}
      /\ billed' = billed \cup ({t} \cap {b \in Order : b.type \in {"CUSTOMER_INVOICE", "VENDOR_BILL"}})
      /\ UNCHANGED chart

\* A transaction of its own, applied to nothing.
Book(t) == PostTransaction(t) /\ UNCHANGED applied

\* The payment and retention routes post and apply in one request.
Settle(t, b) ==
  /\ b \in billed
  /\ b.type = BillOf(t.type)
  /\ t.amount <= IF t.type = "RETENTION_RELEASE" THEN UnreleasedRetention(b) ELSE Outstanding(b)
  /\ PostTransaction(t)
  /\ applied' = applied \cup {<<t, b>>}

Inverted(x) == [x EXCEPT !.dr = x.cr, !.cr = x.dr]

\* Mutation: the reversal leaves the payment allocated.
StillApplied(e) == applied
AppliedAfter(e) == {x \in applied : x[1] # e.of}

\* Mutation: the reversal leaves the invoice open.
StillBilled(e) == billed
BilledAfter(e) == billed \ {e.of}

\* A reversal is a transaction too and may be reversed in turn.
Reverse(e, d) ==
  /\ Cardinality(journal) < MaxEntries
  /\ ~\E later \in Posting(e.of) : later.nth > e.nth
  /\ e.nth = 0 => AppliedTo(e.of, {"CUSTOMER_PAYMENT", "PAY_VENDOR_BILL"}) = {}
  /\ journal' = journal \cup {Entry(e.of, e.nth + 1, d, Lines(e.legs, Inverted))}
  /\ IF e.nth = 0
       THEN billed' = BilledAfter(e) /\ applied' = AppliedAfter(e)
       ELSE UNCHANGED <<billed, applied>>
  /\ UNCHANGED chart

CreateAccount(c) ==
  /\ c \notin DOMAIN chart
  /\ chart' = [x \in DOMAIN chart \cup {c} |-> IF x = c THEN NewAccounts[c] ELSE chart[x]]
  /\ UNCHANGED <<journal, billed, applied>>

UpdateAccount(c) ==
  /\ c \in DOMAIN chart
  /\ chart' = [chart EXCEPT ![c].active = ~@]
  /\ UNCHANGED <<journal, billed, applied>>

BooksInit ==
  /\ chart = StandardChart
  /\ journal = {}
  /\ billed = {}
  /\ applied = {}

BooksNext ==
  \/ \E t \in Order : Book(t) \/ \E b \in billed : Settle(t, b)
  \/ \E e \in journal, d \in Day : Reverse(e, d)
  \/ \E c \in DOMAIN NewAccounts : CreateAccount(c)
  \/ \E c \in Retired : UpdateAccount(c)

BooksSpec == BooksInit /\ [][BooksNext]_booksVars

-----------------------------------------------------------------------------
(* Trial balance, general ledger, integrity check                          *)

\* Every balance is shown on one side.
DebitSide(n) == Max({0, n})
CreditSide(n) == Max({0, -n})

Balances(entries) == [c \in ActiveAccounts |-> Net({c}, entries)]
DebitColumn(balance) == Total(ActiveAccounts, LAMBDA c : DebitSide(balance[c]))
CreditColumn(balance) == Total(ActiveAccounts, LAMBDA c : CreditSide(balance[c]))
Columns(opening, ending) ==
  [openingDebit |-> DebitColumn(opening), openingCredit |-> CreditColumn(opening),
   endingDebit |-> DebitColumn(ending), endingCredit |-> CreditColumn(ending)]
TrialBalance(from, to) == Columns(Balances(UpTo(from - 1)), Balances(UpTo(to)))

InNormal(c, n) == IF chart[c].normal = "DEBIT" THEN n ELSE -n

GeneralLedger(c, from, to) ==
  InNormal(c, Net({c}, UpTo(from - 1))) + InNormal(c, Net({c}, Between(from, to)))

AccountBalance(c, d) == InNormal(c, Net({c}, UpTo(d)))

\* Entries balance, the ledger balances, assets equal liabilities and equity.
IntegrityValid(d) ==
  /\ \A e \in UpTo(d) : Balanced(e.legs)
  /\ Sum(UpTo(d), DebitOf) = Sum(UpTo(d), CreditOf)
  /\ Net(OfType({"ASSET"}), UpTo(d)) =
       -Net(OfType({"LIABILITY", "EQUITY", "REVENUE"}), UpTo(d)) - Net(OfType({"EXPENSE"}), UpTo(d))

-----------------------------------------------------------------------------
(* Statements                                                              *)

Revenue == OfType({"REVENUE"}) \cap ActiveAccounts
Expense == OfType({"EXPENSE"}) \cap ActiveAccounts
InSection(C, section) == {c \in C : chart[c].section = section}
WithPrefix(C, prefixes) == {c \in C : \E p \in prefixes : Starts(c, p)}

OtherIncome == InSection(Revenue, "OTHER_INCOME") \cup WithPrefix(Revenue, {42, 71})
OperatingRevenue == Revenue \ OtherIncome
CostOfGoods == InSection(Expense, "COGS") \cup WithPrefix(Expense, {51})
OtherExpense ==
  (InSection(Expense, "OTHER_EXPENSE") \cup WithPrefix(Expense, {71, 72})) \ CostOfGoods
IncomeTax ==
  (InSection(Expense, "INCOME_TAX") \cup WithPrefix(Expense, {81}) \cup {c \in Expense : chart[c].taxed})
    \ (CostOfGoods \cup OtherExpense)

\* Mutation: only accounts of that section are operating expenses.
SectionedExpense == InSection(Expense, "OPERATING_EXPENSE") \ IncomeTax
OperatingExpense == Expense \ (CostOfGoods \cup OtherExpense \cup IncomeTax)

ProfitAndLoss(from, to) ==
  LET gained(C) == -Net(C, Between(from, to))
      gross == gained(OperatingRevenue) + gained(CostOfGoods)
  IN  [gross |-> gross,
       net |-> gross + gained(OperatingExpense) + gained(OtherIncome) + gained(OtherExpense)
                 + gained(IncomeTax)]

FixedAssetAccounts ==
  LET assets == OfType({"ASSET"})
  IN  InSection(assets, "FIXED_ASSET") \cup WithPrefix(assets, {15})

BalanceSheet(d) ==
  LET held(C) == Net(C \cap ActiveAccounts, UpTo(d))
      assets == OfType({"ASSET"})
      earnings == -held(OfType({"REVENUE", "EXPENSE"}))
  IN  [current |-> held(assets \ FixedAssetAccounts), fixed |-> held(FixedAssetAccounts),
       liabilities |-> -held(OfType({"LIABILITY"})), earnings |-> earnings,
       equity |-> earnings - held(OfType({"EQUITY"}))]

Activity(k) ==
  CASE k \in {"CUSTOMER_PAYMENT", "DIRECT_PURCHASE", "PAY_VENDOR_BILL", "PAY_SUBCONTRACTOR",
              "VENDOR_ADVANCE", "BANK_CHARGE"} -> "operating"
    [] k = "ASSET_PURCHASE" -> "investing"
    [] k \in {"OWNER_CONTRIBUTION", "OWNER_WITHDRAWAL"} -> "financing"
    [] OTHER -> "unclassified"

TypeOf(e) == IF e.nth > 0 THEN "REVERSAL" ELSE e.of.type

CashFlow(from, to) ==
  LET cash == Cash \cap ActiveAccounts
      flow(activity) == Net(cash, {e \in Between(from, to) : Activity(TypeOf(e)) = activity})
      change == flow("operating") + flow("investing") + flow("financing") + flow("unclassified")
  IN  [change |-> change, closing |-> Net(cash, UpTo(from - 1)) + change]

EquityChanges(from, to) ==
  LET opening(c) == -Net({c}, UpTo(from - 1))
      moved(c) == -Net({c}, Between(from, to))
  IN  opening(3101) + moved(3101)
        + opening(3201) + ProfitAndLoss(from, to).net + moved(3201) + moved(3301)

\* The notes to the statements put the statements of the year side by side.
Notes(d) ==
  [sheet |-> BalanceSheet(d), profit |-> ProfitAndLoss(YearStart[d], d),
   cash |-> CashFlow(YearStart[d], d)]

-----------------------------------------------------------------------------
(* Dashboard                                                               *)

DashboardCash(d) == Net(Cash, UpTo(d))

\* An entry counts with what it adds to all cash accounts together.
NetFlow(entries) ==
  LET flow(e) == Net(Cash, {e})
      inflow == Total({e \in entries : flow(e) > 0}, flow)
      outflow == Total({e \in entries : flow(e) < 0}, LAMBDA e : -flow(e))
  IN  inflow - outflow

ProfitToDate(d) == -Net(OfType({"REVENUE", "EXPENSE"}), Between(YearStart[d], d))

BilledOf(k) == {b \in billed : b.type = k}
ReceivableOutstanding == Total(BilledOf("CUSTOMER_INVOICE"), LAMBDA b : Max({0, b.amount - PaidAmount(b)}))
PayableOutstanding == Total(BilledOf("VENDOR_BILL"), LAMBDA b : Max({0, b.amount - PaidAmount(b)}))
ReceivableAging == Total(BilledOf("CUSTOMER_INVOICE"), Outstanding)

PayableAging(d) ==
  Total({b \in BilledOf("VENDOR_BILL") : b.day <= d},
        LAMBDA b : Max({0, b.amount - PaidAmount(b)}))

\* The trend shows every month (here: every day) by itself.
MonthlyCashFlow(d) == NetFlow(Between(d, d))

PaymentAccountBalance(a) ==
  Sum(journal, LAMBDA x : IF x.account = a THEN x.dr - x.cr ELSE 0)

\* The overview shows an account with the balance of the ledger account it is mapped to,
\* and the seeder maps all of them to 1101.
OverviewBalance(a, d) == Net({1101}, UpTo(d))

-----------------------------------------------------------------------------
(* Projects                                                                *)

ProjectNet(p, C) ==
  Sum(journal, LAMBDA x : IF x.project = p /\ x.code \in C THEN x.dr - x.cr ELSE 0)

\* ProjectCostService
ProjectCost(p) == ProjectNet(p, {c \in DOMAIN chart : Starts(c, 5101)})
ProjectRevenue(p) == -ProjectNet(p, {c \in DOMAIN chart : Starts(c, 4101)})

InvoicesOf(p) == {b \in BilledOf("CUSTOMER_INVOICE") : ProjectsOf(b) = {p}}
InvoicedAmount(p) == Amounts(InvoicesOf(p))
CashReceived(p) == Total(InvoicesOf(p), PaidAmount)

\* Credits only: money that comes back does not lower it.
CashSpent(p) ==
  Sum(journal, LAMBDA x : IF x.project = p /\ Starts(x.code, 110) THEN x.cr ELSE 0)

\* Fees and consultants, bank charges, final tax; without any there is no net contribution.
HasSecondaryData(p) ==
  \/ ProjectNet(p, {6102, 6106}) > 0
  \/ ProjectNet(p, {c \in DOMAIN chart : Starts(c, 710)}) > 0
  \/ ProjectNet(p, {c \in DOMAIN chart : Starts(c, 810)}) > 0

\* The dashboard's row and the financial summary of a project.
ProjectPerformance(p) ==
  [cost |-> ProjectNet(p, WithPrefix(OfType({"EXPENSE"}), {5})),
   invoiced |-> InvoicedAmount(p), received |-> CashReceived(p)]
FinancialSummary(p) ==
  [receivable |-> InvoicedAmount(p) - CashReceived(p),
   cash |-> CashReceived(p) - CashSpent(p), surplus |-> CashReceived(p) - ProjectCost(p)]

-----------------------------------------------------------------------------
(* Properties                                                              *)

\* Entries that allocations wrote leg by leg.
Adjusting == {e \in journal : e.of.type = "JOURNAL_ADJUSTMENT"}
Ruled == journal \ Adjusting
UsedCodes == UNION {{e.legs[i].code : i \in DOMAIN e.legs} : e \in journal}

\* Equity that the equity statement has no column for.
EquityElsewhere == OfType({"EQUITY"}) \ {3101, 3201, 3301}

AgreeOn(d) ==
  LET year == YearStart[d]
      tb == TrialBalance(year, d)
      notes == Notes(d)
      before == BalanceSheet(year - 1)
  IN  /\ tb.openingDebit = tb.openingCredit /\ tb.endingDebit = tb.endingCredit
      /\ notes.sheet.current + notes.sheet.fixed = notes.sheet.liabilities + notes.sheet.equity
      /\ IntegrityValid(d)
      /\ \A c \in UsedCodes :
           /\ GeneralLedger(c, year, d) = AccountBalance(c, d)
           /\ GeneralLedger(c, year, d) =
                InNormal(c, DebitSide(Net({c}, UpTo(d))) - CreditSide(Net({c}, UpTo(d))))
      /\ notes.profit.net = ProfitToDate(d)
      /\ notes.cash.closing = DashboardCash(d)
      /\ notes.cash.change = NetFlow(Between(year, d))
      /\ notes.cash.change = Total(year..d, MonthlyCashFlow)
      /\ EquityChanges(year, d) =
           notes.sheet.equity - before.earnings + Net({3301}, UpTo(year - 1))
             + Net(EquityElsewhere, UpTo(d))

(* As long as no deactivated account was posted to, the reports are        *)
(* consistent on every day: the trial balance, the balance sheet and the   *)
(* integrity check balance; the general ledger ends where the trial        *)
(* balance does; the year's profit is the dashboard's; the cash flow ends  *)
(* with the cash of the dashboard and changes by its inflows less its      *)
(* outflows.  Two reports do not agree, and this says no more than by how  *)
(* much: the equity statement has no column for the earnings of earlier    *)
(* years, for the withdrawals before the year and for equity accounts      *)
(* other than its three, so it ends beside the balance sheet by their sum. *)
(* The balance sheet's own "current-year" earnings are those of all years  *)
(* and equal the profit of the year in the first year only.                *)
StatementsAgree ==
  journal # {} /\ UsedCodes \subseteq ActiveAccounts => \A d \in Day : AgreeOn(d)

\* Orders in force: applied to no open bill, without an open bill of their own, never billed.
Loose(k) == {t \in Order : t.type = k /\ InForce(t) /\ ~\E b \in billed : <<t, b>> \in applied}
Revived(k) == {t \in Order : t.type = k /\ InForce(t) /\ t \notin billed}
Unbilled ==
  {t \in Order : /\ InForce(t)
                 /\ \/ t.type = "SUBCONTRACTOR_BILL"
                    \/ t.type = "ASSET_PURCHASE" /\ t.from = "NONE"}

Withheld(orders) == Total(orders, LAMBDA t : t.retention)
\* The reversal of a release can leave an invoice paid beyond what is collectible.
Overpaid(b) == Max({0, PaidAmount(b) - CollectibleAmount(b)})
UnnamedCash ==
  Sum(journal, LAMBDA x : IF x.account = "NONE" /\ x.code \in Cash THEN x.dr - x.cr ELSE 0)
NamedCash == Total(PaymentAccount, PaymentAccountBalance)

ReceivablesTie ==
  LET dead == Revived("CUSTOMER_INVOICE")
  IN  /\ Net({1201}, Ruled) =
           ReceivableAging - Total(BilledOf("CUSTOMER_INVOICE"), Overpaid)
             - Amounts(Loose("CUSTOMER_PAYMENT")) + Amounts(Loose("RETENTION_RELEASE"))
             + Amounts(dead) - Withheld(dead)
      /\ Net({1201, 1202}, Ruled) =
           ReceivableOutstanding - Amounts(Loose("CUSTOMER_PAYMENT")) + Amounts(dead)

PayablesTie ==
  -Net({2101}, Ruled) =
    PayableOutstanding - Amounts(Loose("PAY_VENDOR_BILL")) - Amounts(Loose("PAY_SUBCONTRACTOR"))
      + Amounts(Unbilled) + Amounts(Revived("VENDOR_BILL"))

\* On a day that nothing posted is later than.
LatestTie(d) ==
  /\ PayableAging(d) = PayableOutstanding
  /\ NamedCash = DashboardCash(d) - UnnamedCash
  /\ Total(PaymentAccount, LAMBDA a : OverviewBalance(a, d)) =
       Cardinality(PaymentAccount) * (NamedCash + UnnamedCash - Net(Cash \ {1101}, journal))

(* By how much the control accounts of receivables, withheld retention and *)
(* payables differ from the open invoices and bills, whatever was posted,  *)
(* paid, released and reversed in whatever order: by exactly what has no   *)
(* invoice or bill, which is payments and releases that are applied to     *)
(* none, subcontractor bills and assets bought on credit, and an invoice   *)
(* whose reversal was reversed, for it stays CANCELLED; and by what an     *)
(* invoice is overpaid once a release was reversed.  Each of these is a    *)
(* case of SubledgersReconcile, which does not hold.  The balances of the  *)
(* payment accounts add up to the cash of the ledger, but for the cash     *)
(* legs that name no account; the overview counts the cash on 1101 once    *)
(* for every account.                                                      *)
SubledgersTie ==
  journal # {} =>
    /\ ReceivablesTie
    /\ PayablesTie
    /\ \A d \in Day : journal = UpTo(d) => LatestTie(d)

(* The specification of the dashboard promises more: receivables and       *)
(* payables on the balance sheet are the open invoices and bills, for      *)
(* whatever the posting rules have posted.  It does not hold.              *)
SubledgersReconcile ==
  journal # {} =>
    /\ Net({1201, 1202}, Ruled) = ReceivableOutstanding
    /\ -Net({2101}, Ruled) = PayableOutstanding

\* The project that the cash leg of a payment names.
PaidFor(t) ==
  CASE t.type = "DIRECT_PURCHASE" -> OnlyProject(t)
    [] t.type \in {"PAY_VENDOR_BILL", "PAY_SUBCONTRACTOR"} -> FirstProject(t)
    [] OTHER -> "NONE"

RevenueTies(p) ==
  ProjectRevenue(p) =
    InvoicedAmount(p) + Amounts({t \in Revived("CUSTOMER_INVOICE") : ProjectsOf(t) = {p}})

CostsTie(p) == ProjectPerformance(p).cost = ProjectCost(p)

MoneyTies(p) ==
  /\ FinancialSummary(p).receivable =
       Total(InvoicesOf(p), LAMBDA b : Outstanding(b) + UnreleasedRetention(b) - Overpaid(b))
  /\ CashSpent(p) =
       Sum(journal, LAMBDA x : IF x.project = p /\ x.code \in Cash THEN x.dr ELSE 0)
         + Amounts({t \in Order : InForce(t) /\ PaidFor(t) = p})

Adjusted(p) == \E e \in Adjusting : \E i \in DOMAIN e.legs : e.legs[i].project = p

(* The reports on a project agree unless an adjustment names it: the       *)
(* revenue of the ledger is what was invoiced and not cancelled, and the   *)
(* dashboard's costs of a project are those of its cost report.  What is   *)
(* not yet received is open on its invoices, less what they are overpaid;  *)
(* what was spent is what its payments in force paid, and once more what   *)
(* reversals gave back; and no posting rule ever yields a cost that the    *)
(* net contribution is made of.                                            *)
ProjectsTie ==
  journal # {} => \A p \in Project :
    ~Adjusted(p) => RevenueTies(p) /\ CostsTie(p) /\ MoneyTies(p) /\ ~HasSecondaryData(p)
=============================================================================
