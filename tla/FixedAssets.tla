---------------------------- MODULE FixedAssets -----------------------------
(***************************************************************************)
(* The fixed-asset register and its straight-line depreciation             *)
(* (FixedAssetService), each run of which posts a journal entry with a     *)
(* number from the tenant's sequence (allocate_next) and is run again by   *)
(* run_in_clean_transaction when the database breaks a deadlock.           *)
(*                                                                         *)
(* The isolation is READ COMMITTED and nothing is read FOR UPDATE: a run   *)
(* writes what it computed from what it read at its start.  What makes it  *)
(* wait are a transaction code that another open transaction has inserted  *)
(* and the row of the sequence, locked from the allocation to the end.     *)
(*                                                                         *)
(* Amounts are cents; all dates are of one year, so of one sequence.       *)
(* A definition headed "Mutation" is no part of the specification.         *)
(***************************************************************************)
EXTENDS Integers, FiniteSets, Functions

CONSTANTS
  Asset,        \* asset codes; numbers, because a batch takes them in order
  Date,         \* period dates; numbers
  MonthOf,      \* the calendar month of each date
  ClosedMonth,  \* months whose accounting period refuses the posting
  Cost,         \* purchase_cost of each asset
  AvailableFrom,\* effective_available_date of each asset
  Salvages, Lives, Statuses, \* what users enter for an asset
  Session,
  MaxAttempts,  \* MAX_TRANSACTION_RETRY_ATTEMPTS
  MaxRequests   \* bound: requests, runs and changes of the register together

ASSUME AssetAssumption ==
  /\ Asset \subseteq Nat /\ IsFiniteSet(Asset)
  /\ Date \subseteq Nat
  /\ MonthOf \in [Date -> Nat] /\ ClosedMonth \subseteq Nat
  /\ Cost \in [Asset -> Nat \ {0}] /\ AvailableFrom \in [Asset -> Nat]
  /\ Salvages \subseteq Nat /\ Lives \subseteq Nat \ {0}
  /\ Statuses \subseteq {"DRAFT", "ACTIVE", "FULLY_DEPRECIATED", "DISPOSED", "WRITTEN_OFF"}
  /\ MaxAttempts \in Nat \ {0} /\ MaxRequests \in Nat

VARIABLES
  register,  \* fixed_assets
  history,   \* fixed_asset_depreciations, each with its journal entry's number
  sequence,  \* current_value of the sequence JE, as committed
  run,       \* what each session is doing
  requests,
  overlap    \* history: assets written by a run during which another one wrote them

assetVars == <<register, history, sequence, run, requests, overlap>>

Status == {"ABSENT", "DRAFT", "ACTIVE", "FULLY_DEPRECIATED", "DISPOSED", "WRITTEN_OFF"}
AssetRow == [status: Status, salvage: Nat, life: Nat \ {0}, accumulated: Nat]
Absent == [status |-> "ABSENT", salvage |-> 0, life |-> 1, accumulated |-> 0]

Record == [asset: Asset, date: Date, amount: Nat, after: Nat, number: Nat]

NoRun == [pc |-> "idle", wanted |-> {}, batch |-> FALSE, date |-> 0, attempt |-> 0,
          seen |-> [a \in Asset |-> Absent], todo |-> {}, made |-> {}, number |-> 0, late |-> {}]

\* The lock order of a run: for each asset its code, then the sequence.
Run == [pc: {"idle", "begin", "asset", "inserting", "posting"}, wanted: SUBSET Asset, batch: BOOLEAN, date: Nat,
        attempt: 0..MaxAttempts, seen: [Asset -> AssetRow], todo: SUBSET Asset,
        made: SUBSET Record, number: Nat, late: SUBSET Asset]

(* Every variable holds what its column or local variable may hold; no     *)
(* asset is depreciated by more than it cost.                              *)
AssetTypeOK ==
  /\ register \in [Asset -> AssetRow]
  /\ \A a \in Asset : register[a].accumulated <= Cost[a]
  /\ history \subseteq Record
  /\ sequence \in Nat
  /\ run \in [Session -> Run]
  /\ requests \in 0..MaxRequests
  /\ overlap \subseteq Asset

AssetsInit ==
  /\ register = [a \in Asset |-> Absent]
  /\ history = {}
  /\ sequence = 0
  /\ run = [s \in Session |-> NoRun]
  /\ requests = 0
  /\ overlap = {}

-----------------------------------------------------------------------------
(* The arithmetic of FixedAsset.                                           *)

Depreciable(a, row) == Cost[a] - row.salvage
Remaining(a, row) ==
  IF row.accumulated >= Depreciable(a, row) THEN 0 ELSE Depreciable(a, row) - row.accumulated

\* quantize(Decimal("0.01")) rounds half to even.
Rounded(n, d) ==
  LET q == n \div d
      r == n % d
  IN  IF 2 * r > d \/ (2 * r = d /\ q % 2 = 1) THEN q + 1 ELSE q

Charge(a, row) ==
  LET rate == Rounded(Depreciable(a, row), row.life)
  IN  IF rate > Remaining(a, row) THEN Remaining(a, row) ELSE rate

\* calculate_depreciation_amount
AmountDue(a, row, d) ==
  IF row.status # "ACTIVE" \/ d < AvailableFrom[a] \/ Remaining(a, row) = 0 THEN 0 ELSE Charge(a, row)

-----------------------------------------------------------------------------
(* The register.                                                           *)

\* The rows that an open transaction has updated are locked.
RowFree(a) == \A s \in Session : \A r \in run[s].made : r.asset # a

\* uq_fixed_assets_org_code; the life defaults by category, one of Lives.
CreateAsset(a) ==
  /\ requests < MaxRequests
  /\ register[a].status = "ABSENT"
  /\ \E salvage \in Salvages, life \in Lives, status \in Statuses :
       /\ salvage < Cost[a]
       /\ register' = [register EXCEPT ![a] = [status |-> status, salvage |-> salvage,
                                               life |-> life, accumulated |-> 0]]
  /\ requests' = requests + 1
  /\ UNCHANGED <<history, sequence, run, overlap>>

\* PATCH writes the fields it is given, any status included.
UpdateAsset(a) ==
  /\ requests < MaxRequests
  /\ register[a].status # "ABSENT" /\ RowFree(a)
  /\ \E salvage \in Salvages \cup {register[a].salvage}, life \in Lives \cup {register[a].life},
        status \in Statuses \cup {register[a].status} :
       /\ salvage < Cost[a]
       /\ register' = [register EXCEPT ![a].salvage = salvage, ![a].life = life, ![a].status = status]
  /\ requests' = requests + 1
  /\ UNCHANGED <<history, sequence, run, overlap>>

\* No journal entry: the book value stays where it is.
DisposeAsset(a) ==
  /\ requests < MaxRequests
  /\ register[a].status \notin {"ABSENT", "DISPOSED"} /\ RowFree(a)
  /\ register' = [register EXCEPT ![a].status = "DISPOSED"]
  /\ requests' = requests + 1
  /\ UNCHANGED <<history, sequence, run, overlap>>

-----------------------------------------------------------------------------
(* A depreciation run.                                                     *)

Over(s) == run' = [run EXCEPT ![s] = NoRun]

Request(s) ==
  /\ requests < MaxRequests
  /\ run[s].pc = "idle"
  /\ \E d \in Date, A \in {Asset} \cup {{a} : a \in Asset}, batch \in BOOLEAN :
       /\ batch => A = Asset
       /\ ~batch => Cardinality(A) = 1 /\ \A a \in A : register[a].status # "ABSENT"
       /\ run' = [run EXCEPT ![s] = [NoRun EXCEPT !.pc = "begin", !.wanted = A, !.batch = batch,
                                                  !.date = d, !.attempt = 1]]
  /\ requests' = requests + 1
  /\ UNCHANGED <<register, history, sequence, overlap>>

\* The assets that the query of a batch returns.
InBatch(s) ==
  {a \in Asset : /\ register[a].status = "ACTIVE"
                 /\ AvailableFrom[a] <= run[s].date
                 /\ register[a].accumulated < Depreciable(a, register[a])}

Refusing == {"DRAFT", "DISPOSED", "WRITTEN_OFF"}

Begin(s) ==
  /\ run[s].pc = "begin"
  /\ run' = [run EXCEPT ![s] =
       [@ EXCEPT !.pc = "asset", !.seen = register, !.late = {},
                 !.todo = IF run[s].batch THEN InBatch(s) ELSE run[s].wanted]]
  /\ UNCHANGED <<register, history, sequence, requests, overlap>>

\* A batch goes by asset_code.
NextAsset(s) == CHOOSE a \in run[s].todo : \A b \in run[s].todo : a <= b

DepreciatedIn(a, month) == \E h \in history : h.asset = a /\ MonthOf[h.date] = month

\* Mutation: the transaction's code holds the day.
CodeByDate(a, d) == <<a, d>>

\* DEP-<asset_code>-<yyyymm>, unique in the organization.
Code(a, d) == <<a, MonthOf[d]>>

Turn(s) == run[s].pc = "asset" /\ run[s].todo # {}

\* Raising rolls back the whole run, a batch included; no conflict, no retry.
Refused(s) ==
  LET a == NextAsset(s)
      row == run[s].seen[a]
      d == run[s].date
  IN  /\ Turn(s)
      /\ \/ row.status \in Refusing
         \/ ~run[s].batch /\ DepreciatedIn(a, MonthOf[d])
         \/ AmountDue(a, row, d) > 0 /\ ~DepreciatedIn(a, MonthOf[d]) /\ MonthOf[d] \in ClosedMonth
      /\ Over(s)
      /\ UNCHANGED <<register, history, sequence, requests, overlap>>

\* The query for the month's depreciation, or nothing to charge; a run that finds
\* its asset used up says so in the register.
Passes(s) ==
  LET a == NextAsset(s)
      row == run[s].seen[a]
      skipped == run[s].batch /\ DepreciatedIn(a, MonthOf[run[s].date])
  IN  /\ Turn(s)
      /\ row.status \notin Refusing
      /\ ~DepreciatedIn(a, MonthOf[run[s].date]) \/ skipped
      /\ skipped \/ AmountDue(a, row, run[s].date) = 0
      /\ IF ~skipped /\ Remaining(a, row) = 0 /\ row.status = "ACTIVE"
         THEN RowFree(a) /\ Over(s) /\ register' = [register EXCEPT ![a].status = "FULLY_DEPRECIATED"]
         ELSE run' = [run EXCEPT ![s].todo = @ \ {a}] /\ UNCHANGED register
      /\ UNCHANGED <<history, sequence, requests, overlap>>

Charges(s) ==
  LET a == NextAsset(s)
      month == MonthOf[run[s].date]
  IN  /\ Turn(s)
      /\ run[s].seen[a].status \notin Refusing
      /\ ~DepreciatedIn(a, month)
      /\ AmountDue(a, run[s].seen[a], run[s].date) > 0
      /\ month \notin ClosedMonth
      /\ run' = [run EXCEPT ![s].pc = "inserting"]
      /\ UNCHANGED <<register, history, sequence, requests, overlap>>

\* The codes that an open transaction has inserted.
CodesOf(s) ==
  {Code(r.asset, r.date) : r \in run[s].made}
    \cup IF run[s].pc = "posting" THEN {Code(NextAsset(s), run[s].date)} ELSE {}

CodeTaken(s, t) == t # s /\ Code(NextAsset(s), run[s].date) \in CodesOf(t)

\* uq_transactions_org_code: it waits for open transactions; a code that has been
\* committed fails the run, and since nothing allocated it there is no retry.
InsertTransaction(s) ==
  /\ run[s].pc = "inserting"
  /\ \A t \in Session : ~CodeTaken(s, t)
  /\ IF \E h \in history : Code(h.asset, h.date) = Code(NextAsset(s), run[s].date)
     THEN Over(s)
     ELSE run' = [run EXCEPT ![s].pc = "posting"]
  /\ UNCHANGED <<register, history, sequence, requests, overlap>>

\* Mutation: the number is read from what is committed.
NextOfCommitted(s) == sequence + 1

\* INSERT ... ON CONFLICT DO UPDATE sees what its own transaction has allocated.
NextNumber(s) == IF run[s].number = 0 THEN sequence + 1 ELSE run[s].number + 1

PostEntry(s) ==
  LET a == NextAsset(s)
      row == run[s].seen[a]
      amount == AmountDue(a, row, run[s].date)
  IN  /\ run[s].pc = "posting"
      /\ \A t \in Session \ {s} : run[t].number = 0
      /\ run' = [run EXCEPT ![s] =
           [run[s] EXCEPT !.pc = "asset", !.todo = run[s].todo \ {a}, !.number = NextNumber(s),
                          !.made = run[s].made \cup
                            {[asset |-> a, date |-> run[s].date, amount |-> amount,
                              after |-> row.accumulated + amount, number |-> NextNumber(s)]}]]
      /\ UNCHANGED <<register, history, sequence, requests, overlap>>

Written(s) == {r.asset : r \in run[s].made}

\* Only the columns that the run has set: accumulated_depreciation, and status
\* when the asset is done.
RowAfter(row, a, r, seen) ==
  [row EXCEPT !.accumulated = r.after,
              !.status = IF r.after >= Depreciable(a, seen) THEN "FULLY_DEPRECIATED" ELSE @]

Commit(s) ==
  /\ run[s].pc = "asset" /\ run[s].todo = {}
  /\ register' = [a \in Asset |->
       IF a \in Written(s)
       THEN RowAfter(register[a], a, CHOOSE r \in run[s].made : r.asset = a, run[s].seen[a])
       ELSE register[a]]
  /\ history' = history \cup run[s].made
  /\ sequence' = IF run[s].number = 0 THEN sequence ELSE run[s].number
  /\ overlap' = overlap \cup (run[s].late \cap Written(s))
  /\ run' = [t \in Session |-> IF t = s THEN NoRun ELSE [run[t] EXCEPT !.late = @ \cup Written(s)]]
  /\ UNCHANGED requests

\* A connection is lost, or a worker dies.
Abandoned(s) ==
  /\ run[s].pc # "idle"
  /\ Over(s)
  /\ UNCHANGED <<register, history, sequence, requests, overlap>>

-----------------------------------------------------------------------------
(* Deadlocks: SQLSTATE 40P01 to one of those who wait in a circle.         *)

WaitsFor(s, t) ==
  \/ run[s].pc = "inserting" /\ CodeTaken(s, t)
  \/ run[s].pc = "posting" /\ t # s /\ run[t].number # 0

InDeadlock(s) ==
  \E C \in SUBSET Session : s \in C /\ \A x \in C : \E y \in C : WaitsFor(x, y)

\* Mutation: the entries of the broken attempt stay pending in its session.
StillPending(s) == run[s].made

\* run_in_clean_transaction rolls back and expunges.
LeftPending(s) == {}

Victim(s) ==
  /\ InDeadlock(s)
  /\ run' = [run EXCEPT ![s] =
       IF run[s].attempt = MaxAttempts THEN NoRun
       ELSE [run[s] EXCEPT !.pc = "begin", !.attempt = run[s].attempt + 1, !.todo = {},
                           !.made = LeftPending(s), !.number = 0]]
  /\ UNCHANGED <<register, history, sequence, requests, overlap>>

RunStep(s) ==
  \/ Begin(s) \/ Refused(s) \/ Passes(s) \/ Charges(s) \/ InsertTransaction(s) \/ PostEntry(s)
  \/ Commit(s) \/ Victim(s)

AssetsNext ==
  \/ \E a \in Asset : CreateAsset(a) \/ UpdateAsset(a) \/ DisposeAsset(a)
  \/ \E s \in Session : Request(s) \/ RunStep(s) \/ Abandoned(s)

AssetsSpec == AssetsInit /\ [][AssetsNext]_assetVars

-----------------------------------------------------------------------------
(* Properties.                                                             *)

(* No asset is depreciated twice for a month, although the query that      *)
(* looks for it locks nothing and the days of a month differ.              *)
OneDepreciationPerMonth ==
  \A h \in history, k \in history :
    h.asset = k.asset /\ MonthOf[h.date] = MonthOf[k.date] => h = k

\* What a set of its records charges an asset.
Charged(H) == SumFunctionOnSet([h \in H |-> h.amount], H)

\* What the month records of an asset add up to.
DepreciationIn(H, a) == Charged({h \in H : h.asset = a})

(* The register's accumulated depreciation is the sum of the asset's month *)
(* records, after whatever deadlocks, retries, lost connections and edits  *)
(* of the asset; an asset that a run wrote while another one wrote it too  *)
(* has lost one of the two charges, and then shows less than its records,  *)
(* never more.  (That nothing reverses: the reversal of a DEP transaction  *)
(* touches neither the register nor the records.)                          *)
RegisterMatchesHistory ==
  \A a \in Asset :
    /\ register[a].accumulated <= DepreciationIn(history, a)
    /\ a \notin overlap => register[a].accumulated = DepreciationIn(history, a)

(* Journal entries are numbered without gap or repetition, whatever is     *)
(* rolled back.                                                            *)
NumberedWithoutGap ==
  /\ {h.number : h \in history} = 1..sequence
  /\ \A h \in history, k \in history : h.number = k.number => h = k
=============================================================================
