-------------------------- MODULE FixedAssetsProofs --------------------------
(***************************************************************************)
(* What FixedAssets guarantees for every register, every calendar and any  *)
(* number of sessions: the codes that open runs have inserted are disjoint *)
(* from each other and from the journal's, and only one open run holds the *)
(* row of the sequence.  The register adds up to the journal because what  *)
(* a run has read of an asset is what the register still says of it, as    *)
(* long as no other run has written the asset in the meantime.             *)
(***************************************************************************)
EXTENDS FixedAssets, Sums, WellFoundedInduction, TLAPS

Least(S) == CHOOSE a \in S : \A b \in S : a <= b

\* What it charges its next asset.
Due(r) == AmountDue(Least(r.todo), r.seen[Least(r.todo)], r.date)

\* The codes a run has inserted (CodesOf), of the run itself.
RunCodes(r) ==
  {Code(x.asset, x.date) : x \in r.made}
    \cup IF r.pc = "posting" THEN {Code(Least(r.todo), r.date)} ELSE {}

\* What it has made is of assets it has done with, one of each.
Doing(r) ==
  /\ r \in Run
  /\ r.pc \in {"idle", "begin"} => r.made = {} /\ r.number = 0
  /\ r.pc # "idle" => r.date \in Date
  /\ r.pc \in {"inserting", "posting"} => r.todo # {} /\ Due(r) > 0
  /\ \A x \in r.made : x.asset \notin r.todo /\ x.date = r.date /\ x.after <= Cost[x.asset]
  /\ \A x \in r.made, y \in r.made : x.asset = y.asset => x = y

\* Its numbers follow the committed ones.
Numbers(r, q) ==
  /\ r.number = 0 => r.made = {}
  /\ r.number # 0 => r.number > q /\ {x.number : x \in r.made} = (q + 1)..r.number
  /\ \A x \in r.made, y \in r.made : x.number = y.number => x = y

\* Two open runs: different codes, and one at most has numbers.
Apart(r, k) ==
  /\ RunCodes(r) \cap RunCodes(k) = {}
  /\ r.number = 0 \/ k.number = 0

NotIn(r, H) == \A h \in H : Code(h.asset, h.date) \notin RunCodes(r)

RunFine(r, q, H) == Doing(r) /\ Numbers(r, q) /\ NotIn(r, H)

AssetsInv ==
  /\ AssetTypeOK
  /\ \A s \in Session : RunFine(run[s], sequence, history)
  /\ \A s \in Session, t \in Session : s # t => Apart(run[s], run[t])
  /\ OneDepreciationPerMonth
  /\ NumberedWithoutGap

-----------------------------------------------------------------------------
(* Lemmas.                                                                 *)

LEMMA LeastIn ==
  ASSUME NEW S, S \subseteq Nat, S # {}
  PROVE  Least(S) \in S
<1>1. PICK n \in S : \A y \in S : <<y, n>> \notin OpToRel(<, Nat)
  BY NatLessThanWellFounded, WFMin
<1>2. \A y \in S : y \in Nat /\ n \in Nat /\ ~(y < n)
  BY <1>1 DEF OpToRel
<1>3. \E x \in S : \A y \in S : x <= y
  BY <1>2
<1> QED BY <1>3 DEF Least

\* The turn of a run comes to an asset it still has to do.
LEMMA NextAssetIn ==
  ASSUME AssetsInv, NEW s \in Session, run[s].todo # {}
  PROVE  NextAsset(s) = Least(run[s].todo) /\ NextAsset(s) \in run[s].todo /\ NextAsset(s) \in Asset
<1>1. NextAsset(s) = Least(run[s].todo)
  BY DEF NextAsset, Least
<1>2. run[s].todo \subseteq Asset /\ Asset \subseteq Nat
  BY AssetAssumption DEF AssetsInv, RunFine, Doing, Run
<1> QED BY <1>1, <1>2, LeastIn

LEMMA CodesAreRunCodes ==
  ASSUME NEW s \in Session
  PROVE  CodesOf(s) = RunCodes(run[s])
  BY DEF CodesOf, RunCodes, NextAsset, Least

\* Rounding, and with it the charge, yields an amount.
LEMMA RoundedIsNat ==
  ASSUME NEW n \in Nat, NEW d \in Nat \ {0}
  PROVE  Rounded(n, d) \in Nat
<1>1. n \div d \in Nat
  OBVIOUS
<1> QED BY <1>1 DEF Rounded

LEMMA ChargeWithinCost ==
  ASSUME NEW a \in Asset, NEW row \in AssetRow, NEW d
  PROVE  /\ AmountDue(a, row, d) \in Nat
         /\ AmountDue(a, row, d) > 0 => row.accumulated + AmountDue(a, row, d) <= Cost[a]
<1>1. /\ row.salvage \in Nat /\ row.accumulated \in Nat /\ row.life \in Nat \ {0} /\ Cost[a] \in Nat
  BY AssetAssumption DEF AssetRow
<1> DEFINE n == Cost[a] - row.salvage
<1>2. CASE AmountDue(a, row, d) = 0
  BY <1>2
<1>3. CASE AmountDue(a, row, d) # 0
  <2>1. AmountDue(a, row, d) = Charge(a, row) /\ Remaining(a, row) # 0
    BY <1>3 DEF AmountDue
  <2>2. row.accumulated < n /\ Remaining(a, row) = n - row.accumulated /\ n \in Nat
    BY <1>1, <2>1 DEF Remaining, Depreciable
  <2>3. Rounded(n, row.life) \in Nat
    BY <1>1, <2>2, RoundedIsNat
  <2> QED BY <1>1, <2>1, <2>2, <2>3 DEF Charge, Depreciable
<1> QED BY <1>2, <1>3

\* A session that has nothing open.
LEMMA NoRunFine ==
  ASSUME NEW q, NEW H
  PROVE  RunFine(NoRun, q, H) /\ RunCodes(NoRun) = {} /\ NoRun.number = 0
<1>1. Absent \in AssetRow
  BY DEF Absent, AssetRow, Status
<1>2. NoRun \in Run
  BY <1>1, AssetAssumption DEF NoRun, Run
<1>3. NoRun.made = {} /\ NoRun.number = 0 /\ NoRun.pc = "idle"
  BY DEF NoRun
<1>4. RunCodes(NoRun) = {}
  BY <1>3 DEF RunCodes
<1> QED BY <1>2, <1>3, <1>4 DEF RunFine, Doing, Numbers, NotIn

LEMMA RunFineOf ==
  ASSUME AssetsInv, NEW s \in Session
  PROVE  /\ RunFine(run[s], sequence, history) /\ run[s] \in Run
  BY DEF AssetsInv, RunFine, Doing

\* A step that writes at most the register, and leaves the other runs alone.
LEMMA OwnRun ==
  ASSUME AssetsInv, NEW s \in Session, NEW r,
         run' = [run EXCEPT ![s] = r],
         RunFine(r, sequence, history),
         \A t \in Session \ {s} : Apart(r, run[t]),
         UNCHANGED <<history, sequence, overlap>>, requests' \in 0..MaxRequests,
         register' \in [Asset -> AssetRow], \A a \in Asset : register'[a].accumulated <= Cost[a]
  PROVE  AssetsInv'
<1>1. run \in [Session -> Run] /\ r \in Run
  BY DEF AssetsInv, AssetTypeOK, RunFine, Doing
<1>2. run'[s] = r /\ \A t \in Session \ {s} : run'[t] = run[t]
  BY <1>1
<1>3. AssetTypeOK'
  BY <1>1 DEF AssetsInv, AssetTypeOK
<1>4. \A t \in Session : RunFine(run'[t], sequence', history')
  <2> TAKE t \in Session
  <2>1. RunFine(run[t], sequence, history)
    BY RunFineOf
  <2> QED BY <1>2, <2>1
<1>5. \A t \in Session, u \in Session : t # u => Apart(run'[t], run'[u])
  <2> TAKE t \in Session, u \in Session
  <2> HAVE t # u
  <2>1. CASE t = s
    BY <1>2, <2>1
  <2>2. CASE u = s
    BY <1>2, <2>2 DEF Apart
  <2>3. CASE t # s /\ u # s
    BY <1>2, <2>3 DEF AssetsInv
  <2> QED BY <2>1, <2>2, <2>3
<1>6. OneDepreciationPerMonth' /\ NumberedWithoutGap'
  BY DEF AssetsInv, OneDepreciationPerMonth, NumberedWithoutGap
<1> QED BY <1>3, <1>4, <1>5, <1>6 DEF AssetsInv

\* The same, for a run that takes no new code and no new number.
LEMMA QuietRun ==
  ASSUME AssetsInv, NEW s \in Session, NEW r,
         run' = [run EXCEPT ![s] = r],
         RunFine(r, sequence, history),
         RunCodes(r) \subseteq RunCodes(run[s]), r.number \in {0, run[s].number},
         UNCHANGED <<history, sequence, overlap>>, requests' \in 0..MaxRequests,
         register' \in [Asset -> AssetRow], \A a \in Asset : register'[a].accumulated <= Cost[a]
  PROVE  AssetsInv'
<1>1. \A t \in Session \ {s} : Apart(r, run[t])
  BY DEF AssetsInv, Apart
<1> QED BY <1>1, OwnRun

LEMMA OverKeeps ==
  ASSUME AssetsInv, NEW s \in Session, Over(s),
         UNCHANGED <<history, sequence, overlap>>, requests' \in 0..MaxRequests,
         register' \in [Asset -> AssetRow], \A a \in Asset : register'[a].accumulated <= Cost[a]
  PROVE  AssetsInv'
<1>1. RunFine(NoRun, sequence, history) /\ RunCodes(NoRun) = {} /\ NoRun.number = 0
  BY NoRunFine
<1> QED BY <1>1, QuietRun DEF Over

\* Nothing but the runs changes.
RegisterKept == UNCHANGED <<register, history, sequence, requests, overlap>>

LEMMA KeptTypes ==
  ASSUME AssetsInv, RegisterKept
  PROVE  /\ UNCHANGED <<history, sequence, overlap>> /\ requests' \in 0..MaxRequests
         /\ register' \in [Asset -> AssetRow] /\ \A a \in Asset : register'[a].accumulated <= Cost[a]
  BY DEF RegisterKept, AssetsInv, AssetTypeOK

-----------------------------------------------------------------------------
(* The register.                                                           *)

LEMMA RegisterStep ==
  ASSUME AssetsInv, UNCHANGED <<history, sequence, run, overlap>>, requests' \in 0..MaxRequests,
         register' \in [Asset -> AssetRow], \A a \in Asset : register'[a].accumulated <= Cost[a]
  PROVE  AssetsInv'
<1>1. AssetTypeOK'
  BY DEF AssetsInv, AssetTypeOK
<1>2. \A s \in Session : RunFine(run'[s], sequence', history')
  BY RunFineOf
<1>3. \A s \in Session, t \in Session : s # t => Apart(run'[s], run'[t])
  BY DEF AssetsInv
<1>4. OneDepreciationPerMonth' /\ NumberedWithoutGap'
  BY DEF AssetsInv, OneDepreciationPerMonth, NumberedWithoutGap
<1> QED BY <1>1, <1>2, <1>3, <1>4 DEF AssetsInv

LEMMA RequestsCounted ==
  ASSUME AssetsInv, requests < MaxRequests, requests' = requests + 1
  PROVE  requests' \in 0..MaxRequests
  BY AssetAssumption DEF AssetsInv, AssetTypeOK

LEMMA CreateKeeps ==
  ASSUME AssetsInv, NEW a \in Asset, CreateAsset(a)
  PROVE  AssetsInv'
<1>1. PICK salvage \in Salvages, life \in Lives, status \in Statuses :
        register' = [register EXCEPT ![a] = [status |-> status, salvage |-> salvage,
                                             life |-> life, accumulated |-> 0]]
  BY DEF CreateAsset
<1> DEFINE row == [status |-> status, salvage |-> salvage, life |-> life, accumulated |-> 0]
<1>2. row \in AssetRow /\ row.accumulated <= Cost[a]
  BY AssetAssumption DEF AssetRow, Status
<1>3. register' \in [Asset -> AssetRow] /\ \A b \in Asset : register'[b].accumulated <= Cost[b]
  BY <1>1, <1>2 DEF AssetsInv, AssetTypeOK
<1>4. requests' \in 0..MaxRequests /\ UNCHANGED <<history, sequence, run, overlap>>
  BY RequestsCounted DEF CreateAsset
<1> QED BY <1>3, <1>4, RegisterStep

LEMMA UpdateKeeps ==
  ASSUME AssetsInv, NEW a \in Asset, UpdateAsset(a)
  PROVE  AssetsInv'
<1>1. register \in [Asset -> AssetRow] /\ \A b \in Asset : register[b].accumulated <= Cost[b]
  BY DEF AssetsInv, AssetTypeOK
<1>2. PICK salvage \in Salvages \cup {register[a].salvage}, life \in Lives \cup {register[a].life},
           status \in Statuses \cup {register[a].status} :
        register' = [register EXCEPT ![a].salvage = salvage, ![a].life = life, ![a].status = status]
  BY DEF UpdateAsset
<1>3. salvage \in Nat /\ life \in Nat \ {0} /\ status \in Status
  BY <1>1, AssetAssumption DEF AssetRow, Status
<1>4. register' \in [Asset -> AssetRow] /\ \A b \in Asset : register'[b].accumulated <= Cost[b]
  BY <1>1, <1>2, <1>3 DEF AssetRow
<1>5. requests' \in 0..MaxRequests /\ UNCHANGED <<history, sequence, run, overlap>>
  BY RequestsCounted DEF UpdateAsset
<1> QED BY <1>4, <1>5, RegisterStep

LEMMA DisposeKeeps ==
  ASSUME AssetsInv, NEW a \in Asset, DisposeAsset(a)
  PROVE  AssetsInv'
<1>1. register \in [Asset -> AssetRow] /\ \A b \in Asset : register[b].accumulated <= Cost[b]
  BY DEF AssetsInv, AssetTypeOK
<1>2. register' \in [Asset -> AssetRow] /\ \A b \in Asset : register'[b].accumulated <= Cost[b]
  BY <1>1 DEF DisposeAsset, AssetRow, Status
<1>3. requests' \in 0..MaxRequests /\ UNCHANGED <<history, sequence, run, overlap>>
  BY RequestsCounted DEF DisposeAsset
<1> QED BY <1>2, <1>3, RegisterStep

-----------------------------------------------------------------------------
(* The steps of a run.                                                     *)

LEMMA RequestKeeps ==
  ASSUME AssetsInv, NEW s \in Session, Request(s)
  PROVE  AssetsInv'
<1>1. PICK d \in Date, A \in {Asset} \cup {{a} : a \in Asset}, batch \in BOOLEAN :
        run' = [run EXCEPT ![s] = [NoRun EXCEPT !.pc = "begin", !.wanted = A, !.batch = batch,
                                                !.date = d, !.attempt = 1]]
  BY DEF Request
<1> DEFINE r == [NoRun EXCEPT !.pc = "begin", !.wanted = A, !.batch = batch, !.date = d, !.attempt = 1]
<1>2. NoRun \in Run
  BY NoRunFine DEF RunFine, Doing
<1>3. r \in Run /\ r.pc = "begin" /\ r.date = d /\ r.made = {} /\ r.number = 0
  <2>1. A \subseteq Asset /\ d \in Nat /\ 1 \in 0..MaxAttempts
    BY AssetAssumption
  <2>2. r \in Run
    BY <1>2, <2>1 DEF Run
  <2>3. NoRun.made = {} /\ NoRun.number = 0
    BY DEF NoRun
  <2> QED BY <1>2, <2>2, <2>3 DEF Run
<1> HIDE DEF r
<1>4. RunCodes(r) = {}
  BY <1>3 DEF RunCodes
<1>5. RunFine(r, sequence, history)
  BY <1>3, <1>4 DEF RunFine, Doing, Numbers, NotIn
<1>6. /\ UNCHANGED <<history, sequence, overlap>> /\ requests' \in 0..MaxRequests
      /\ register' \in [Asset -> AssetRow] /\ \A a \in Asset : register'[a].accumulated <= Cost[a]
  BY RequestsCounted DEF Request, AssetsInv, AssetTypeOK
<1>7. run' = [run EXCEPT ![s] = r]
  BY <1>1 DEF r
<1> QED BY <1>3, <1>4, <1>5, <1>6, <1>7, QuietRun

LEMMA BeginKeeps ==
  ASSUME AssetsInv, NEW s \in Session, Begin(s)
  PROVE  AssetsInv'
<1> DEFINE todo == IF run[s].batch THEN InBatch(s) ELSE run[s].wanted
           r == [run[s] EXCEPT !.pc = "asset", !.seen = register, !.late = {}, !.todo = todo]
<1>1. RunFine(run[s], sequence, history) /\ run[s] \in Run /\ run[s].pc = "begin"
  BY RunFineOf DEF Begin
<1>2. run' = [run EXCEPT ![s] = r] /\ RegisterKept
  BY DEF Begin, RegisterKept, AssetsInv, AssetTypeOK
<1>3. /\ r \in Run /\ r.pc = "asset" /\ r.date = run[s].date /\ r.made = {} /\ r.number = 0
  <2>1. todo \subseteq Asset /\ register \in [Asset -> AssetRow]
    BY <1>1 DEF InBatch, Run, AssetsInv, AssetTypeOK
  <2> HIDE DEF todo
  <2>2. run[s].made = {} /\ run[s].number = 0
    BY <1>1 DEF RunFine, Doing
  <2>3. r \in Run
    BY <1>1, <2>1 DEF Run
  <2> QED BY <1>1, <2>2, <2>3 DEF Run
<1> HIDE DEF r
<1>4. RunCodes(r) = {}
  BY <1>3 DEF RunCodes
<1>5. RunFine(r, sequence, history)
  BY <1>1, <1>3, <1>4 DEF RunFine, Doing, Numbers, NotIn
<1> QED BY <1>2, <1>3, <1>4, <1>5, KeptTypes, QuietRun

LEMMA RefusedKeeps ==
  ASSUME AssetsInv, NEW s \in Session, Refused(s)
  PROVE  AssetsInv'
<1>1. Over(s) /\ RegisterKept
  BY DEF Refused, RegisterKept
<1> QED BY <1>1, KeptTypes, OverKeeps

LEMMA PassesKeeps ==
  ASSUME AssetsInv, NEW s \in Session, Passes(s)
  PROVE  AssetsInv'
<1> DEFINE a == NextAsset(s)
           r == [run[s] EXCEPT !.todo = run[s].todo \ {a}]
<1>1. /\ RunFine(run[s], sequence, history) /\ run[s] \in Run /\ run[s].pc = "asset"
      /\ a \in Asset
  BY RunFineOf, NextAssetIn DEF Passes, Turn
<1>2. CASE Over(s) /\ register' = [register EXCEPT ![a].status = "FULLY_DEPRECIATED"]
  <2>1. register \in [Asset -> AssetRow] /\ \A b \in Asset : register[b].accumulated <= Cost[b]
    BY DEF AssetsInv, AssetTypeOK
  <2>2. register' \in [Asset -> AssetRow] /\ \A b \in Asset : register'[b].accumulated <= Cost[b]
    BY <1>1, <1>2, <2>1 DEF AssetRow, Status
  <2>3. UNCHANGED <<history, sequence, overlap>> /\ requests' \in 0..MaxRequests
    BY DEF Passes, AssetsInv, AssetTypeOK
  <2> QED BY <1>2, <2>2, <2>3, OverKeeps
<1>3. CASE run' = [run EXCEPT ![s].todo = @ \ {a}] /\ UNCHANGED register
  <2>1. run' = [run EXCEPT ![s] = r] /\ RegisterKept
    BY <1>3 DEF Passes, RegisterKept
  <2>2. /\ r \in Run /\ r.pc = "asset" /\ r.date = run[s].date /\ r.made = run[s].made
        /\ r.number = run[s].number /\ r.todo \subseteq run[s].todo
    BY <1>1 DEF Run
  <2> HIDE DEF r
  <2>3. RunCodes(r) = RunCodes(run[s])
    BY <1>1, <2>2 DEF RunCodes
  <2>4. RunFine(r, sequence, history)
    BY <1>1, <2>2, <2>3 DEF RunFine, Doing, Numbers, NotIn
  <2> QED BY <2>1, <2>2, <2>3, <2>4, KeptTypes, QuietRun
<1> QED BY <1>2, <1>3 DEF Passes

LEMMA ChargesKeeps ==
  ASSUME AssetsInv, NEW s \in Session, Charges(s)
  PROVE  AssetsInv'
<1> DEFINE r == [run[s] EXCEPT !.pc = "inserting"]
<1>1. /\ RunFine(run[s], sequence, history) /\ run[s] \in Run /\ run[s].pc = "asset"
      /\ run[s].todo # {}
  BY RunFineOf DEF Charges, Turn
<1>6. Due(run[s]) > 0
  BY DEF Charges, Due, NextAsset, Least
<1>2. run' = [run EXCEPT ![s] = r] /\ RegisterKept
  BY DEF Charges, RegisterKept
<1>3. /\ r \in Run /\ r.pc = "inserting" /\ r.date = run[s].date /\ r.made = run[s].made
      /\ r.number = run[s].number /\ r.todo = run[s].todo /\ r.seen = run[s].seen
  BY <1>1 DEF Run
<1> HIDE DEF r
<1>4. RunCodes(r) = RunCodes(run[s])
  BY <1>1, <1>3 DEF RunCodes
<1>7. Due(r) = Due(run[s])
  BY <1>3 DEF Due
<1>5. RunFine(r, sequence, history)
  BY <1>1, <1>3, <1>4, <1>6, <1>7 DEF RunFine, Doing, Numbers, NotIn
<1> QED BY <1>2, <1>3, <1>4, <1>5, KeptTypes, QuietRun

\* The unique index: the code is nobody else's, and not in the journal.
LEMMA InsertKeeps ==
  ASSUME AssetsInv, NEW s \in Session, InsertTransaction(s)
  PROVE  AssetsInv'
<1> DEFINE r == [run[s] EXCEPT !.pc = "posting"]
           code == Code(Least(run[s].todo), run[s].date)
<1>1. /\ RunFine(run[s], sequence, history) /\ run[s] \in Run /\ run[s].pc = "inserting"
      /\ RegisterKept
  BY RunFineOf DEF InsertTransaction, RegisterKept
<1>2. CASE Over(s)
  BY <1>1, <1>2, KeptTypes, OverKeeps
<1>3. CASE /\ run' = [run EXCEPT ![s].pc = "posting"]
           /\ ~\E h \in history : Code(h.asset, h.date) = code
  <2>1. run' = [run EXCEPT ![s] = r]
    BY <1>3
  <2>2. /\ r \in Run /\ r.pc = "posting" /\ r.date = run[s].date /\ r.made = run[s].made
        /\ r.number = run[s].number /\ r.todo = run[s].todo /\ r.seen = run[s].seen
    BY <1>1 DEF Run
  <2> HIDE DEF r
  <2>3. RunCodes(r) = RunCodes(run[s]) \cup {code} /\ Due(r) = Due(run[s])
    BY <1>1, <2>2 DEF RunCodes, Due
  <2>4. RunFine(r, sequence, history)
    BY <1>1, <1>3, <2>2, <2>3 DEF RunFine, Doing, Numbers, NotIn
  <2>5. ASSUME NEW t \in Session \ {s}
        PROVE  Apart(r, run[t])
    <3>1. code \notin RunCodes(run[t])
      BY CodesAreRunCodes DEF InsertTransaction, CodeTaken, NextAsset, Least
    <3>2. Apart(run[s], run[t])
      BY DEF AssetsInv
    <3> QED BY <2>2, <2>3, <3>1, <3>2 DEF Apart
  <2> QED BY <1>1, <2>1, <2>4, <2>5, KeptTypes, OwnRun
<1> QED BY <1>2, <1>3 DEF InsertTransaction, NextAsset, Least

\* The row of the sequence: the number follows the run's own, or the committed one.
LEMMA NextNumberFollows ==
  ASSUME AssetsInv, NEW s \in Session
  PROVE  /\ NextNumber(s) \in Nat /\ NextNumber(s) > sequence
         /\ {x.number : x \in run[s].made} \cup {NextNumber(s)} = (sequence + 1)..NextNumber(s)
         /\ \A x \in run[s].made : x.number # NextNumber(s)
<1>1. /\ Numbers(run[s], sequence) /\ run[s].number \in Nat /\ sequence \in Nat
      /\ \A x \in run[s].made : x.number \in Nat
  BY RunFineOf DEF RunFine, Run, Record, AssetsInv, AssetTypeOK
<1>2. CASE run[s].number = 0
  BY <1>1, <1>2 DEF Numbers, NextNumber
<1>3. CASE run[s].number # 0
  <2> DEFINE taken == {x.number : x \in run[s].made}
  <2>1. taken = (sequence + 1)..run[s].number /\ run[s].number > sequence
    BY <1>1, <1>3 DEF Numbers
  <2>2. NextNumber(s) = run[s].number + 1
    BY <1>3 DEF NextNumber
  <2>3. \A x \in run[s].made : x.number \in taken
    OBVIOUS
  <2> HIDE DEF taken
  <2>4. taken \cup {NextNumber(s)} = (sequence + 1)..NextNumber(s)
    BY <1>1, <2>1, <2>2
  <2>5. \A x \in run[s].made : x.number # NextNumber(s)
    BY <1>1, <2>1, <2>2, <2>3
  <2> QED BY <1>1, <2>1, <2>2, <2>4, <2>5 DEF taken
<1> QED BY <1>2, <1>3

LEMMA PostEntryKeeps ==
  ASSUME AssetsInv, NEW s \in Session, PostEntry(s)
  PROVE  AssetsInv'
<1> DEFINE k == run[s]
           a == Least(k.todo)
           x == [asset |-> a, date |-> k.date, amount |-> Due(k),
                 after |-> k.seen[a].accumulated + Due(k), number |-> NextNumber(s)]
           r == [k EXCEPT !.pc = "asset", !.todo = k.todo \ {a}, !.number = NextNumber(s),
                          !.made = k.made \cup {x}]
<1>1. /\ RunFine(k, sequence, history) /\ k \in Run /\ k.pc = "posting" /\ RegisterKept
      /\ \A t \in Session \ {s} : run[t].number = 0
  BY RunFineOf DEF PostEntry, RegisterKept
<1>2. run' = [run EXCEPT ![s] = r]
  BY DEF PostEntry, NextAsset, Least, Due
<1>3. k.todo # {} /\ Due(k) > 0 /\ k.date \in Date
  BY <1>1 DEF RunFine, Doing
<1>4. a \in k.todo /\ a \in Asset
  BY <1>3, NextAssetIn
<1>5. k.seen[a] \in AssetRow
  BY <1>1, <1>4 DEF Run
<1>6. Due(k) \in Nat /\ k.seen[a].accumulated + Due(k) <= Cost[a] /\ k.seen[a].accumulated \in Nat
  BY <1>3, <1>4, <1>5, ChargeWithinCost DEF Due, AssetRow
<1>7. NextNumber(s) \in Nat
  BY NextNumberFollows
<1>8. /\ x \in Record /\ x.asset = a /\ x.date = k.date /\ x.after <= Cost[a]
      /\ x.number = NextNumber(s)
  BY <1>3, <1>4, <1>6, <1>7 DEF Record
<1> HIDE DEF x
<1>9. /\ r \in Run /\ r.pc = "asset" /\ r.date = k.date /\ r.made = k.made \cup {x}
      /\ r.number = NextNumber(s) /\ r.todo = k.todo \ {a}
  BY <1>1, <1>7, <1>8 DEF Run
<1> HIDE DEF r, a
<1>10. RunCodes(r) = RunCodes(k)
  <2>1. RunCodes(k) = {Code(y.asset, y.date) : y \in k.made} \cup {Code(a, k.date)}
    BY <1>1 DEF RunCodes, a
  <2>2. RunCodes(r) = {Code(y.asset, y.date) : y \in k.made \cup {x}}
    BY <1>9 DEF RunCodes
  <2> QED BY <1>8, <2>1, <2>2
<1>11. Doing(r)
  <2>1. \A y \in k.made : y.asset \notin k.todo /\ y.date = k.date /\ y.after <= Cost[y.asset]
    BY <1>1 DEF RunFine, Doing
  <2>2. \A y \in r.made : y.asset \notin r.todo /\ y.date = r.date /\ y.after <= Cost[y.asset]
    BY <1>8, <1>9, <2>1
  <2>3. \A y \in r.made, z \in r.made : y.asset = z.asset => y = z
    BY <1>1, <1>4, <1>8, <1>9, <2>1 DEF RunFine, Doing
  <2> QED BY <1>3, <1>9, <2>2, <2>3 DEF Doing
<1>12. Numbers(r, sequence)
  <2>1. \A y \in k.made : y.number # NextNumber(s)
    BY NextNumberFollows
  <2>2. \A y \in r.made, z \in r.made : y.number = z.number => y = z
    BY <1>1, <1>8, <1>9, <2>1 DEF RunFine, Numbers
  <2>3. {y.number : y \in r.made} = {y.number : y \in k.made} \cup {NextNumber(s)}
    BY <1>8, <1>9
  <2>4. {y.number : y \in r.made} = (sequence + 1)..NextNumber(s)
    BY <2>3, NextNumberFollows
  <2>5. sequence \in Nat /\ NextNumber(s) > sequence
    BY NextNumberFollows DEF AssetsInv, AssetTypeOK
  <2> QED BY <1>7, <1>9, <2>2, <2>4, <2>5 DEF Numbers
<1>13. RunFine(r, sequence, history)
  BY <1>1, <1>10, <1>11, <1>12 DEF RunFine, NotIn
<1>14. \A t \in Session \ {s} : Apart(r, run[t])
  BY <1>1, <1>10 DEF AssetsInv, Apart
<1> QED BY <1>1, <1>2, <1>13, <1>14, KeptTypes, OwnRun

LEMMA AbandonedKeeps ==
  ASSUME AssetsInv, NEW s \in Session, Abandoned(s)
  PROVE  AssetsInv'
<1>1. Over(s) /\ RegisterKept
  BY DEF Abandoned, RegisterKept
<1> QED BY <1>1, KeptTypes, OverKeeps

\* run_in_clean_transaction starts from an empty session.
LEMMA VictimKeeps ==
  ASSUME AssetsInv, NEW s \in Session, Victim(s)
  PROVE  AssetsInv'
<1> DEFINE r == [run[s] EXCEPT !.pc = "begin", !.attempt = run[s].attempt + 1, !.todo = {},
                               !.made = {}, !.number = 0]
<1>1. RunFine(run[s], sequence, history) /\ run[s] \in Run /\ RegisterKept
  BY RunFineOf DEF Victim, RegisterKept
<1>2. CASE run[s].attempt = MaxAttempts
  <2>1. Over(s)
    BY <1>2 DEF Victim, Over
  <2> QED BY <1>1, <2>1, KeptTypes, OverKeeps
<1>3. CASE run[s].attempt # MaxAttempts
  <2>1. run' = [run EXCEPT ![s] = r]
    BY <1>3 DEF Victim, LeftPending
  <2>2. run[s].pc # "idle"
    <3>1. PICK t \in Session : WaitsFor(s, t)
      BY DEF Victim, InDeadlock
    <3> QED BY <3>1 DEF WaitsFor
  <2>3. run[s].date \in Date
    BY <1>1, <2>2 DEF RunFine, Doing
  <2>4. r \in Run /\ r.pc = "begin" /\ r.date = run[s].date /\ r.made = {} /\ r.number = 0
    <3>1. run[s].attempt + 1 \in 0..MaxAttempts
      BY <1>1, <1>3, AssetAssumption DEF Run
    <3> QED BY <1>1, <3>1 DEF Run
  <2> HIDE DEF r
  <2>5. RunCodes(r) = {}
    BY <2>4 DEF RunCodes
  <2>6. RunFine(r, sequence, history)
    BY <2>3, <2>4, <2>5 DEF RunFine, Doing, Numbers, NotIn
  <2> QED BY <1>1, <2>1, <2>4, <2>5, <2>6, KeptTypes, QuietRun
<1> QED BY <1>2, <1>3

-----------------------------------------------------------------------------
(* The commit of a run.                                                    *)

LEMMA CommittedRegister ==
  ASSUME AssetsInv, NEW s \in Session, Commit(s)
  PROVE  register' \in [Asset -> AssetRow] /\ \A a \in Asset : register'[a].accumulated <= Cost[a]
<1> DEFINE made == run[s].made
           rec(a) == CHOOSE r \in made : r.asset = a
           new(a) == IF a \in Written(s) THEN RowAfter(register[a], a, rec(a), run[s].seen[a])
                     ELSE register[a]
<1>1. /\ register \in [Asset -> AssetRow] /\ \A a \in Asset : register[a].accumulated <= Cost[a]
      /\ made \subseteq Record /\ \A r \in made : r.after <= Cost[r.asset]
  BY RunFineOf DEF AssetsInv, AssetTypeOK, RunFine, Doing, Run
<1>2. ASSUME NEW a \in Asset
      PROVE  new(a) \in AssetRow /\ new(a).accumulated <= Cost[a]
  <2>1. CASE a \in Written(s)
    <3>1. rec(a) \in made /\ rec(a).asset = a
      BY <2>1 DEF Written
    <3> HIDE DEF rec
    <3>2. rec(a).after \in Nat /\ rec(a).after <= Cost[a]
      BY <1>1, <3>1 DEF Record
    <3>3. \A row \in AssetRow : /\ RowAfter(row, a, rec(a), run[s].seen[a]) \in AssetRow
                                /\ RowAfter(row, a, rec(a), run[s].seen[a]).accumulated = rec(a).after
      BY <3>2 DEF RowAfter, AssetRow, Status
    <3> QED BY <1>1, <2>1, <3>2, <3>3
  <2>2. CASE a \notin Written(s)
    BY <1>1, <2>2
  <2> QED BY <2>1, <2>2
<1>3. register' = [a \in Asset |-> new(a)]
  BY DEF Commit
<1> HIDE DEF new
<1> QED BY <1>2, <1>3

\* What the others are doing does not change with the commit.
LEMMA CommittedRuns ==
  ASSUME AssetsInv, NEW s \in Session, Commit(s), NEW t \in Session \ {s}
  PROVE  /\ run'[t] \in Run /\ run'[t].pc = run[t].pc /\ run'[t].date = run[t].date
         /\ run'[t].todo = run[t].todo /\ run'[t].seen = run[t].seen
         /\ run'[t].made = run[t].made /\ run'[t].number = run[t].number
<1>1. run[t] \in Run /\ Written(s) \subseteq Asset
  BY RunFineOf DEF Written, Run, Record
<1>2. run'[t] = [run[t] EXCEPT !.late = run[t].late \cup Written(s)]
  BY DEF Commit
<1> QED BY <1>1, <1>2 DEF Run

LEMMA CommittedMonths ==
  ASSUME AssetsInv, NEW s \in Session, Commit(s)
  PROVE  OneDepreciationPerMonth'
<1> DEFINE made == run[s].made
           code(x) == Code(x.asset, x.date)
<1>1. /\ history' = history \cup made
      /\ \A x \in made : code(x) \in RunCodes(run[s])
      /\ \A h \in history : code(h) \notin RunCodes(run[s])
  BY RunFineOf DEF Commit, RunCodes, RunFine, NotIn
<1>2. \A x \in made, y \in made : x.asset = y.asset => x = y
  BY RunFineOf DEF RunFine, Doing
<1>3. \A x, y : x.asset = y.asset /\ MonthOf[x.date] = MonthOf[y.date] => code(x) = code(y)
  BY DEF Code
<1>4. \A h \in history, k \in history :
        h.asset = k.asset /\ MonthOf[h.date] = MonthOf[k.date] => h = k
  BY DEF AssetsInv, OneDepreciationPerMonth
<1> HIDE DEF code
<1>5. ASSUME NEW h \in history \cup made, NEW k \in history \cup made,
             h.asset = k.asset, MonthOf[h.date] = MonthOf[k.date]
      PROVE  h = k
  <2>1. code(h) = code(k)
    BY <1>3, <1>5
  <2>2. CASE h \in history /\ k \in history
    BY <1>4, <1>5, <2>2
  <2>3. CASE h \in made /\ k \in made
    BY <1>2, <1>5, <2>3
  <2>4. CASE h \in made /\ k \in history
    BY <1>1, <2>1, <2>4
  <2>5. CASE h \in history /\ k \in made
    BY <1>1, <2>1, <2>5
  <2> QED BY <2>2, <2>3, <2>4, <2>5
<1> QED BY <1>1, <1>5 DEF OneDepreciationPerMonth

LEMMA CommittedNumbers ==
  ASSUME AssetsInv, NEW s \in Session, Commit(s)
  PROVE  NumberedWithoutGap' /\ sequence' \in Nat
<1> DEFINE made == run[s].made
           q == run[s].number
<1>1. /\ history' = history \cup made /\ sequence' = IF q = 0 THEN sequence ELSE q
      /\ sequence \in Nat /\ q \in Nat
      /\ Numbers(run[s], sequence) /\ NumberedWithoutGap
  BY RunFineOf DEF Commit, RunFine, Run, AssetsInv, AssetTypeOK
<1>2. CASE q = 0
  <2>1. history' = history /\ sequence' = sequence
    BY <1>1, <1>2 DEF Numbers
  <2> QED BY <1>1, <2>1 DEF NumberedWithoutGap
<1>3. CASE q # 0
  <2> DEFINE old == {h.number : h \in history}
             new == {x.number : x \in made}
  <2>1. old = 1..sequence /\ new = (sequence + 1)..q /\ q > sequence /\ sequence' = q
    BY <1>1, <1>3 DEF Numbers, NumberedWithoutGap
  <2>2. {h.number : h \in history \cup made} = old \cup new
    OBVIOUS
  <2>3. /\ \A h \in history : h.number \in old
        /\ \A x \in made : x.number \in new
    OBVIOUS
  <2> HIDE DEF old, new
  <2>4. old \cup new = 1..q
    BY <1>1, <2>1
  <2>5. \A h \in history, x \in made : h.number # x.number
    BY <1>1, <2>1, <2>3
  <2>6. \A h \in history \cup made, k \in history \cup made : h.number = k.number => h = k
    BY <1>1, <2>5 DEF Numbers, NumberedWithoutGap
  <2> QED BY <1>1, <2>1, <2>2, <2>4, <2>6 DEF NumberedWithoutGap
<1> QED BY <1>2, <1>3

LEMMA CommitKeeps ==
  ASSUME AssetsInv, NEW s \in Session, Commit(s)
  PROVE  AssetsInv'
<1>1. run'[s] = NoRun /\ run' \in [Session -> Run]
  <2>1. run'[s] = NoRun /\ NoRun \in Run
    BY NoRunFine DEF Commit, RunFine, Doing
  <2>2. \A t \in Session : run'[t] \in Run
    BY <2>1, CommittedRuns
  <2>3. run' = [t \in Session |-> run'[t]]
    BY DEF Commit
  <2> QED BY <2>1, <2>2, <2>3
<1>2. \A t \in Session \ {s} : RunCodes(run'[t]) = RunCodes(run[t])
  BY CommittedRuns DEF RunCodes
<1>3. AssetTypeOK'
  <2>1. history' \subseteq Record /\ overlap' \subseteq Asset /\ requests' \in 0..MaxRequests
    BY RunFineOf DEF Commit, Run, AssetsInv, AssetTypeOK
  <2> QED BY <1>1, <2>1, CommittedRegister, CommittedNumbers DEF AssetTypeOK
<1>4. ASSUME NEW t \in Session
      PROVE  RunFine(run'[t], sequence', history')
  <2>1. CASE t = s
    BY <1>1, <2>1, NoRunFine
  <2>2. CASE t # s
    <3>1. RunFine(run[t], sequence, history) /\ Apart(run[s], run[t])
      BY <2>2, RunFineOf DEF AssetsInv
    <3>2. Doing(run'[t])
      BY <2>2, <3>1, CommittedRuns DEF RunFine, Doing, Due
    <3>3. Numbers(run'[t], sequence')
      <4>1. run'[t].made = run[t].made /\ run'[t].number = run[t].number
        BY <2>2, CommittedRuns
      <4>2. CASE run[s].number = 0
        <5>1. sequence' = sequence
          BY <4>2 DEF Commit
        <5> QED BY <3>1, <4>1, <5>1 DEF RunFine, Numbers
      <4>3. CASE run[s].number # 0
        <5>1. run[t].number = 0
          BY <3>1, <4>3 DEF Apart
        <5> QED BY <3>1, <4>1, <5>1 DEF RunFine, Numbers
      <4> QED BY <4>2, <4>3
    <3>4. NotIn(run'[t], history')
      <4>1. \A x \in run[s].made : Code(x.asset, x.date) \in RunCodes(run[s])
        BY DEF RunCodes
      <4>2. history' = history \cup run[s].made
        BY DEF Commit
      <4> QED BY <1>2, <2>2, <3>1, <4>1, <4>2 DEF Apart, RunFine, NotIn
    <3> QED BY <3>2, <3>3, <3>4 DEF RunFine
  <2> QED BY <2>1, <2>2
<1>5. ASSUME NEW t \in Session, NEW u \in Session, t # u
      PROVE  Apart(run'[t], run'[u])
  <2>1. RunCodes(NoRun) = {} /\ NoRun.number = 0
    BY NoRunFine
  <2>2. CASE t = s \/ u = s
    BY <1>1, <2>1, <2>2 DEF Apart
  <2>3. CASE t # s /\ u # s
    <3>1. Apart(run[t], run[u])
      BY <1>5 DEF AssetsInv
    <3> QED BY <1>2, <2>3, <3>1, CommittedRuns DEF Apart
  <2> QED BY <2>2, <2>3
<1> QED BY <1>3, <1>4, <1>5, CommittedMonths, CommittedNumbers DEF AssetsInv

-----------------------------------------------------------------------------
(* The theorems.                                                           *)

LEMMA AssetsInvInit == AssetsInit => AssetsInv
<1> SUFFICES ASSUME AssetsInit PROVE AssetsInv
  OBVIOUS
<1>1. \A s \in Session : run[s] = NoRun
  BY DEF AssetsInit
<1>2. /\ Absent \in AssetRow /\ Absent.accumulated = 0
      /\ RunFine(NoRun, sequence, history) /\ RunCodes(NoRun) = {} /\ NoRun.number = 0
  BY NoRunFine DEF Absent, AssetRow, Status
<1>3. AssetTypeOK
  BY <1>2, AssetAssumption DEF AssetsInit, AssetTypeOK, RunFine, Doing
<1>4. \A s \in Session, t \in Session : s # t => Apart(run[s], run[t])
  BY <1>1, <1>2 DEF Apart
<1>5. OneDepreciationPerMonth /\ NumberedWithoutGap
  BY DEF AssetsInit, OneDepreciationPerMonth, NumberedWithoutGap
<1> QED BY <1>1, <1>2, <1>3, <1>4, <1>5 DEF AssetsInv

LEMMA AssetsInvStep == AssetsInv /\ [AssetsNext]_assetVars => AssetsInv'
<1> SUFFICES ASSUME AssetsInv, [AssetsNext]_assetVars PROVE AssetsInv'
  OBVIOUS
<1>1. CASE UNCHANGED assetVars
  <2>1. UNCHANGED <<history, sequence, run, overlap>> /\ RegisterKept
    BY <1>1 DEF assetVars, RegisterKept
  <2> QED BY <2>1, KeptTypes, RegisterStep
<1>2. ASSUME NEW a \in Asset, CreateAsset(a) \/ UpdateAsset(a) \/ DisposeAsset(a)
      PROVE  AssetsInv'
  BY <1>2, CreateKeeps, UpdateKeeps, DisposeKeeps
<1>3. ASSUME NEW s \in Session, Request(s) \/ RunStep(s) \/ Abandoned(s)
      PROVE  AssetsInv'
  BY <1>3, RequestKeeps, AbandonedKeeps, BeginKeeps, RefusedKeeps, PassesKeeps, ChargesKeeps,
     InsertKeeps, PostEntryKeeps, CommitKeeps, VictimKeeps DEF RunStep
<1> QED BY <1>1, <1>2, <1>3 DEF AssetsNext

\* Every variable of the register and its runs holds what its column or local
\* variable may hold, and no asset is depreciated by more than it cost.
THEOREM AssetTypes == AssetsSpec => []AssetTypeOK
<1>1. AssetsInv => AssetTypeOK
  BY DEF AssetsInv
<1> QED BY <1>1, AssetsInvInit, AssetsInvStep, PTL DEF AssetsSpec

\* The unique transaction code is what keeps two runs, single or batch, from
\* depreciating an asset twice for one month.
THEOREM OncePerMonth == AssetsSpec => []OneDepreciationPerMonth
<1>1. AssetsInv => OneDepreciationPerMonth
  BY DEF AssetsInv
<1> QED BY <1>1, AssetsInvInit, AssetsInvStep, PTL DEF AssetsSpec

\* allocate_next numbers the journal entries without gap or repetition,
\* whatever is rolled back, abandoned or tried again.
THEOREM NoGaps == AssetsSpec => []NumberedWithoutGap
<1>1. AssetsInv => NumberedWithoutGap
  BY DEF AssetsInv
<1> QED BY <1>1, AssetsInvInit, AssetsInvStep, PTL DEF AssetsSpec

-----------------------------------------------------------------------------
(* The register and the journal.                                           *)

\* What a run has read of an asset that nobody has written since is still
\* what the register says of it, and is never more than its records add up to;
\* and no asset disappears from the register.
Reading(r, reg, H) ==
  r.pc \in {"asset", "inserting", "posting"} =>
    \A a \in Asset :
      /\ a \notin r.late => r.seen[a].accumulated = reg[a].accumulated
      /\ r.seen[a].accumulated <= DepreciationIn(H, a)
      /\ r.seen[a].status # "ABSENT" => reg[a].status # "ABSENT"

\* What a run will write is what it has read and the amount it charges.
Writing(r) ==
  /\ IsFiniteSet(r.made)
  /\ \A x \in r.made : /\ x.after = r.seen[x.asset].accumulated + x.amount
                       /\ r.seen[x.asset].status # "ABSENT"

JournalInv ==
  /\ IsFiniteSet(history)
  /\ \A a \in Asset : register[a].status = "ABSENT" => register[a].accumulated = 0
  /\ \A s \in Session : Reading(run[s], register, history) /\ Writing(run[s])
  /\ RegisterMatchesHistory

LEMMA DepreciationType ==
  ASSUME AssetsInv, JournalInv, NEW a \in Asset
  PROVE  DepreciationIn(history, a) \in Int
<1> DEFINE H == {h \in history : h.asset = a}
           f == [h \in H |-> h.amount]
<1>1. IsFiniteSet(H) /\ \A h \in H : h.amount \in Int
  BY FS_Subset DEF JournalInv, AssetsInv, AssetTypeOK, Record
<1>2. \A h \in H : f[h] \in Int
  BY <1>1
<1>3. DepreciationIn(history, a) = SumFunctionOnSet(f, H)
  BY DEF DepreciationIn, Charged
<1> HIDE DEF f, H
<1> QED BY <1>1, <1>2, <1>3, SumType

LEMMA ChargedMore ==
  ASSUME NEW H, IsFiniteSet(H), H \subseteq Record, NEW x \in Record, x \notin H
  PROVE  Charged(H \cup {x}) = Charged(H) + x.amount
<1> DEFINE f == [h \in H \cup {x} |-> h.amount]
           g == [h \in H |-> h.amount]
<1>1. \A h \in H \cup {x} : f[h] \in Int
  BY DEF Record
<1>2. f[x] = x.amount /\ x.amount \in Int /\ \A h \in H : f[h] = g[h] /\ g[h] \in Int
  BY DEF Record
<1>3. Charged(H \cup {x}) = SumFunctionOnSet(f, H \cup {x}) /\ Charged(H) = SumFunctionOnSet(g, H)
  BY DEF Charged
<1> HIDE DEF f, g
<1>4. SumFunctionOnSet(f, H \cup {x}) = f[x] + SumFunctionOnSet(f, H)
  BY <1>1, SumAdd
<1>5. SumFunctionOnSet(f, H) = SumFunctionOnSet(g, H)
  BY <1>2, SumSame
<1>6. SumFunctionOnSet(g, H) \in Int
  BY <1>2, SumType
<1> QED BY <1>2, <1>3, <1>4, <1>5, <1>6

\* A step that writes no depreciation.
Uncharged ==
  /\ UNCHANGED <<history, overlap>>
  /\ \A a \in Asset : /\ register'[a].accumulated = register[a].accumulated
                      /\ register'[a].status = "ABSENT" => register[a].status = "ABSENT"

LEMMA RunsKept ==
  ASSUME JournalInv, Uncharged,
         \A s \in Session : run'[s] # run[s] => Reading(run'[s], register, history) /\ Writing(run'[s])
  PROVE  JournalInv'
<1>1. IsFiniteSet(history')
  BY DEF JournalInv, Uncharged
<1>2. \A a \in Asset : register'[a].status = "ABSENT" => register'[a].accumulated = 0
  BY DEF JournalInv, Uncharged
<1>3. \A s \in Session : Reading(run'[s], register', history') /\ Writing(run'[s])
  <2> TAKE s \in Session
  <2>1. Reading(run'[s], register, history) /\ Writing(run'[s])
    BY DEF JournalInv
  <2>2. \A a \in Asset : DepreciationIn(history', a) = DepreciationIn(history, a)
    BY DEF Uncharged, DepreciationIn
  <2> QED BY <2>1, <2>2 DEF Reading, Writing, Uncharged
<1>4. RegisterMatchesHistory'
  BY DEF JournalInv, RegisterMatchesHistory, DepreciationIn, Uncharged
<1> QED BY <1>1, <1>2, <1>3, <1>4 DEF JournalInv

LEMMA OneRunKept ==
  ASSUME AssetsInv, JournalInv, Uncharged, NEW s \in Session, NEW r,
         run' = [run EXCEPT ![s] = r], Reading(r, register, history), Writing(r)
  PROVE  JournalInv'
<1>1. \A t \in Session : run'[t] = IF t = s THEN r ELSE run[t]
  BY DEF AssetsInv, AssetTypeOK
<1> QED BY <1>1, RunsKept

LEMMA NoRunReads == \A reg, H : Reading(NoRun, reg, H) /\ Writing(NoRun)
<1>1. NoRun.pc = "idle" /\ NoRun.made = {}
  BY DEF NoRun
<1> QED BY <1>1, FS_EmptySet DEF Reading, Writing

LEMMA EndedRun ==
  ASSUME AssetsInv, JournalInv, Uncharged, NEW s \in Session, Over(s)
  PROVE  JournalInv'
  BY NoRunReads, OneRunKept DEF Over

LEMMA KeptUncharged == RegisterKept => Uncharged
  BY DEF RegisterKept, Uncharged

LEMMA RegisterEdited ==
  ASSUME AssetsInv, JournalInv, NEW a \in Asset, CreateAsset(a) \/ UpdateAsset(a) \/ DisposeAsset(a)
  PROVE  JournalInv'
<1>1. register \in [Asset -> AssetRow] /\ UNCHANGED <<history, overlap, run>>
  BY DEF AssetsInv, AssetTypeOK, CreateAsset, UpdateAsset, DisposeAsset
<1>2. CASE CreateAsset(a)
  <2>1. PICK salvage \in Salvages, life \in Lives, status \in Statuses :
          register' = [register EXCEPT ![a] = [status |-> status, salvage |-> salvage,
                                               life |-> life, accumulated |-> 0]]
    BY <1>2 DEF CreateAsset
  <2>2. /\ \A b \in Asset \ {a} : register'[b] = register[b]
        /\ register'[a].accumulated = 0 /\ register[a].accumulated = 0
        /\ register[a].status = "ABSENT"
    BY <1>1, <1>2, <2>1 DEF CreateAsset, JournalInv
  <2> QED BY <1>1, <2>2, RunsKept DEF Uncharged
<1>3. CASE UpdateAsset(a)
  <2>1. PICK salvage \in Salvages \cup {register[a].salvage}, life \in Lives \cup {register[a].life},
             status \in Statuses \cup {register[a].status} :
          register' = [register EXCEPT ![a].salvage = salvage, ![a].life = life, ![a].status = status]
    BY <1>3 DEF UpdateAsset
  <2>2. status # "ABSENT"
    BY <1>3, AssetAssumption DEF UpdateAsset
  <2>3. /\ \A b \in Asset \ {a} : register'[b] = register[b]
        /\ register'[a].accumulated = register[a].accumulated
        /\ register'[a].status = status
    BY <1>1, <2>1 DEF AssetRow
  <2> QED BY <1>1, <2>2, <2>3, RunsKept DEF Uncharged
<1>4. CASE DisposeAsset(a)
  <2>1. /\ \A b \in Asset \ {a} : register'[b] = register[b]
        /\ register'[a].accumulated = register[a].accumulated
        /\ register'[a].status = "DISPOSED"
    BY <1>1, <1>4 DEF DisposeAsset, AssetRow
  <2> QED BY <1>1, <2>1, RunsKept DEF Uncharged
<1> QED BY <1>2, <1>3, <1>4

\* A run that goes on with what it has read and made.
LEMMA SameReading ==
  ASSUME NEW s \in Session, JournalInv, run[s].pc \in {"asset", "inserting", "posting"},
         NEW r, r.seen = run[s].seen, r.late = run[s].late, r.made = run[s].made
  PROVE  Reading(r, register, history) /\ Writing(r)
  BY DEF JournalInv, Reading, Writing

LEMMA RequestReads ==
  ASSUME AssetsInv, JournalInv, NEW s \in Session, Request(s)
  PROVE  JournalInv'
<1>1. PICK d \in Date, A \in {Asset} \cup {{a} : a \in Asset}, batch \in BOOLEAN :
        run' = [run EXCEPT ![s] = [NoRun EXCEPT !.pc = "begin", !.wanted = A, !.batch = batch,
                                                !.date = d, !.attempt = 1]]
  BY DEF Request
<1> DEFINE r == [NoRun EXCEPT !.pc = "begin", !.wanted = A, !.batch = batch, !.date = d, !.attempt = 1]
<1>2. r.pc = "begin" /\ r.made = {}
  BY DEF NoRun
<1>3. run' = [run EXCEPT ![s] = r]
  BY <1>1
<1> HIDE DEF r
<1>4. Reading(r, register, history) /\ Writing(r)
  BY <1>2, FS_EmptySet DEF Reading, Writing
<1>5. Uncharged
  BY DEF Request, Uncharged
<1> QED BY <1>3, <1>4, <1>5, OneRunKept

LEMMA BeginReads ==
  ASSUME AssetsInv, JournalInv, NEW s \in Session, Begin(s)
  PROVE  JournalInv'
<1> DEFINE todo == IF run[s].batch THEN InBatch(s) ELSE run[s].wanted
           r == [run[s] EXCEPT !.pc = "asset", !.seen = register, !.late = {}, !.todo = todo]
<1>1. RunFine(run[s], sequence, history) /\ run[s] \in Run /\ run[s].pc = "begin"
  BY RunFineOf DEF Begin
<1>2. run' = [run EXCEPT ![s] = r] /\ Uncharged
  BY DEF Begin, Uncharged, AssetsInv, AssetTypeOK
<1> HIDE DEF todo
<1>3. r.seen = register /\ r.made = {}
  BY <1>1 DEF Run, RunFine, Doing
<1> HIDE DEF r
<1>4. Reading(r, register, history) /\ Writing(r)
  BY <1>3, FS_EmptySet DEF JournalInv, RegisterMatchesHistory, Reading, Writing
<1> QED BY <1>2, <1>4, OneRunKept

LEMMA PassesReads ==
  ASSUME AssetsInv, JournalInv, NEW s \in Session, Passes(s)
  PROVE  JournalInv'
<1> DEFINE a == NextAsset(s)
           r == [run[s] EXCEPT !.todo = run[s].todo \ {a}]
<1>1. run[s] \in Run /\ run[s].pc = "asset" /\ a \in Asset
  BY RunFineOf, NextAssetIn DEF Passes, Turn
<1>2. CASE Over(s) /\ register' = [register EXCEPT ![a].status = "FULLY_DEPRECIATED"]
  <2>1. register \in [Asset -> AssetRow] /\ UNCHANGED <<history, overlap>>
    BY DEF AssetsInv, AssetTypeOK, Passes
  <2>2. /\ \A b \in Asset \ {a} : register'[b] = register[b]
        /\ register'[a].accumulated = register[a].accumulated
        /\ register'[a].status = "FULLY_DEPRECIATED"
    BY <1>1, <1>2, <2>1 DEF AssetRow
  <2>3. Uncharged
    BY <2>1, <2>2 DEF Uncharged
  <2> QED BY <1>2, <2>3, EndedRun
<1>3. CASE run' = [run EXCEPT ![s].todo = @ \ {a}] /\ UNCHANGED register
  <2>1. run' = [run EXCEPT ![s] = r] /\ Uncharged
    BY <1>3 DEF Passes, Uncharged
  <2>2. r.seen = run[s].seen /\ r.late = run[s].late /\ r.made = run[s].made
    BY <1>1 DEF Run
  <2> HIDE DEF r
  <2> QED BY <1>1, <2>1, <2>2, SameReading, OneRunKept
<1> QED BY <1>2, <1>3 DEF Passes

LEMMA ChargesReads ==
  ASSUME AssetsInv, JournalInv, NEW s \in Session, Charges(s)
  PROVE  JournalInv'
<1> DEFINE r == [run[s] EXCEPT !.pc = "inserting"]
<1>1. run[s] \in Run /\ run[s].pc = "asset" /\ RegisterKept
  BY RunFineOf DEF Charges, Turn, RegisterKept
<1>2. run' = [run EXCEPT ![s] = r]
  BY DEF Charges
<1>3. r.seen = run[s].seen /\ r.late = run[s].late /\ r.made = run[s].made
  BY <1>1 DEF Run
<1> HIDE DEF r
<1> QED BY <1>1, <1>2, <1>3, KeptUncharged, SameReading, OneRunKept

LEMMA InsertReads ==
  ASSUME AssetsInv, JournalInv, NEW s \in Session, InsertTransaction(s)
  PROVE  JournalInv'
<1> DEFINE r == [run[s] EXCEPT !.pc = "posting"]
<1>1. run[s] \in Run /\ run[s].pc = "inserting" /\ RegisterKept
  BY RunFineOf DEF InsertTransaction, RegisterKept
<1>2. CASE Over(s)
  BY <1>1, <1>2, KeptUncharged, EndedRun
<1>3. CASE run' = [run EXCEPT ![s] = r]
  <2>1. r.seen = run[s].seen /\ r.late = run[s].late /\ r.made = run[s].made
    BY <1>1 DEF Run
  <2> HIDE DEF r
  <2> QED BY <1>1, <1>3, <2>1, KeptUncharged, SameReading, OneRunKept
<1> QED BY <1>2, <1>3 DEF InsertTransaction

LEMMA PostEntryReads ==
  ASSUME AssetsInv, JournalInv, NEW s \in Session, PostEntry(s)
  PROVE  JournalInv'
<1> DEFINE k == run[s]
           a == Least(k.todo)
           x == [asset |-> a, date |-> k.date, amount |-> Due(k),
                 after |-> k.seen[a].accumulated + Due(k), number |-> NextNumber(s)]
           r == [k EXCEPT !.pc = "asset", !.todo = k.todo \ {a}, !.number = NextNumber(s),
                          !.made = k.made \cup {x}]
<1>1. RunFine(k, sequence, history) /\ k \in Run /\ k.pc = "posting" /\ RegisterKept
  BY RunFineOf DEF PostEntry, RegisterKept
<1>2. run' = [run EXCEPT ![s] = r]
  BY DEF PostEntry, NextAsset, Least, Due
<1>3. Due(k) > 0
  BY <1>1 DEF RunFine, Doing
<1>4. k.seen[a].status # "ABSENT"
  BY <1>3 DEF Due, AmountDue
<1>5. x.asset = a /\ x.after = k.seen[a].accumulated + x.amount
  OBVIOUS
<1> HIDE DEF x
<1>6. r.seen = k.seen /\ r.late = k.late /\ r.made = k.made \cup {x}
  BY <1>1 DEF Run
<1> HIDE DEF r, a
<1>7. Reading(k, register, history) /\ Writing(k)
  BY DEF JournalInv
<1>8. Reading(r, register, history)
  BY <1>1, <1>6, <1>7 DEF Reading
<1>9. Writing(r)
  BY <1>4, <1>5, <1>6, <1>7, FS_AddElement DEF Writing
<1> QED BY <1>1, <1>2, <1>8, <1>9, KeptUncharged, OneRunKept

LEMMA VictimReads ==
  ASSUME AssetsInv, JournalInv, NEW s \in Session, Victim(s)
  PROVE  JournalInv'
<1> DEFINE r == [run[s] EXCEPT !.pc = "begin", !.attempt = run[s].attempt + 1, !.todo = {},
                               !.made = {}, !.number = 0]
<1>1. run[s] \in Run /\ RegisterKept
  BY RunFineOf DEF Victim, RegisterKept
<1>2. CASE run[s].attempt = MaxAttempts
  <2>1. Over(s)
    BY <1>2 DEF Victim, Over
  <2> QED BY <1>1, <2>1, KeptUncharged, EndedRun
<1>3. CASE run[s].attempt # MaxAttempts
  <2>1. run' = [run EXCEPT ![s] = r]
    BY <1>3 DEF Victim, LeftPending
  <2>2. r.pc = "begin" /\ r.made = {}
    BY <1>1 DEF Run
  <2> HIDE DEF r
  <2>3. Reading(r, register, history) /\ Writing(r)
    BY <2>2, FS_EmptySet DEF Reading, Writing
  <2> QED BY <1>1, <2>1, <2>3, KeptUncharged, OneRunKept
<1> QED BY <1>2, <1>3

\* What a commit makes of an asset that its run has charged.
LEMMA CommittedAsset ==
  ASSUME AssetsInv, JournalInv, NEW s \in Session, Commit(s), NEW a \in Written(s)
  PROVE  \E x \in run[s].made :
           /\ x \in Record /\ x.asset = a /\ x \notin history
           /\ {h \in history' : h.asset = a} = {h \in history : h.asset = a} \cup {x}
           /\ register'[a].accumulated = run[s].seen[a].accumulated + x.amount
           /\ register'[a].status # "ABSENT"
<1> DEFINE made == run[s].made
           x == CHOOSE r \in made : r.asset = a
<1>1. made \subseteq Record /\ RunFine(run[s], sequence, history) /\ run[s].pc = "asset"
  BY RunFineOf DEF Run, Commit
<1>2. x \in made /\ x.asset = a /\ a \in Asset
  BY <1>1 DEF Written, Record
<1>3. register'[a] = RowAfter(register[a], a, x, run[s].seen[a]) /\ history' = history \cup made
  BY <1>2 DEF Commit
<1> HIDE DEF x
<1>4. x \notin history
  <2>1. Code(x.asset, x.date) \in RunCodes(run[s])
    BY <1>2 DEF RunCodes
  <2> QED BY <1>1, <2>1 DEF RunFine, NotIn
<1>5. \A y \in made : y.asset = a => y = x
  BY <1>1, <1>2 DEF RunFine, Doing
<1>6. Reading(run[s], register, history) /\ Writing(run[s]) /\ register[a] \in AssetRow
  BY <1>2 DEF JournalInv, AssetsInv, AssetTypeOK
<1>7. register'[a].accumulated = x.after /\ register'[a].status \in {"FULLY_DEPRECIATED", register[a].status}
  BY <1>3, <1>6 DEF RowAfter, AssetRow
<1>8. register[a].status # "ABSENT" /\ x.after = run[s].seen[a].accumulated + x.amount
  BY <1>1, <1>2, <1>6 DEF Reading, Writing
<1>9. {h \in history' : h.asset = a} = {h \in history : h.asset = a} \cup {x}
  BY <1>2, <1>3, <1>5
<1> QED BY <1>1, <1>2, <1>4, <1>7, <1>8, <1>9

LEMMA UnchargedAsset ==
  ASSUME AssetsInv, NEW s \in Session, Commit(s), NEW a \in Asset \ Written(s)
  PROVE  register'[a] = register[a] /\ {h \in history' : h.asset = a} = {h \in history : h.asset = a}
  BY DEF Commit, Written

\* What a commit makes of the records of an asset.
LEMMA CommittedDepreciation ==
  ASSUME AssetsInv, JournalInv, NEW s \in Session, Commit(s), NEW a \in Asset
  PROVE  /\ DepreciationIn(history', a) \in Int /\ DepreciationIn(history', a) >= DepreciationIn(history, a)
         /\ a \notin Written(s) => DepreciationIn(history', a) = DepreciationIn(history, a)
         /\ a \in Written(s) =>
              register'[a].accumulated = run[s].seen[a].accumulated + (DepreciationIn(history', a) - DepreciationIn(history, a))
<1> DEFINE H == {h \in history : h.asset = a}
<1>1. DepreciationIn(history, a) = Charged(H) /\ DepreciationIn(history, a) \in Int
  BY DepreciationType DEF DepreciationIn
<1>2. DepreciationIn(history', a) = Charged({h \in history' : h.asset = a})
  BY DEF DepreciationIn
<1>3. CASE a \notin Written(s)
  <2>1. {h \in history' : h.asset = a} = H
    BY <1>3, UnchargedAsset
  <2>2. DepreciationIn(history', a) = DepreciationIn(history, a)
    BY <1>1, <1>2, <2>1
  <2> QED BY <1>1, <1>3, <2>2
<1>4. CASE a \in Written(s)
  <2>1. PICK x \in Record :
          /\ x \notin history
          /\ {h \in history' : h.asset = a} = H \cup {x}
          /\ register'[a].accumulated = run[s].seen[a].accumulated + x.amount
    BY <1>4, CommittedAsset
  <2>2. IsFiniteSet(H) /\ H \subseteq Record
    BY FS_Subset DEF JournalInv, AssetsInv, AssetTypeOK
  <2>3. Charged(H \cup {x}) = Charged(H) + x.amount /\ x.amount \in Nat
    BY <2>1, <2>2, ChargedMore DEF Record
  <2>4. DepreciationIn(history', a) = DepreciationIn(history, a) + x.amount
    BY <1>1, <1>2, <2>1, <2>3
  <2>5. DepreciationIn(history', a) - DepreciationIn(history, a) = x.amount
    BY <1>1, <2>3, <2>4
  <2> QED BY <1>1, <1>4, <2>1, <2>3, <2>4, <2>5
<1> QED BY <1>3, <1>4

LEMMA CommitReads ==
  ASSUME AssetsInv, JournalInv, NEW s \in Session, Commit(s)
  PROVE  JournalInv'
<1>1. IsFiniteSet(history')
  <2>1. IsFiniteSet(history) /\ IsFiniteSet(run[s].made) /\ history' = history \cup run[s].made
    BY DEF JournalInv, Writing, Commit
  <2> QED BY <2>1, FS_Union
<1>2. \A a \in Asset : register'[a].status = "ABSENT" => register'[a].accumulated = 0
  BY CommittedAsset, UnchargedAsset DEF JournalInv
<1>3. ASSUME NEW t \in Session
      PROVE  Reading(run'[t], register', history') /\ Writing(run'[t])
  <2>1. CASE t = s
    <3>1. run'[t] = NoRun
      BY <2>1 DEF Commit
    <3> QED BY <3>1, NoRunReads
  <2>2. CASE t # s
    <3>1. /\ run'[t].pc = run[t].pc /\ run'[t].seen = run[t].seen /\ run'[t].made = run[t].made
          /\ run'[t].late = run[t].late \cup Written(s)
      <4>1. run[t] \in Run /\ run'[t] = [run[t] EXCEPT !.late = run[t].late \cup Written(s)]
        BY <2>2, RunFineOf DEF Commit
      <4> QED BY <4>1 DEF Run
    <3>2. Reading(run[t], register, history) /\ Writing(run[t])
      BY DEF JournalInv
    <3>3. ASSUME NEW a \in Asset
          PROVE  /\ a \notin Written(s) => register'[a] = register[a]
                 /\ register[a].status # "ABSENT" => register'[a].status # "ABSENT"
      BY CommittedAsset, UnchargedAsset
    <3>4. ASSUME NEW a \in Asset, run[t].pc \in {"asset", "inserting", "posting"}
          PROVE  run[t].seen[a].accumulated <= DepreciationIn(history', a)
      <4>1. run[t].seen[a].accumulated <= DepreciationIn(history, a) /\ run[t].seen[a].accumulated \in Int
        BY <3>2, <3>4, RunFineOf DEF Reading, Run, AssetRow
      <4>2. DepreciationIn(history, a) \in Int /\ DepreciationIn(history', a) \in Int /\ DepreciationIn(history', a) >= DepreciationIn(history, a)
        BY DepreciationType, CommittedDepreciation
      <4> QED BY <4>1, <4>2
    <3>5. Reading(run'[t], register', history')
      BY <3>1, <3>2, <3>3, <3>4 DEF Reading
    <3> QED BY <3>1, <3>2, <3>5 DEF Writing
  <2> QED BY <2>1, <2>2
<1>4. ASSUME NEW a \in Asset
      PROVE  /\ register'[a].accumulated <= DepreciationIn(history', a)
             /\ a \notin overlap' => register'[a].accumulated = DepreciationIn(history', a)
  <2> DEFINE before == DepreciationIn(history, a)
             after == DepreciationIn(history', a)
  <2>1. before \in Int /\ after \in Int
    BY DepreciationType, CommittedDepreciation
  <2>2. /\ register[a].accumulated <= before
        /\ a \notin overlap => register[a].accumulated = before
        /\ register[a].accumulated \in Int
    BY DEF JournalInv, RegisterMatchesHistory, AssetsInv, AssetTypeOK, AssetRow
  <2>3. CASE a \in Written(s)
    <3>1. register'[a].accumulated = run[s].seen[a].accumulated + (after - before)
      BY <2>3, CommittedDepreciation
    <3>2. /\ run[s].seen[a].accumulated <= before /\ run[s].seen[a].accumulated \in Int
          /\ a \notin run[s].late => run[s].seen[a].accumulated = register[a].accumulated
      BY RunFineOf DEF JournalInv, Reading, Commit, Run, AssetRow
    <3>3. a \notin overlap' => a \notin overlap /\ a \notin run[s].late
      BY <2>3 DEF Commit
    <3> QED BY <2>1, <2>2, <3>1, <3>2, <3>3
  <2>4. CASE a \notin Written(s)
    <3>1. register'[a] = register[a] /\ after = before
      BY <2>4, UnchargedAsset, CommittedDepreciation
    <3>2. register'[a].accumulated <= after
      BY <2>2, <3>1
    <3>3. a \notin overlap' => a \notin overlap
      BY DEF Commit
    <3>4. a \notin overlap' => register'[a].accumulated = after
      BY <2>2, <3>1, <3>3
    <3> QED BY <3>2, <3>4
  <2> QED BY <2>3, <2>4
<1>5. RegisterMatchesHistory'
  BY <1>4 DEF RegisterMatchesHistory
<1> QED BY <1>1, <1>2, <1>3, <1>5 DEF JournalInv

LEMMA JournalInvInit == AssetsInit => JournalInv
<1> SUFFICES ASSUME AssetsInit PROVE JournalInv
  OBVIOUS
<1>1. history = {} /\ \A a \in Asset : register[a] = Absent
  BY DEF AssetsInit
<1>2. Charged({}) = 0
  BY SumEmpty DEF Charged
<1>3. RegisterMatchesHistory
  <2>1. {h \in history : FALSE} = {} /\ \A a \in Asset : {h \in history : h.asset = a} = {}
    BY <1>1
  <2>2. \A a \in Asset : DepreciationIn(history, a) = 0
    BY <1>2, <2>1 DEF DepreciationIn
  <2> QED BY <1>1, <2>2 DEF RegisterMatchesHistory, Absent
<1>4. \A s \in Session : Reading(run[s], register, history) /\ Writing(run[s])
  BY NoRunReads DEF AssetsInit
<1> QED BY <1>1, <1>3, <1>4, FS_EmptySet DEF JournalInv, Absent

LEMMA JournalInvStep == AssetsInv /\ JournalInv /\ [AssetsNext]_assetVars => JournalInv'
<1> SUFFICES ASSUME AssetsInv, JournalInv, [AssetsNext]_assetVars PROVE JournalInv'
  OBVIOUS
<1>1. CASE UNCHANGED assetVars
  <2>1. Uncharged /\ UNCHANGED run
    BY <1>1 DEF assetVars, Uncharged
  <2> QED BY <2>1, RunsKept
<1>2. ASSUME NEW a \in Asset, CreateAsset(a) \/ UpdateAsset(a) \/ DisposeAsset(a)
      PROVE  JournalInv'
  BY <1>2, RegisterEdited
<1>3. ASSUME NEW s \in Session, Request(s) \/ RunStep(s) \/ Abandoned(s)
      PROVE  JournalInv'
  <2>1. CASE Refused(s) \/ Abandoned(s)
    <3>1. Over(s) /\ RegisterKept
      BY <2>1 DEF Refused, Abandoned, RegisterKept
    <3> QED BY <3>1, KeptUncharged, EndedRun
  <2> QED BY <1>3, <2>1, RequestReads, BeginReads, PassesReads, ChargesReads, InsertReads,
     PostEntryReads, CommitReads, VictimReads DEF RunStep
<1> QED BY <1>1, <1>2, <1>3 DEF AssetsNext

\* The register shows what the month records of an asset add up to, after
\* whatever deadlocks, retries, lost connections and edits, or less when two
\* runs wrote the asset over each other; never more.
THEOREM RegisterAddsUp == AssetsSpec => []RegisterMatchesHistory
<1>1. AssetsInit => AssetsInv /\ JournalInv
  BY AssetsInvInit, JournalInvInit
<1>2. (AssetsInv /\ JournalInv) /\ [AssetsNext]_assetVars => (AssetsInv /\ JournalInv)'
  BY AssetsInvStep, JournalInvStep
<1>3. AssetsInv /\ JournalInv => RegisterMatchesHistory
  BY DEF JournalInv
<1> QED BY <1>1, <1>2, <1>3, PTL DEF AssetsSpec
=============================================================================
