------------------------------ MODULE Matching ------------------------------
(***************************************************************************)
(* How the data read from one document is matched to what the books       *)
(* already hold (services/documents/matching.py): to a counterparty, a    *)
(* project, a payment account and, for invoices and transfer proofs, to   *)
(* the open vendor bill or customer invoice that the document is about.   *)
(* A target that is taken without a review is proposed to the user as     *)
(* settled, so the scores, the bands and the margins must not let a wrong *)
(* target through.                                                        *)
(*                                                                         *)
(* Scores are integers: a hundredth of a signal's weight, so a total of   *)
(* 10000 is the code's 1.0.  A number or an order is the target or the    *)
(* project it belongs to, and the texts of a document are the targets,    *)
(* the parties and the projects that are found in them.                   *)
(* A definition headed "Mutation" is no part of the specification.        *)
(***************************************************************************)
EXTENDS Integers, FiniteSets, FiniteSetsExt

CONSTANTS
  Party,        \* active counterparties; numbers, ordered as their ids
  RolesOf,      \* party -> subset of {"CUSTOMER", "VENDOR"}
  Target,       \* vendor bills and customer invoices; numbers as their ids
  About,        \* target -> [kind, party, project, total, retention, day]; a bill withholds none
  Document,     \* the documents that may be read
  Blank,        \* a field the extraction did not find
  Instalments,  \* amounts a payment may have
  MaxChanged    \* bound: targets that anything happened to before the document is read

ASSUME MatchAssumption ==
  /\ Party \subseteq Nat /\ IsFiniteSet(Party)
  /\ RolesOf \in [Party -> SUBSET {"CUSTOMER", "VENDOR"}]
  /\ Target \subseteq Nat /\ IsFiniteSet(Target)
  /\ \A t \in Target : /\ About[t].party \in Party
                       /\ About[t].total \in Int /\ About[t].day \in Int
                       /\ About[t].retention \in Int
  /\ \A d \in Document : /\ d.similar \in [Party -> Nat]
                         /\ d.amount \in Int \cup {Blank} /\ d.day \in Int \cup {Blank}
  /\ Instalments \subseteq Nat
  /\ Blank \notin Int \cup {"CUSTOMER", "VENDOR"}

VARIABLES
  paid,         \* target -> amount allocated to it
  released,     \* target -> retention released of it
  status,       \* target -> the status of the bill or invoice
  document,     \* the document read, Blank before
  verdict       \* what match_entities returned for it, Blank before

targetVars == <<paid, released, status>>
matchVars == <<targetVars, document, verdict>>

Or(a, b) == IF a = Blank THEN b ELSE a
Apart(a, b) == IF a > b THEN a - b ELSE b - a

(* The best of the candidates by rank, then by id, and whether the first two
   are within the margin of each other. *)
Best(rank) ==
  CHOOSE c \in DOMAIN rank :
    \A d \in DOMAIN rank : rank[c] > rank[d] \/ (rank[c] = rank[d] /\ c >= d)
RunnerUp(rank) == Best([c \in DOMAIN rank \ {Best(rank)} |-> rank[c]])

\* Mutation: two candidates at the margin are told apart.
CloseStrictly(rank, score, margin) ==
  /\ Cardinality(DOMAIN rank) > 1
  /\ Apart(score[Best(rank)], score[RunnerUp(rank)]) < margin

Close(rank, score, margin) ==
  /\ Cardinality(DOMAIN rank) > 1
  /\ Apart(score[Best(rank)], score[RunnerUp(rank)]) <= margin

(***************************************************************************)
(* Counterparties: a tax id in the text, the bank account, the exact name *)
(* or a name at least 90% similar.                                        *)
(***************************************************************************)
ExactParty(d, p) == p \in d.taxIds \/ p \in d.accounts \/ d.similar[p] = 100
PartyScore(d, p) ==
  IF p \in d.taxIds THEN 98
  ELSE IF ExactParty(d, p) THEN 95
  ELSE d.similar[p]
PartyCandidates(d) == {p \in Party : ExactParty(d, p) \/ d.similar[p] >= 90}
PartyScores(d) == [p \in PartyCandidates(d) |-> PartyScore(d, p)]
PartyRanks(d) ==
  [p \in PartyCandidates(d) |-> PartyScore(d, p) + IF ExactParty(d, p) THEN 1000 ELSE 0]
PartyAmbiguous(d) == Close(PartyRanks(d), PartyScores(d), 5)
MatchedParty(d) ==
  IF PartyCandidates(d) = {} \/ PartyAmbiguous(d) THEN Blank ELSE Best(PartyRanks(d))
(* A party that is both customer and vendor has no role. *)
RoleOf(p) ==
  IF p # Blank /\ Cardinality(RolesOf[p]) = 1 THEN CHOOSE r \in RolesOf[p] : TRUE
  ELSE Blank

(***************************************************************************)
(* Projects: the code, the order number, the name in the text, a hint of  *)
(* the caption.                                                           *)
(***************************************************************************)
ProjectScore(d, q) ==
  IF q \in d.projectCodes THEN 96
  ELSE IF q \in d.orders THEN 95
  ELSE IF q \in d.projectNames THEN 72
  ELSE 70
ProjectCandidates(d) == d.projectCodes \cup d.orders \cup d.projectNames \cup d.hinted
ProjectScores(d) == [q \in ProjectCandidates(d) |-> ProjectScore(d, q)]
ProjectAmbiguous(d) == Close(ProjectScores(d), ProjectScores(d), 5)
MatchedProject(d) ==
  IF ProjectCandidates(d) = {} \/ ProjectAmbiguous(d) THEN Blank ELSE Best(ProjectScores(d))

(* Payment accounts: the one whose number is exact, else the one the bank's
   name points at; several of either kind are ambiguous. *)
AccountAmbiguous(d) ==
  IF d.exactBanks # {} THEN Cardinality(d.exactBanks) > 1
  ELSE Cardinality(d.likelyBanks) > 1
MatchedAccount(d) ==
  LET found == IF d.exactBanks # {} THEN d.exactBanks ELSE d.likelyBanks
  IN  IF Cardinality(found) = 1 THEN CHOOSE b \in found : TRUE ELSE Blank

(***************************************************************************)
(* One open bill or invoice against the document.  `party` and `project`  *)
(* are those already matched, or Blank.                                   *)
(***************************************************************************)
Collectible(t) == About[t].total - About[t].retention + released[t]
(* An invoice never has less than nothing outstanding, a bill may. *)
OutstandingOf(t) ==
  IF status[t] = "CANCELLED" THEN 0
  ELSE IF About[t].kind = "INVOICE" THEN Max({0, Collectible(t) - paid[t]})
  ELSE About[t].total - paid[t]
(* The status decides, not the amount: an invoice paid as far as it is
   collectible is PARTIALLY_PAID. *)
IsOpen(t) == status[t] \in {"UNPAID", "PARTIALLY_PAID"}
NumberOf(d) == Or(d.invoice, d.number)
Numbered(d, t) == NumberOf(d) = t
Named(d, t) == Numbered(d, t) \/ t \in d.codes
Misnumbered(d, t) == NumberOf(d) # Blank /\ ~Named(d, t)
ByOrder(d, t) == About[t].project # Blank /\ Or(d.spk, d.number) = About[t].project

Identifier(d, t) ==
  IF Numbered(d, t) THEN 100
  ELSE IF Named(d, t) THEN 95
  ELSE IF ByOrder(d, t) THEN 80
  ELSE 0
(* The name of the party a target of this kind is about was read. *)
PartyKnown(d, t) == IF About[t].kind = "BILL" THEN d.issuer ELSE d.recipient
Relation(d, t, party) ==
  IF party = About[t].party THEN 100
  ELSE IF party = Blank /\ PartyKnown(d, t) THEN 50
  ELSE 0
WrongParty(t, party) == party # Blank /\ party # About[t].party

TotalFits(d, t) == d.amount # Blank /\ Apart(d.amount, About[t].total) <= 1
RestFits(d, t) == d.amount # Blank /\ Apart(d.amount, OutstandingOf(t)) <= 1
ExactAmount(d, t) == TotalFits(d, t) \/ (paid[t] > 0 /\ RestFits(d, t))
PartAmount(d, t) == d.amount # Blank /\ d.amount > 0 /\ d.amount <= OutstandingOf(t)
WrongAmount(d, t) == d.amount # Blank /\ ~ExactAmount(d, t) /\ ~PartAmount(d, t)
AmountScore(d, t) ==
  Max({IF ExactAmount(d, t) THEN 100 ELSE IF PartAmount(d, t) THEN 75 ELSE 0,
       IF d.intent = "SETTLEMENT" /\ RestFits(d, t) THEN 95 ELSE 0})

FarDate(d, t) ==
  /\ d.day # Blank
  /\ Apart(d.day, About[t].day) > 30
  /\ d.day < About[t].day \/ Apart(d.day, About[t].day) > 90
DateScore(d, t) ==
  LET days == Apart(d.day, About[t].day)
  IN  IF d.day = Blank THEN 30
      ELSE IF days <= 3 THEN 100
      ELSE IF days <= 14 THEN 70
      ELSE IF days <= 30 THEN 40
      ELSE IF FarDate(d, t) THEN 0 ELSE 30

SameProject(t, project) == project # Blank /\ project = About[t].project
HintedProject(d, t) == About[t].project \in d.hinted
ProjectFit(d, t, project) ==
  IF SameProject(t, project) THEN 100 ELSE IF HintedProject(d, t) THEN 85 ELSE 0

Negative(d, t, party) ==
  WrongParty(t, party) \/ WrongAmount(d, t) \/ Misnumbered(d, t) \/ FarDate(d, t)

Positive(d, t, party, project) ==
  \/ Named(d, t) \/ ByOrder(d, t)
  \/ party = About[t].party
  \/ AmountScore(d, t) > 0
  \/ d.intent = "DOWN_PAYMENT" /\ paid[t] = 0
  \/ d.day # Blank /\ Apart(d.day, About[t].day) <= 14
  \/ ProjectFit(d, t, project) > 0

(* Named, of the party and in the exact amount: sure whatever the rest. *)
Certain(d, t, party) == Named(d, t) /\ party = About[t].party /\ ExactAmount(d, t)

Weighted(d, t, party, project) ==
  35 * Identifier(d, t) + 25 * Relation(d, t, party) + 25 * AmountScore(d, t)
    + 10 * DateScore(d, t) + 5 * ProjectFit(d, t, project)
(* The two sums that are exactly 0.55 in decimals and fall short of it in
   binary floating point. *)
FallsShort(d, t, party, project) ==
  <<Identifier(d, t), Relation(d, t, party), AmountScore(d, t), DateScore(d, t),
    ProjectFit(d, t, project)>> \in {<<80, 0, 75, 40, 85>>, <<0, 100, 75, 70, 85>>}

ScoreOf(d, t, party, project) ==
  LET total == Weighted(d, t, party, project)
  IN  IF WrongParty(t, party) THEN Min({total, 3000})
      ELSE IF WrongAmount(d, t) THEN Min({total, 7000})
      ELSE IF Certain(d, t, party) THEN Max({total, 9500})
      ELSE total

\* Mutation: three quarters of the weights are enough.
LowerSureScore == 7500

SureScore == 8500
BandOf(d, t, party, project) ==
  LET total == Weighted(d, t, party, project)
  IN  IF WrongParty(t, party) THEN "LOW"
      ELSE IF WrongAmount(d, t) THEN "MEDIUM"
      ELSE IF Certain(d, t, party) THEN "HIGH"
      ELSE IF total >= SureScore /\ ~Negative(d, t, party) THEN "HIGH"
      ELSE IF total >= 5500 /\ ~FallsShort(d, t, party, project) THEN "MEDIUM"
      ELSE "LOW"

(***************************************************************************)
(* match_vendor_bills and match_customer_invoices take the open targets   *)
(* of one kind in turn; match_entities puts everything together.          *)
(***************************************************************************)
CandidatesOf(kind, d, party, project) ==
  {t \in Target : /\ About[t].kind = kind
                  /\ IsOpen(t)
                  /\ \/ Positive(d, t, party, project)
                     \/ ScoreOf(d, t, party, project) >= 3000}
(* What becomes of the ranked candidates, by their scores. *)
Outcome(d, score, ambiguous, party, project) ==
  IF ambiguous \/ DOMAIN score = {} \/ BandOf(d, Best(score), party, project) = "LOW"
  THEN [ambiguous |-> ambiguous, primary |-> Blank, sure |-> FALSE]
  ELSE [ambiguous |-> FALSE, primary |-> Best(score),
        sure |-> BandOf(d, Best(score), party, project) = "HIGH"]
Chosen(d, score, party, project) == Outcome(d, score, Close(score, score, 500), party, project)
Ranked(kind, d, party, project) ==
  Chosen(d, [t \in CandidatesOf(kind, d, party, project) |-> ScoreOf(d, t, party, project)],
         party, project)

NoResult == [ambiguous |-> FALSE, primary |-> Blank, sure |-> TRUE]
BothWays == [ambiguous |-> TRUE, primary |-> Blank, sure |-> FALSE]

(* A transfer proof whose party is unknown, or both customer and vendor, is
   matched to both kinds, and without the party. *)
OneWay(inv, bill) ==
  IF inv.primary # Blank /\ bill.primary = Blank THEN inv
  ELSE IF bill.primary # Blank /\ inv.primary = Blank THEN bill
  ELSE IF inv.ambiguous \/ bill.ambiguous \/ inv.primary # Blank THEN BothWays
  ELSE NoResult

\* The kinds of target that a document of this type may be about.
Kinds(d, party) ==
  CASE d.type = "CUSTOMER_INVOICE" -> {"INVOICE"}
    [] d.type = "VENDOR_INVOICE" -> {"BILL"}
    [] d.type = "TRANSFER_PROOF" ->
         (CASE RoleOf(party) = "CUSTOMER" -> {"INVOICE"}
            [] RoleOf(party) = "VENDOR" -> {"BILL"}
            [] OTHER -> {"INVOICE", "BILL"})
    [] OTHER -> {}
TargetOf(d, kinds, party, project) ==
  IF kinds = {} THEN NoResult
  ELSE IF Cardinality(kinds) = 1
       THEN Ranked(CHOOSE k \in kinds : TRUE, d, party, project)
       ELSE OneWay(Ranked("INVOICE", d, Blank, project), Ranked("BILL", d, Blank, project))

(* The party and the project of the target fill what was not matched before;
   everything unsure asks for a review. *)
Result(d, found, party, project, ambiguous) ==
  [target |-> found.primary,
   party |-> IF found.primary = Blank THEN party ELSE Or(party, About[found.primary].party),
   project |-> IF found.primary = Blank THEN project ELSE Or(project, About[found.primary].project),
   account |-> MatchedAccount(d),
   ambiguous |-> ambiguous \/ found.ambiguous,
   review |-> \/ ambiguous \/ ~found.sure
              \/ party = Blank /\ found.primary = Blank]
Matched(d, party, project) ==
  Result(d, TargetOf(d, Kinds(d, party), party, project), party, project,
         PartyAmbiguous(d) \/ ProjectAmbiguous(d) \/ AccountAmbiguous(d))
MatchEntities(d) == Matched(d, MatchedParty(d), MatchedProject(d))

(***************************************************************************)
(* The books move on until the document is read.                          *)
(***************************************************************************)
Changed == {t \in Target : paid[t] > 0 \/ released[t] > 0 \/ status[t] = "CANCELLED"}
MayChange(t) == verdict = Blank /\ Cardinality(Changed \cup {t}) <= MaxChanged

(* The status that a payment, or the loss of one, leaves (Ledger.StatusWhenPaid). *)
StatusAt(t, sum) ==
  IF sum = 0 THEN "UNPAID" ELSE IF sum < About[t].total THEN "PARTIALLY_PAID" ELSE "PAID"

(* A payment is allocated to a bill or an invoice. *)
Pay(t, amount) ==
  /\ MayChange(t)
  /\ status[t] # "CANCELLED"
  /\ amount <= OutstandingOf(t)
  /\ paid' = [paid EXCEPT ![t] = @ + amount]
  /\ status' = [status EXCEPT ![t] = StatusAt(t, paid[t] + amount)]
  /\ UNCHANGED <<released, document, verdict>>

(* One is reversed. *)
LosePayment(t, amount) ==
  /\ MayChange(t)
  /\ amount <= paid[t]
  /\ paid' = [paid EXCEPT ![t] = @ - amount]
  /\ status' = [status EXCEPT ![t] = StatusAt(t, paid[t] - amount)]
  /\ UNCHANGED <<released, document, verdict>>

(* Retention of an invoice is released. *)
ReleaseRetention(t, amount) ==
  /\ MayChange(t)
  /\ status[t] # "CANCELLED"
  /\ About[t].kind = "INVOICE"
  /\ released[t] + amount <= About[t].retention
  /\ released' = [released EXCEPT ![t] = @ + amount]
  /\ UNCHANGED <<paid, status, document, verdict>>

(* A bill or an invoice without payments is reversed. *)
CancelTarget(t) ==
  /\ MayChange(t)
  /\ paid[t] = 0
  /\ status' = [status EXCEPT ![t] = "CANCELLED"]
  /\ UNCHANGED <<paid, released, document, verdict>>

(* The document is read and matched. *)
ReadDocument(d) ==
  /\ verdict = Blank
  /\ document' = d
  /\ verdict' = MatchEntities(d)
  /\ UNCHANGED targetVars

MatchInit ==
  /\ paid = [t \in Target |-> 0]
  /\ released = [t \in Target |-> 0]
  /\ status = [t \in Target |-> "UNPAID"]
  /\ document = Blank
  /\ verdict = Blank

MatchNext ==
  \/ \E t \in Target : \/ \E amount \in Instalments :
                          Pay(t, amount) \/ LosePayment(t, amount) \/ ReleaseRetention(t, amount)
                      \/ CancelTarget(t)
  \/ verdict = Blank /\ \E d \in Document : ReadDocument(d)

MatchSpec == MatchInit /\ [][MatchNext]_matchVars

-----------------------------------------------------------------------------
Settled == verdict # Blank /\ verdict.target # Blank /\ ~verdict.review

(* Without the party, a transfer proof is matched by its numbers alone. *)
MatchedBlindly == document.type = "TRANSFER_PROOF" /\ RoleOf(MatchedParty(document)) = Blank

(* A bill or an invoice taken without a review is open, is named by the
   document (by its number or by the order of its project), belongs to the party
   the document names, and the amount read is its total, the rest of one partly
   paid, or a part of what is outstanding; the weights, the caps and the bands of
   the scores add up to that, whatever the other signals.  The total counts even
   when less is outstanding, of one partly paid or with retention withheld: such a
   document is settled and its allocation refused (Ledger.Allocable). *)
SureTargetIsRight ==
  Settled =>
    LET t == verdict.target
    IN  /\ IsOpen(t)
        /\ Named(document, t) \/ ByOrder(document, t)
        /\ ExactAmount(document, t) \/ PartAmount(document, t)
        /\ About[t].party = verdict.party \/ MatchedBlindly
        /\ MatchedBlindly \/ MatchedParty(document) = Blank =>
             Named(document, t) /\ PartyKnown(document, t)

(* A bill or an invoice taken without a review has no rival: no other open one
   of the same kind and party is named by the document in its exact amount.  It
   rests on the lift of certain candidates to 0.95 and the inclusive margin of
   0.05 in which two candidates are ambiguous. *)
SureTargetHasNoRival ==
  Settled /\ ~MatchedBlindly =>
    \A u \in Target \ {verdict.target} :
      ~(/\ IsOpen(u)
        /\ About[u].kind = About[verdict.target].kind
        /\ Certain(document, u, MatchedParty(document)))
=============================================================================
