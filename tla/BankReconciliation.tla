------------------------- MODULE BankReconciliation -------------------------
(***************************************************************************)
(* Bank statements and their reconciliation (BankReconciliationService).   *)
(* Clerks upload statements, match a statement line by hand with one of    *)
(* the faces that a payment has in the books - a journal line, a money     *)
(* movement or a transaction - or let the service match a whole statement. *)
(* Every request is one database transaction, READ COMMITTED and without   *)
(* autoflush: what it has matched is written at its end.                   *)
(*                                                                         *)
(* Lines with both a debit and a credit count as inflows, as in the code.  *)
(* No handler takes a match back or rejects a transaction; files, codes    *)
(* and texts are left out.                                                 *)
(* A definition headed "Mutation" is no part of the specification.         *)
(***************************************************************************)
EXTENDS Integers, FiniteSets

CONSTANTS
  Import,      \* statement files, by their hash
  AccountOf,   \* the payment account a file is uploaded for
  Line,        \* statement lines; numbers, because they are matched in order
  LineOf,      \* what the file says of each line
  Face,        \* journal lines, money movements and transactions
  FaceOf,      \* what the books say of each
  NoReference,
  Clerk,
  MaxUploads,  \* bound on uploads
  MaxMatches   \* bound on requests to match

Sides == {"IN", "OUT", "NONE"}

ASSUME BankAssumption ==
  /\ Import # {} /\ Line # {} /\ Face # {}
  /\ Line \subseteq Nat
  /\ \A l \in Line : /\ LineOf[l].import \in Import /\ LineOf[l].side \in Sides
                     /\ LineOf[l].amount \in Nat
                     /\ LineOf[l].side = "NONE" <=> LineOf[l].amount = 0
  /\ \A f \in Face : /\ FaceOf[f].kind \in {"JOURNAL_LINE", "MOVEMENT", "TRANSACTION"}
                     /\ FaceOf[f].amount \in Nat \ {0}
  /\ MaxUploads \in Nat /\ MaxMatches \in Nat

VARIABLES
  imported,   \* bank_statement_imports
  lineStatus, \* reconciliation_status of the lines
  matches,    \* bank_reconciliations; all are MATCHED
  clerk,      \* what each clerk's request is doing
  uploads, tries

bankVars == <<imported, lineStatus, matches, clerk, uploads, tries>>

Match == [line: Line, face: Face, amount: Nat]

\* lines, faces: the rows that the request has locked.
ClerkJob == [pc: {"idle", "uploading", "next", "candidate", "line", "face", "check", "flush"},
            auto: BOOLEAN, import: Import, line: Line, face: Face, todo: SUBSET Line,
            byDate: BOOLEAN, rest: SUBSET Face, made: SUBSET Match, lines: SUBSET Line, faces: SUBSET Face]

Idle == [pc |-> "idle", auto |-> FALSE, import |-> CHOOSE i \in Import : TRUE,
         line |-> CHOOSE l \in Line : TRUE, face |-> CHOOSE f \in Face : TRUE, todo |-> {},
         byDate |-> FALSE, rest |-> {}, made |-> {}, lines |-> {}, faces |-> {}]

BankTypeOK ==
  /\ imported \subseteq Import
  /\ lineStatus \in [Line -> {"ABSENT", "UNMATCHED_BANK", "MATCHED"}]
  /\ matches \subseteq Match
  /\ clerk \in [Clerk -> ClerkJob]
  /\ uploads \in 0..MaxUploads /\ tries \in 0..MaxMatches

BankInit ==
  /\ imported = {}
  /\ lineStatus = [l \in Line |-> "ABSENT"]
  /\ matches = {}
  /\ clerk = [c \in Clerk |-> Idle]
  /\ uploads = 0 /\ tries = 0

Ends(c) == clerk' = [clerk EXCEPT ![c] = Idle]

-----------------------------------------------------------------------------
(* Uploading a statement.                                                  *)

\* The query for the file's hash finds nothing.
Upload(c) ==
  /\ clerk[c].pc = "idle" /\ uploads < MaxUploads
  /\ \E i \in Import \ imported :
       clerk' = [clerk EXCEPT ![c] = [Idle EXCEPT !.pc = "uploading", !.import = i]]
  /\ uploads' = uploads + 1
  /\ UNCHANGED <<imported, lineStatus, matches, tries>>

\* uq_bank_statement_import_file_hash refuses the second of two.
UploadCommits(c) ==
  LET i == clerk[c].import
  IN  /\ clerk[c].pc = "uploading"
      /\ imported' = imported \cup {i}
      /\ lineStatus' = [l \in Line |->
           IF LineOf[l].import = i /\ i \notin imported THEN "UNMATCHED_BANK" ELSE lineStatus[l]]
      /\ Ends(c)
      /\ UNCHANGED <<matches, uploads, tries>>

-----------------------------------------------------------------------------
(* Whether a line and a face agree.                                        *)

\* Mutation: the direction of the money is not compared.
AgreeInAmount(l, f) ==
  \/ FaceOf[f].kind = "TRANSACTION" /\ FaceOf[f].amount = LineOf[l].amount
  \/ /\ FaceOf[f].kind # "TRANSACTION"
     /\ FaceOf[f].account = AccountOf[LineOf[l].import]
     /\ FaceOf[f].amount = LineOf[l].amount

\* A line without an amount passes for any journal line of its account. A
\* transaction is compared by its amount alone.
Agree(l, f) ==
  \/ FaceOf[f].kind = "TRANSACTION" /\ FaceOf[f].amount = LineOf[l].amount
  \/ /\ FaceOf[f].kind # "TRANSACTION"
     /\ FaceOf[f].account = AccountOf[LineOf[l].import]
     /\ \/ FaceOf[f].side = LineOf[l].side /\ FaceOf[f].amount = LineOf[l].amount
        \/ FaceOf[f].kind = "JOURNAL_LINE" /\ LineOf[l].side = "NONE"

Reconciled(f) == \E m \in matches : m.face = f

\* The queries of auto_match_statement.
ByReference(l) ==
  {f \in Face : /\ FaceOf[f].kind = "MOVEMENT" /\ ~Reconciled(f)
                /\ LineOf[l].ref # NoReference /\ FaceOf[f].ref = LineOf[l].ref
                /\ FaceOf[f].account = AccountOf[LineOf[l].import]
                /\ FaceOf[f].amount = LineOf[l].amount}

ByDate(l) ==
  {f \in Face : /\ FaceOf[f].kind = "JOURNAL_LINE" /\ ~Reconciled(f)
                /\ FaceOf[f].date = LineOf[l].date
                /\ FaceOf[f].account = AccountOf[LineOf[l].import]
                /\ FaceOf[f].side = LineOf[l].side /\ FaceOf[f].amount = LineOf[l].amount}

-----------------------------------------------------------------------------
(* Matching.                                                               *)

Reconcile(c) ==
  /\ clerk[c].pc = "idle" /\ tries < MaxMatches
  /\ \E l \in Line, f \in Face :
       /\ lineStatus[l] # "ABSENT"
       /\ clerk' = [clerk EXCEPT ![c] = [Idle EXCEPT !.pc = "line", !.line = l, !.face = f]]
  /\ tries' = tries + 1
  /\ UNCHANGED <<imported, lineStatus, matches, uploads>>

AutoMatch(c) ==
  /\ clerk[c].pc = "idle" /\ tries < MaxMatches
  /\ \E i \in imported :
       clerk' = [clerk EXCEPT ![c] =
         [Idle EXCEPT !.pc = "next", !.auto = TRUE, !.import = i,
                      !.todo = {l \in Line : LineOf[l].import = i /\ lineStatus[l] = "UNMATCHED_BANK"}]]
  /\ tries' = tries + 1
  /\ UNCHANGED <<imported, lineStatus, matches, uploads>>

Unwritten == <<imported, lineStatus, matches, uploads, tries>>

NextLine(c) ==
  /\ clerk[c].pc = "next" /\ clerk[c].todo # {}
  /\ LET l == CHOOSE x \in clerk[c].todo : \A y \in clerk[c].todo : x <= y
     IN  clerk' = [clerk EXCEPT ![c] =
           [clerk[c] EXCEPT !.pc = "candidate", !.line = l, !.byDate = FALSE, !.rest = ByReference(l)]]
  /\ UNCHANGED Unwritten

\* claimed_mm_ids and claimed_jl_ids
Claimed(c) == {m.face : m \in clerk[c].made}

\* The database may return the candidates in any order.
Candidate(c) ==
  /\ clerk[c].pc = "candidate"
  /\ \E f \in clerk[c].rest \ Claimed(c) :
       clerk' = [clerk EXCEPT ![c] =
         [clerk[c] EXCEPT !.pc = "line", !.face = f, !.rest = clerk[c].rest \ {f}]]
  /\ UNCHANGED Unwritten

NoCandidate(c) ==
  /\ clerk[c].pc = "candidate" /\ clerk[c].rest \subseteq Claimed(c)
  /\ clerk' = [clerk EXCEPT ![c] =
       IF clerk[c].byDate THEN [clerk[c] EXCEPT !.pc = "next", !.todo = clerk[c].todo \ {clerk[c].line}]
       ELSE [clerk[c] EXCEPT !.byDate = TRUE, !.rest = ByDate(clerk[c].line)]]
  /\ UNCHANGED Unwritten

LineFree(c) == \A d \in Clerk \ {c} : clerk[c].line \notin clerk[d].lines

\* Mutation: the target is read without FOR UPDATE.
FaceUnlocked(c) == TRUE

FaceFree(c) == \A d \in Clerk \ {c} : clerk[c].face \notin clerk[d].faces

LockLine(c) ==
  /\ clerk[c].pc = "line" /\ LineFree(c)
  /\ clerk' = [clerk EXCEPT ![c] =
       [clerk[c] EXCEPT !.pc = "face", !.lines = clerk[c].lines \cup {clerk[c].line}]]
  /\ UNCHANGED Unwritten

LockFace(c) ==
  /\ clerk[c].pc = "face" /\ FaceFree(c)
  /\ clerk' = [clerk EXCEPT ![c] =
       [clerk[c] EXCEPT !.pc = "check", !.faces = clerk[c].faces \cup {clerk[c].face}]]
  /\ UNCHANGED Unwritten

\* An automatic run looks at the status that it loaded with its statement.
AlreadyMatched(c) ==
  \/ ~clerk[c].auto /\ lineStatus[clerk[c].line] = "MATCHED"
  \/ \E m \in matches : m.line = clerk[c].line \/ m.face = clerk[c].face

Accepted(c) == ~AlreadyMatched(c) /\ Agree(clerk[c].line, clerk[c].face)

\* 404, 409 and 422 end a request by hand; a run goes on, and keeps its locks.
Refuse(c) ==
  /\ clerk[c].pc = "check" /\ ~Accepted(c)
  /\ IF clerk[c].auto THEN clerk' = [clerk EXCEPT ![c].pc = "candidate"] ELSE Ends(c)
  /\ UNCHANGED Unwritten

Accept(c) ==
  /\ clerk[c].pc = "check" /\ Accepted(c)
  /\ clerk' = [clerk EXCEPT ![c] =
       [clerk[c] EXCEPT !.pc = IF clerk[c].auto THEN "next" ELSE "flush",
                        !.todo = clerk[c].todo \ {clerk[c].line},
                        !.made = clerk[c].made \cup
                          {[line |-> clerk[c].line, face |-> clerk[c].face,
                            amount |-> LineOf[clerk[c].line].amount]}]]
  /\ UNCHANGED Unwritten

RunDone(c) ==
  /\ clerk[c].pc = "next" /\ clerk[c].todo = {}
  /\ clerk' = [clerk EXCEPT ![c].pc = "flush"]
  /\ UNCHANGED Unwritten

\* The partial unique indexes of bank_reconciliations.
Collides(m) == \E n \in matches : n.line = m.line \/ n.face = m.face

\* ck_bank_recon_matched_amount_positive is the other constraint that may refuse.
Flush(c) ==
  /\ clerk[c].pc = "flush"
  /\ IF \E m \in clerk[c].made : Collides(m) \/ m.amount = 0
     THEN UNCHANGED <<matches, lineStatus>>
     ELSE /\ matches' = matches \cup clerk[c].made
          /\ lineStatus' = [l \in Line |->
               IF \E m \in clerk[c].made : m.line = l THEN "MATCHED" ELSE lineStatus[l]]
  /\ Ends(c)
  /\ UNCHANGED <<imported, uploads, tries>>

\* A lost connection, or a deadlock that the database breaks: nothing tries again.
Aborted(c) ==
  /\ clerk[c].pc # "idle"
  /\ Ends(c)
  /\ UNCHANGED Unwritten

ClerkStep(c) ==
  \/ UploadCommits(c) \/ NextLine(c) \/ Candidate(c) \/ NoCandidate(c) \/ LockLine(c)
  \/ LockFace(c) \/ Refuse(c) \/ Accept(c) \/ RunDone(c) \/ Flush(c)

BankNext ==
  \E c \in Clerk : Upload(c) \/ Reconcile(c) \/ AutoMatch(c) \/ ClerkStep(c) \/ Aborted(c)

BankSpec == BankInit /\ [][BankNext]_bankVars

-----------------------------------------------------------------------------
(* Properties.                                                             *)

(* Whoever has passed the checks is not refused by the unique indexes      *)
(* later: the row locks alone, taken line first and then target, keep two  *)
(* requests from matching one line or one target, a run's stale view of    *)
(* its lines included.                                                     *)
PassedChecksHold ==
  \A c \in Clerk : \A m \in clerk[c].made :
    /\ ~Collides(m)
    /\ \A d \in Clerk \ {c} : \A n \in clerk[d].made : n.line # m.line /\ n.face # m.face

(* A line is marked MATCHED exactly when one reconciliation holds it, a    *)
(* target is held by one at most, and money that came in is matched with   *)
(* money that came in, of the same amount and on the same account.         *)
MatchedLinesAgree ==
  /\ \A l \in Line : lineStatus[l] = "MATCHED" <=> \E m \in matches : m.line = l
  /\ \A m \in matches, n \in matches : m.line = n.line \/ m.face = n.face => m = n
  /\ \A m \in matches :
       /\ m.amount = LineOf[m.line].amount /\ m.amount = FaceOf[m.face].amount
       /\ FaceOf[m.face].kind # "TRANSACTION" =>
            /\ FaceOf[m.face].side = LineOf[m.line].side
            /\ FaceOf[m.face].account = AccountOf[LineOf[m.line].import]
=============================================================================
