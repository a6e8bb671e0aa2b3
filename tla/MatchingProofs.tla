--------------------------- MODULE MatchingProofs ---------------------------
(***************************************************************************)
(* Matching, of bank lines with transactions and of documents with         *)
(* invoices and bills.                                                     *)
(*                                                                         *)
(* BankReconciliation, for every statement, every set of books and any     *)
(* number of clerks: the locks of a request cover whatever it is about to  *)
(* write, the locks of two requests are disjoint, and so what one has      *)
(* found free of matches stays free until it writes.                       *)
(*                                                                         *)
(* Matching, for every set of parties, targets, instalments and documents: *)
(* a best candidate exists and is the best, the weights of the signals     *)
(* bound every score, and so a document that is matched with certainty     *)
(* names its target, and no rival comes near it.                           *)
(***************************************************************************)
EXTENDS BankReconciliation, Matching, Sums, WellFoundedInduction, TLAPS

-----------------------------------------------------------------------------
(* The requests of a bank reconciliation.                                  *)

\* The matches of one request: each within its locks, and no two of one row.
Sound(j) ==
  /\ \A m \in j.made : /\ m.line \in j.lines /\ m.face \in j.faces
                       /\ Agree(m.line, m.face) /\ m.amount = LineOf[m.line].amount
  /\ \A m \in j.made, n \in j.made : m.line = n.line \/ m.face = n.face => m = n

\* What it has in hand is not what it has already matched.
Fresh(j) ==
  /\ \A m \in j.made : m.line \notin j.todo
  /\ j.pc \in {"candidate", "line", "face", "check"} => \A m \in j.made : m.line # j.line
  /\ j.pc \in {"line", "face", "check"} => \A m \in j.made : m.face # j.face

\* A line is locked before its target, and both before the checks.
Locked(j) ==
  /\ j.pc \in {"face", "check"} => j.line \in j.lines
  /\ j.pc = "check" => j.face \in j.faces

\* Only lines of statements that are on file are worked on.
OnFile(j, I) ==
  /\ \A l \in j.todo : LineOf[l].import \in I
  /\ j.pc \in {"candidate", "line", "face", "check"} => LineOf[j.line].import \in I
  /\ \A m \in j.made : LineOf[m.line].import \in I

\* None of its matches is of a row that a match in M is of.
Clear(j, M) == \A m \in j.made, n \in M : n.line # m.line /\ n.face # m.face

Exclusive(j, k) == j.lines \cap k.lines = {} /\ j.faces \cap k.faces = {}

JobOK(j, I, M) ==
  j \in ClerkJob /\ Sound(j) /\ Fresh(j) /\ Locked(j) /\ OnFile(j, I) /\ Clear(j, M)

LinesOnFile == \A l \in Line : lineStatus[l] # "ABSENT" => LineOf[l].import \in imported

BankInv ==
  /\ BankTypeOK
  /\ \A c \in Clerk : JobOK(clerk[c], imported, matches)
  /\ \A c \in Clerk, d \in Clerk : c # d => Exclusive(clerk[c], clerk[d])
  /\ LinesOnFile
  /\ MatchedLinesAgree

-----------------------------------------------------------------------------
(* What holds of one request.                                              *)

LEMMA IdleOK ==
  ASSUME NEW I, NEW M
  PROVE  JobOK(Idle, I, M)
<1>1. Idle \in ClerkJob
  <2>1. (CHOOSE i \in Import : TRUE) \in Import
    BY BankAssumption
  <2>2. (CHOOSE l \in Line : TRUE) \in Line
    BY BankAssumption
  <2>3. (CHOOSE f \in Face : TRUE) \in Face
    BY BankAssumption
  <2> QED BY <2>1, <2>2, <2>3 DEF Idle, ClerkJob
<1>2. /\ Idle.made = {} /\ Idle.todo = {} /\ Idle.pc = "idle"
  BY DEF Idle
<1> QED BY <1>1, <1>2 DEF JobOK, Sound, Fresh, Locked, OnFile, Clear

\* Nothing is written yet.
Kept ==
  /\ UNCHANGED <<imported, lineStatus, matches>>
  /\ uploads' \in 0..MaxUploads /\ tries' \in 0..MaxMatches

LEMMA UnwrittenKept ==
  ASSUME BankTypeOK, UNCHANGED Unwritten
  PROVE  Kept
  BY DEF BankTypeOK, Kept, Unwritten

\* A request that changes only its own job, within its locks, keeps everything.
LEMMA OwnStep ==
  ASSUME BankInv, NEW c \in Clerk, NEW j, Kept,
         clerk' = [clerk EXCEPT ![c] = j],
         JobOK(j, imported, matches),
         \A d \in Clerk \ {c} : Exclusive(j, clerk[d])
  PROVE  BankInv'
<1>1. /\ imported' = imported /\ lineStatus' = lineStatus /\ matches' = matches
      /\ uploads' \in 0..MaxUploads /\ tries' \in 0..MaxMatches
  BY DEF Kept
<1>2. clerk \in [Clerk -> ClerkJob] /\ j \in ClerkJob
  BY DEF BankInv, BankTypeOK, JobOK
<1>3. clerk'[c] = j /\ \A d \in Clerk \ {c} : clerk'[d] = clerk[d]
  BY <1>2
<1>4. BankTypeOK'
  BY <1>1, <1>2 DEF BankInv, BankTypeOK
<1>5. \A d \in Clerk : JobOK(clerk'[d], imported', matches')
  <2> TAKE d \in Clerk
  <2>1. JobOK(clerk[d], imported, matches)
    BY DEF BankInv
  <2> QED BY <1>1, <1>3, <2>1
<1>6. \A d \in Clerk, e \in Clerk : d # e => Exclusive(clerk'[d], clerk'[e])
  <2> TAKE d \in Clerk, e \in Clerk
  <2> HAVE d # e
  <2>1. CASE d = c
    BY <1>3, <2>1
  <2>2. CASE e = c
    BY <1>3, <2>2 DEF Exclusive
  <2>3. CASE d # c /\ e # c
    BY <1>3, <2>3 DEF BankInv
  <2> QED BY <2>1, <2>2, <2>3
<1>7. LinesOnFile' /\ MatchedLinesAgree'
  BY <1>1 DEF BankInv, LinesOnFile, MatchedLinesAgree
<1> QED BY <1>4, <1>5, <1>6, <1>7 DEF BankInv

\* The same, with the locks it had.
LEMMA SameLocks ==
  ASSUME BankInv, NEW c \in Clerk, NEW j, Kept,
         clerk' = [clerk EXCEPT ![c] = j],
         JobOK(j, imported, matches),
         j.lines = clerk[c].lines \/ j.lines = {},
         j.faces = clerk[c].faces \/ j.faces = {}
  PROVE  BankInv'
<1>1. \A d \in Clerk \ {c} : Exclusive(j, clerk[d])
  BY DEF BankInv, Exclusive
<1> QED BY <1>1, OwnStep

\* Giving up takes every lock with it.
LEMMA EndsKeeps ==
  ASSUME BankInv, NEW c \in Clerk, Kept, Ends(c)
  PROVE  BankInv'
<1>1. JobOK(Idle, imported, matches)
  BY IdleOK
<1>2. Idle.lines = {} /\ Idle.faces = {}
  BY DEF Idle
<1> QED BY <1>1, <1>2, SameLocks DEF Ends

LEMMA JobOfClerk ==
  ASSUME BankInv, NEW c \in Clerk
  PROVE  JobOK(clerk[c], imported, matches)
  BY DEF BankInv

-----------------------------------------------------------------------------
(* The steps of a request.                                                 *)

LEMMA UploadKeeps ==
  ASSUME BankInv, NEW c \in Clerk, Upload(c)
  PROVE  BankInv'
<1>1. PICK i \in Import :
        clerk' = [clerk EXCEPT ![c] = [Idle EXCEPT !.pc = "uploading", !.import = i]]
  BY DEF Upload
<1> DEFINE j == [Idle EXCEPT !.pc = "uploading", !.import = i]
<1>2. Kept
  BY BankAssumption DEF Upload, Kept, BankInv, BankTypeOK
<1>3. Idle \in ClerkJob
  BY IdleOK DEF JobOK
<1>4. j \in ClerkJob /\ j.made = {} /\ j.todo = {} /\ j.pc = "uploading" /\ j.lines = {} /\ j.faces = {}
  <2>1. j \in ClerkJob
    BY <1>3 DEF ClerkJob
  <2>2. Idle.made = {} /\ Idle.todo = {} /\ Idle.lines = {} /\ Idle.faces = {}
    BY DEF Idle
  <2> QED BY <1>3, <2>1, <2>2 DEF ClerkJob
<1>5. JobOK(j, imported, matches)
  BY <1>4 DEF JobOK, Sound, Fresh, Locked, OnFile, Clear
<1> QED BY <1>1, <1>2, <1>4, <1>5, SameLocks

LEMMA UploadCommitsKeeps ==
  ASSUME BankInv, NEW c \in Clerk, UploadCommits(c)
  PROVE  BankInv'
<1> DEFINE i == clerk[c].import
<1>1. /\ imported' = imported \cup {i} /\ matches' = matches /\ uploads' = uploads /\ tries' = tries
      /\ lineStatus' = [l \in Line |->
           IF LineOf[l].import = i /\ i \notin imported THEN "UNMATCHED_BANK" ELSE lineStatus[l]]
      /\ clerk' = [clerk EXCEPT ![c] = Idle]
  BY DEF UploadCommits, Ends
<1>2. BankTypeOK /\ clerk[c] \in ClerkJob /\ LinesOnFile /\ MatchedLinesAgree
  BY DEF BankInv, BankTypeOK
<1>3. i \in Import /\ Idle \in ClerkJob
  BY <1>2, IdleOK DEF ClerkJob, JobOK
<1>4. BankTypeOK'
  <2>1. lineStatus' \in [Line -> {"ABSENT", "UNMATCHED_BANK", "MATCHED"}]
    BY <1>1, <1>2 DEF BankTypeOK
  <2>2. clerk' \in [Clerk -> ClerkJob]
    BY <1>1, <1>2, <1>3 DEF BankTypeOK
  <2> QED BY <1>1, <1>2, <1>3, <2>1, <2>2 DEF BankTypeOK
<1>5. clerk'[c] = Idle /\ \A d \in Clerk \ {c} : clerk'[d] = clerk[d]
  BY <1>1, <1>2 DEF BankTypeOK
<1>6. \A d \in Clerk : JobOK(clerk'[d], imported', matches')
  <2> TAKE d \in Clerk
  <2>1. CASE d = c
    BY <1>5, <2>1, IdleOK
  <2>2. CASE d # c
    <3>1. JobOK(clerk[d], imported, matches)
      BY JobOfClerk
    <3> QED BY <1>1, <1>5, <2>2, <3>1 DEF JobOK, OnFile
  <2> QED BY <2>1, <2>2
<1>7. \A d \in Clerk, e \in Clerk : d # e => Exclusive(clerk'[d], clerk'[e])
  BY <1>5 DEF BankInv, Exclusive, Idle
<1>8. LinesOnFile'
  BY <1>1, <1>2 DEF LinesOnFile, BankTypeOK
<1>9. MatchedLinesAgree'
  <2>1. \A l \in Line : lineStatus'[l] = "MATCHED" <=> lineStatus[l] = "MATCHED"
    BY <1>1, <1>2 DEF LinesOnFile, BankTypeOK
  <2> QED BY <1>1, <1>2, <2>1 DEF MatchedLinesAgree
<1> QED BY <1>4, <1>6, <1>7, <1>8, <1>9 DEF BankInv

LEMMA ReconcileKeeps ==
  ASSUME BankInv, NEW c \in Clerk, Reconcile(c)
  PROVE  BankInv'
<1>1. PICK l \in Line, f \in Face :
        /\ lineStatus[l] # "ABSENT"
        /\ clerk' = [clerk EXCEPT ![c] = [Idle EXCEPT !.pc = "line", !.line = l, !.face = f]]
  BY DEF Reconcile
<1> DEFINE j == [Idle EXCEPT !.pc = "line", !.line = l, !.face = f]
<1>2. Kept
  BY BankAssumption DEF Reconcile, Kept, BankInv, BankTypeOK
<1>3. Idle \in ClerkJob
  BY IdleOK DEF JobOK
<1>4. /\ j \in ClerkJob /\ j.made = {} /\ j.todo = {} /\ j.pc = "line" /\ j.line = l
      /\ j.lines = {} /\ j.faces = {}
  <2>1. j \in ClerkJob
    BY <1>3 DEF ClerkJob
  <2>2. Idle.made = {} /\ Idle.todo = {} /\ Idle.lines = {} /\ Idle.faces = {}
    BY DEF Idle
  <2> QED BY <1>3, <2>1, <2>2 DEF ClerkJob
<1>5. LineOf[l].import \in imported
  BY <1>1 DEF BankInv, LinesOnFile
<1>6. JobOK(j, imported, matches)
  BY <1>4, <1>5 DEF JobOK, Sound, Fresh, Locked, OnFile, Clear
<1> QED BY <1>1, <1>2, <1>4, <1>6, SameLocks

LEMMA AutoMatchKeeps ==
  ASSUME BankInv, NEW c \in Clerk, AutoMatch(c)
  PROVE  BankInv'
<1> DEFINE open(i) == {l \in Line : LineOf[l].import = i /\ lineStatus[l] = "UNMATCHED_BANK"}
           job(i) == [Idle EXCEPT !.pc = "next", !.auto = TRUE, !.import = i, !.todo = open(i)]
<1>1. PICK i \in imported : clerk' = [clerk EXCEPT ![c] = job(i)]
  BY DEF AutoMatch
<1> DEFINE j == job(i)
<1>2. Kept /\ i \in Import
  BY BankAssumption DEF AutoMatch, Kept, BankInv, BankTypeOK
<1>3. Idle \in ClerkJob /\ open(i) \subseteq Line
  BY IdleOK DEF JobOK
<1>4. /\ j \in ClerkJob /\ j.made = {} /\ j.todo = open(i) /\ j.pc = "next"
      /\ j.lines = {} /\ j.faces = {}
  <2> HIDE DEF open
  <2>1. j \in ClerkJob
    BY <1>2, <1>3 DEF ClerkJob
  <2>2. Idle.made = {} /\ Idle.lines = {} /\ Idle.faces = {}
    BY DEF Idle
  <2> QED BY <1>3, <2>1, <2>2 DEF ClerkJob
<1>5. \A l \in j.todo : LineOf[l].import \in imported
  BY <1>1, <1>4
<1> HIDE DEF job
<1>6. JobOK(j, imported, matches)
  BY <1>4, <1>5 DEF JobOK, Sound, Fresh, Locked, OnFile, Clear
<1> QED BY <1>1, <1>2, <1>4, <1>6, SameLocks

\* A step of a request under way that writes nothing and keeps its locks.
LEMMA WorkKeeps ==
  ASSUME BankInv, NEW c \in Clerk, UNCHANGED Unwritten, NEW j,
         clerk' = [clerk EXCEPT ![c] = j],
         j \in ClerkJob, Fresh(j), Locked(j), OnFile(j, imported),
         j.made = clerk[c].made, j.lines = clerk[c].lines, j.faces = clerk[c].faces
  PROVE  BankInv'
<1>1. Kept
  BY UnwrittenKept DEF BankInv
<1>2. Sound(clerk[c]) /\ Clear(clerk[c], matches)
  BY JobOfClerk DEF JobOK
<1>3. JobOK(j, imported, matches)
  BY <1>2 DEF JobOK, Sound, Clear
<1> QED BY <1>1, <1>3, SameLocks

LEMMA LeastOfNaturals ==
  ASSUME NEW S, S \subseteq Nat, S # {}
  PROVE  \E x \in S : \A y \in S : x <= y
<1>1. PICK n \in S : \A y \in S : <<y, n>> \notin OpToRel(<, Nat)
  BY NatLessThanWellFounded, WFMin
<1>2. \A y \in S : y \in Nat /\ n \in Nat /\ ~(y < n)
  BY <1>1 DEF OpToRel
<1> QED BY <1>2

LEMMA NextLineKeeps ==
  ASSUME BankInv, NEW c \in Clerk, NextLine(c)
  PROVE  BankInv'
<1> DEFINE job(l) == [clerk[c] EXCEPT !.pc = "candidate", !.line = l, !.byDate = FALSE,
                                      !.rest = ByReference(l)]
<1>1. clerk[c] \in ClerkJob /\ Fresh(clerk[c]) /\ OnFile(clerk[c], imported)
  BY JobOfClerk DEF JobOK
<1>2. PICK l \in clerk[c].todo : clerk' = [clerk EXCEPT ![c] = job(l)]
  <2> DEFINE least == CHOOSE x \in clerk[c].todo : \A y \in clerk[c].todo : x <= y
  <2>1. clerk[c].todo # {} /\ clerk' = [clerk EXCEPT ![c] = job(least)]
    BY DEF NextLine
  <2>2. \E x \in clerk[c].todo : \A y \in clerk[c].todo : x <= y
    <3>1. clerk[c].todo \subseteq Nat
      BY <1>1, BankAssumption DEF ClerkJob
    <3> QED BY <2>1, <3>1, LeastOfNaturals
  <2>3. least \in clerk[c].todo
    BY <2>2
  <2> QED BY <2>1, <2>3
<1> DEFINE j == [clerk[c] EXCEPT !.pc = "candidate", !.line = l, !.byDate = FALSE,
                                 !.rest = ByReference(l)]
<1>6. clerk' = [clerk EXCEPT ![c] = j]
  BY <1>2
<1>3. /\ j \in ClerkJob /\ j.pc = "candidate" /\ j.line = l /\ j.todo = clerk[c].todo
      /\ j.made = clerk[c].made /\ j.lines = clerk[c].lines /\ j.faces = clerk[c].faces
  <2>1. l \in Line /\ ByReference(l) \subseteq Face
    BY <1>1, <1>2 DEF ClerkJob, ByReference
  <2> QED BY <1>1, <2>1 DEF ClerkJob
<1> HIDE DEF j
<1>4. Fresh(j) /\ Locked(j) /\ OnFile(j, imported)
  BY <1>1, <1>2, <1>3 DEF Fresh, Locked, OnFile
<1>5. UNCHANGED Unwritten
  BY DEF NextLine
<1> QED BY <1>6, <1>3, <1>4, <1>5, WorkKeeps

LEMMA CandidateKeeps ==
  ASSUME BankInv, NEW c \in Clerk, Candidate(c)
  PROVE  BankInv'
<1>1. /\ clerk[c] \in ClerkJob /\ Fresh(clerk[c]) /\ OnFile(clerk[c], imported)
      /\ clerk[c].pc = "candidate"
  BY JobOfClerk DEF JobOK, Candidate
<1>2. PICK f \in clerk[c].rest \ Claimed(c) : clerk' = [clerk EXCEPT ![c] =
        [clerk[c] EXCEPT !.pc = "line", !.face = f, !.rest = clerk[c].rest \ {f}]]
  BY DEF Candidate
<1> DEFINE j == [clerk[c] EXCEPT !.pc = "line", !.face = f, !.rest = clerk[c].rest \ {f}]
<1>6. clerk' = [clerk EXCEPT ![c] = j]
  BY <1>2 DEF BankInv, BankTypeOK
<1>3. /\ j \in ClerkJob /\ j.pc = "line" /\ j.line = clerk[c].line /\ j.face = f
      /\ j.todo = clerk[c].todo /\ j.made = clerk[c].made
      /\ j.lines = clerk[c].lines /\ j.faces = clerk[c].faces
  BY <1>1, <1>2 DEF ClerkJob
<1> HIDE DEF j
<1>4. Fresh(j) /\ Locked(j) /\ OnFile(j, imported)
  BY <1>1, <1>2, <1>3 DEF Fresh, Locked, OnFile, Claimed
<1>5. UNCHANGED Unwritten
  BY DEF Candidate
<1> QED BY <1>6, <1>3, <1>4, <1>5, WorkKeeps

LEMMA NoCandidateKeeps ==
  ASSUME BankInv, NEW c \in Clerk, NoCandidate(c)
  PROVE  BankInv'
<1> DEFINE j == IF clerk[c].byDate
                THEN [clerk[c] EXCEPT !.pc = "next", !.todo = clerk[c].todo \ {clerk[c].line}]
                ELSE [clerk[c] EXCEPT !.byDate = TRUE, !.rest = ByDate(clerk[c].line)]
<1>1. /\ clerk[c] \in ClerkJob /\ Fresh(clerk[c]) /\ OnFile(clerk[c], imported)
      /\ clerk[c].pc = "candidate"
  BY JobOfClerk DEF JobOK, NoCandidate
<1>2. clerk' = [clerk EXCEPT ![c] = j] /\ UNCHANGED Unwritten
  BY <1>1 DEF NoCandidate, BankInv, BankTypeOK
<1>3. /\ j \in ClerkJob /\ j.pc \in {"next", "candidate"} /\ j.line = clerk[c].line
      /\ j.todo \subseteq clerk[c].todo /\ j.made = clerk[c].made
      /\ j.lines = clerk[c].lines /\ j.faces = clerk[c].faces
  <2>1. ByDate(clerk[c].line) \subseteq Face
    BY DEF ByDate
  <2>2. CASE clerk[c].byDate
    BY <1>1, <2>2 DEF ClerkJob
  <2>3. CASE ~clerk[c].byDate
    BY <1>1, <2>1, <2>3 DEF ClerkJob
  <2> QED BY <2>2, <2>3
<1> HIDE DEF j
<1>4. Fresh(j) /\ Locked(j) /\ OnFile(j, imported)
  BY <1>1, <1>3 DEF Fresh, Locked, OnFile
<1> QED BY <1>2, <1>3, <1>4, WorkKeeps

LEMMA RunDoneKeeps ==
  ASSUME BankInv, NEW c \in Clerk, RunDone(c)
  PROVE  BankInv'
<1> DEFINE j == [clerk[c] EXCEPT !.pc = "flush"]
<1>1. clerk[c] \in ClerkJob /\ Fresh(clerk[c]) /\ OnFile(clerk[c], imported)
  BY JobOfClerk DEF JobOK
<1>2. clerk' = [clerk EXCEPT ![c] = j] /\ UNCHANGED Unwritten
  BY DEF RunDone, BankInv, BankTypeOK
<1>3. /\ j \in ClerkJob /\ j.pc = "flush" /\ j.todo = clerk[c].todo /\ j.made = clerk[c].made
      /\ j.lines = clerk[c].lines /\ j.faces = clerk[c].faces
  BY <1>1 DEF ClerkJob
<1> HIDE DEF j
<1>4. Fresh(j) /\ Locked(j) /\ OnFile(j, imported)
  BY <1>1, <1>3 DEF Fresh, Locked, OnFile
<1> QED BY <1>2, <1>3, <1>4, WorkKeeps

LEMMA RefuseKeeps ==
  ASSUME BankInv, NEW c \in Clerk, Refuse(c)
  PROVE  BankInv'
<1> DEFINE j == [clerk[c] EXCEPT !.pc = "candidate"]
<1>1. /\ clerk[c] \in ClerkJob /\ Fresh(clerk[c]) /\ OnFile(clerk[c], imported)
      /\ clerk[c].pc = "check"
  BY JobOfClerk DEF JobOK, Refuse
<1>2. UNCHANGED Unwritten
  BY DEF Refuse
<1>3. CASE Ends(c)
  <2>1. Kept
    BY <1>2, UnwrittenKept DEF BankInv
  <2> QED BY <1>3, <2>1, EndsKeeps
<1>4. CASE clerk' = [clerk EXCEPT ![c] = j]
  <2>1. /\ j \in ClerkJob /\ j.pc = "candidate" /\ j.line = clerk[c].line
        /\ j.todo = clerk[c].todo /\ j.made = clerk[c].made
        /\ j.lines = clerk[c].lines /\ j.faces = clerk[c].faces
    BY <1>1 DEF ClerkJob
  <2> HIDE DEF j
  <2>2. Fresh(j) /\ Locked(j) /\ OnFile(j, imported)
    BY <1>1, <2>1 DEF Fresh, Locked, OnFile
  <2> QED BY <1>2, <1>4, <2>1, <2>2, WorkKeeps
<1> QED BY <1>3, <1>4 DEF Refuse, BankInv, BankTypeOK

LEMMA LockLineKeeps ==
  ASSUME BankInv, NEW c \in Clerk, LockLine(c)
  PROVE  BankInv'
<1> DEFINE j == [clerk[c] EXCEPT !.pc = "face", !.lines = clerk[c].lines \cup {clerk[c].line}]
<1>1. /\ clerk[c] \in ClerkJob /\ JobOK(clerk[c], imported, matches) /\ clerk[c].pc = "line"
  BY JobOfClerk DEF JobOK, LockLine
<1>2. clerk' = [clerk EXCEPT ![c] = j] /\ UNCHANGED Unwritten
  BY DEF LockLine
<1>3. /\ j \in ClerkJob /\ j.pc = "face" /\ j.line = clerk[c].line /\ j.face = clerk[c].face
      /\ j.todo = clerk[c].todo /\ j.made = clerk[c].made
      /\ j.lines = clerk[c].lines \cup {clerk[c].line} /\ j.faces = clerk[c].faces
  BY <1>1 DEF ClerkJob
<1> HIDE DEF j
<1>4. JobOK(j, imported, matches)
  BY <1>1, <1>3 DEF JobOK, Sound, Fresh, Locked, OnFile, Clear
<1>5. \A d \in Clerk \ {c} : Exclusive(j, clerk[d])
  BY <1>3 DEF LockLine, LineFree, BankInv, Exclusive
<1>6. Kept
  BY <1>2, UnwrittenKept DEF BankInv
<1> QED BY <1>2, <1>4, <1>5, <1>6, OwnStep

LEMMA LockFaceKeeps ==
  ASSUME BankInv, NEW c \in Clerk, LockFace(c)
  PROVE  BankInv'
<1> DEFINE j == [clerk[c] EXCEPT !.pc = "check", !.faces = clerk[c].faces \cup {clerk[c].face}]
<1>1. /\ clerk[c] \in ClerkJob /\ JobOK(clerk[c], imported, matches) /\ clerk[c].pc = "face"
  BY JobOfClerk DEF JobOK, LockFace
<1>2. clerk' = [clerk EXCEPT ![c] = j] /\ UNCHANGED Unwritten
  BY DEF LockFace
<1>3. /\ j \in ClerkJob /\ j.pc = "check" /\ j.line = clerk[c].line /\ j.face = clerk[c].face
      /\ j.todo = clerk[c].todo /\ j.made = clerk[c].made
      /\ j.lines = clerk[c].lines /\ j.faces = clerk[c].faces \cup {clerk[c].face}
  BY <1>1 DEF ClerkJob
<1> HIDE DEF j
<1>4. JobOK(j, imported, matches)
  BY <1>1, <1>3 DEF JobOK, Sound, Fresh, Locked, OnFile, Clear
<1>5. \A d \in Clerk \ {c} : Exclusive(j, clerk[d])
  BY <1>3 DEF LockFace, FaceFree, BankInv, Exclusive
<1>6. Kept
  BY <1>2, UnwrittenKept DEF BankInv
<1> QED BY <1>2, <1>4, <1>5, <1>6, OwnStep

\* Here the locks and the query for earlier matches make the new one sound.
LEMMA AcceptKeeps ==
  ASSUME BankInv, NEW c \in Clerk, Accept(c)
  PROVE  BankInv'
<1> DEFINE k == clerk[c]
           new == [line |-> k.line, face |-> k.face, amount |-> LineOf[k.line].amount]
           j == [k EXCEPT !.pc = IF k.auto THEN "next" ELSE "flush",
                          !.todo = k.todo \ {k.line}, !.made = k.made \cup {new}]
<1>1. k \in ClerkJob /\ JobOK(k, imported, matches) /\ k.pc = "check"
  BY JobOfClerk DEF JobOK, Accept
<1>2. clerk' = [clerk EXCEPT ![c] = j] /\ UNCHANGED Unwritten
  BY DEF Accept
<1>3. /\ new \in Match /\ new.line = k.line /\ new.face = k.face
      /\ new.amount = LineOf[k.line].amount
  BY <1>1, BankAssumption DEF ClerkJob, Match
<1>4. Agree(new.line, new.face) /\ \A n \in matches : n.line # new.line /\ n.face # new.face
  BY <1>3 DEF Accept, Accepted, AlreadyMatched
<1>5. /\ new.line \in k.lines /\ new.face \in k.faces /\ LineOf[new.line].import \in imported
      /\ \A m \in k.made : m.line # new.line /\ m.face # new.face
  BY <1>1, <1>3 DEF JobOK, Locked, OnFile, Fresh
<1>6. /\ j \in ClerkJob /\ j.pc \in {"next", "flush"}
      /\ j.todo = k.todo \ {new.line} /\ j.made = k.made \cup {new}
      /\ j.lines = k.lines /\ j.faces = k.faces
  <2> HIDE DEF new
  <2> QED BY <1>1, <1>3 DEF ClerkJob
<1> HIDE DEF j, new
<1>7. Sound(j)
  <2>1. \A m \in j.made : /\ m.line \in j.lines /\ m.face \in j.faces
                          /\ Agree(m.line, m.face) /\ m.amount = LineOf[m.line].amount
    BY <1>1, <1>3, <1>4, <1>5, <1>6 DEF JobOK, Sound
  <2>2. \A m \in j.made, n \in j.made : m.line = n.line \/ m.face = n.face => m = n
    BY <1>1, <1>5, <1>6 DEF JobOK, Sound
  <2> QED BY <2>1, <2>2 DEF Sound
<1>8. Fresh(j) /\ Locked(j) /\ OnFile(j, imported) /\ Clear(j, matches)
  BY <1>1, <1>4, <1>5, <1>6 DEF JobOK, Fresh, Locked, OnFile, Clear
<1>9. Kept /\ JobOK(j, imported, matches)
  BY <1>2, <1>6, <1>7, <1>8, UnwrittenKept DEF BankInv, JobOK
<1> QED BY <1>2, <1>6, <1>9, SameLocks

-----------------------------------------------------------------------------
(* Writing.                                                                *)

\* What a flush that no constraint refuses does to the tables.
LEMMA WrittenAgree ==
  ASSUME BankInv, NEW c \in Clerk,
         \A m \in clerk[c].made : ~Collides(m) /\ m.amount # 0,
         matches' = matches \cup clerk[c].made,
         lineStatus' = [l \in Line |->
           IF \E m \in clerk[c].made : m.line = l THEN "MATCHED" ELSE lineStatus[l]]
  PROVE  MatchedLinesAgree'
<1> DEFINE made == clerk[c].made
<1>1. made \subseteq Match /\ Sound(clerk[c]) /\ MatchedLinesAgree /\ BankTypeOK
  BY JobOfClerk DEF JobOK, ClerkJob, BankInv
<1>2. ASSUME NEW l \in Line
      PROVE  lineStatus'[l] = "MATCHED" <=> \E m \in matches' : m.line = l
  BY <1>1 DEF MatchedLinesAgree
<1>3. ASSUME NEW m \in matches', NEW n \in matches', m.line = n.line \/ m.face = n.face
      PROVE  m = n
  <2>1. CASE m \in matches /\ n \in matches
    BY <1>1, <1>3, <2>1 DEF MatchedLinesAgree
  <2>2. CASE m \in made /\ n \in made
    BY <1>1, <1>3, <2>2 DEF Sound
  <2>3. CASE m \in made /\ n \in matches
    BY <1>3, <2>3 DEF Collides
  <2>4. CASE m \in matches /\ n \in made
    BY <1>3, <2>4 DEF Collides
  <2> QED BY <2>1, <2>2, <2>3, <2>4
<1>4. ASSUME NEW m \in matches'
      PROVE  /\ m.amount = LineOf[m.line].amount /\ m.amount = FaceOf[m.face].amount
             /\ FaceOf[m.face].kind # "TRANSACTION" =>
                  /\ FaceOf[m.face].side = LineOf[m.line].side
                  /\ FaceOf[m.face].account = AccountOf[LineOf[m.line].import]
  <2>1. CASE m \in matches
    BY <1>1, <2>1 DEF MatchedLinesAgree
  <2>2. CASE m \in made
    <3>1. m.amount = LineOf[m.line].amount /\ m.amount # 0 /\ Agree(m.line, m.face) /\ m.line \in Line
      BY <1>1, <2>2 DEF Sound, Match
    <3>2. LineOf[m.line].side # "NONE"
      BY <3>1, BankAssumption
    <3> QED BY <3>1, <3>2 DEF Agree
  <2> QED BY <2>1, <2>2
<1> QED BY <1>2, <1>3, <1>4 DEF MatchedLinesAgree

LEMMA FlushKeeps ==
  ASSUME BankInv, NEW c \in Clerk, Flush(c)
  PROVE  BankInv'
<1> DEFINE made == clerk[c].made
<1>1. /\ Ends(c) /\ imported' = imported /\ uploads' = uploads /\ tries' = tries
  BY DEF Flush
<1>2. CASE UNCHANGED <<matches, lineStatus>>
  <2>1. Kept
    BY <1>1, <1>2 DEF Kept, BankInv, BankTypeOK
  <2> QED BY <1>1, <2>1, EndsKeeps
<1>3. CASE /\ \A m \in made : ~Collides(m) /\ m.amount # 0
           /\ matches' = matches \cup made
           /\ lineStatus' = [l \in Line |->
                IF \E m \in made : m.line = l THEN "MATCHED" ELSE lineStatus[l]]
  <2>1. /\ BankTypeOK /\ made \subseteq Match /\ JobOK(clerk[c], imported, matches)
        /\ Idle \in ClerkJob
    BY JobOfClerk, IdleOK DEF JobOK, ClerkJob, BankInv
  <2>2. clerk'[c] = Idle /\ \A d \in Clerk \ {c} : clerk'[d] = clerk[d]
    BY <1>1, <2>1 DEF Ends, BankTypeOK
  <2>3. BankTypeOK'
    <3>1. lineStatus' \in [Line -> {"ABSENT", "UNMATCHED_BANK", "MATCHED"}]
      BY <1>3, <2>1 DEF BankTypeOK
    <3>2. clerk' \in [Clerk -> ClerkJob]
      BY <1>1, <2>1 DEF Ends, BankTypeOK
    <3> QED BY <1>1, <1>3, <2>1, <3>1, <3>2 DEF BankTypeOK
  <2>4. ASSUME NEW d \in Clerk
        PROVE  JobOK(clerk'[d], imported', matches')
    <3>1. CASE d = c
      BY <2>2, <3>1, IdleOK
    <3>2. CASE d # c
      <4>1. JobOK(clerk[d], imported, matches) /\ Exclusive(clerk[c], clerk[d])
        BY <3>2, JobOfClerk DEF BankInv
      <4>2. Clear(clerk[d], matches \cup made)
        BY <2>1, <4>1 DEF JobOK, Clear, Sound, Exclusive
      <4>3. JobOK(clerk[d], imported, matches \cup made)
        BY <4>1, <4>2 DEF JobOK
      <4> QED BY <1>1, <1>3, <2>2, <3>2, <4>3
    <3> QED BY <3>1, <3>2
  <2>5. \A d \in Clerk, e \in Clerk : d # e => Exclusive(clerk'[d], clerk'[e])
    BY <2>2 DEF BankInv, Exclusive, Idle
  <2>6. LinesOnFile'
    BY <1>1, <1>3, <2>1 DEF LinesOnFile, BankTypeOK, BankInv, JobOK, OnFile
  <2>7. MatchedLinesAgree'
    BY <1>3, WrittenAgree
  <2> QED BY <2>3, <2>4, <2>5, <2>6, <2>7 DEF BankInv
<1> QED BY <1>2, <1>3 DEF Flush

LEMMA AbortedKeeps ==
  ASSUME BankInv, NEW c \in Clerk, Aborted(c)
  PROVE  BankInv'
<1>1. Kept
  BY UnwrittenKept DEF Aborted, BankInv
<1> QED BY <1>1, EndsKeeps DEF Aborted

-----------------------------------------------------------------------------
(* The theorems.                                                           *)

LEMMA BankInvInit == BankInit => BankInv
<1> SUFFICES ASSUME BankInit PROVE BankInv
  OBVIOUS
<1>1. \A c \in Clerk : clerk[c] = Idle /\ JobOK(clerk[c], imported, matches)
  BY IdleOK DEF BankInit
<1>2. BankTypeOK
  BY <1>1, BankAssumption DEF BankInit, BankTypeOK, JobOK
<1>3. \A c \in Clerk, d \in Clerk : c # d => Exclusive(clerk[c], clerk[d])
  <2>1. Idle.lines = {} /\ Idle.faces = {}
    BY DEF Idle
  <2> QED BY <1>1, <2>1 DEF Exclusive
<1>4. matches = {} /\ \A l \in Line : lineStatus[l] = "ABSENT"
  BY DEF BankInit
<1>5. LinesOnFile
  BY <1>4 DEF LinesOnFile
<1>6. MatchedLinesAgree
  BY <1>4 DEF MatchedLinesAgree
<1> QED BY <1>1, <1>2, <1>3, <1>5, <1>6 DEF BankInv

LEMMA BankInvStep == BankInv /\ [BankNext]_bankVars => BankInv'
<1> SUFFICES ASSUME BankInv, [BankNext]_bankVars PROVE BankInv'
  OBVIOUS
<1>1. CASE UNCHANGED bankVars
  <2>1. /\ imported' = imported /\ lineStatus' = lineStatus /\ matches' = matches
        /\ clerk' = clerk /\ uploads' = uploads /\ tries' = tries
    BY <1>1 DEF bankVars
  <2>2. BankTypeOK'
    BY <2>1 DEF BankInv, BankTypeOK
  <2>3. LinesOnFile'
    BY <2>1 DEF BankInv, LinesOnFile
  <2>4. MatchedLinesAgree'
    BY <2>1 DEF BankInv, MatchedLinesAgree
  <2>5. \A c \in Clerk : JobOK(clerk'[c], imported', matches')
    BY <2>1, JobOfClerk
  <2>6. \A c \in Clerk, d \in Clerk : c # d => Exclusive(clerk'[c], clerk'[d])
    BY <2>1 DEF BankInv
  <2> QED BY <2>2, <2>3, <2>4, <2>5, <2>6 DEF BankInv
<1>2. ASSUME NEW c \in Clerk, ClerkStep(c)
      PROVE  BankInv'
  BY <1>2, UploadCommitsKeeps, NextLineKeeps, CandidateKeeps, NoCandidateKeeps, LockLineKeeps,
     LockFaceKeeps, RefuseKeeps, AcceptKeeps, RunDoneKeeps, FlushKeeps DEF ClerkStep
<1>3. ASSUME NEW c \in Clerk, Upload(c) \/ Reconcile(c) \/ AutoMatch(c) \/ Aborted(c)
      PROVE  BankInv'
  BY <1>3, UploadKeeps, ReconcileKeeps, AutoMatchKeeps, AbortedKeeps
<1> QED BY <1>1, <1>2, <1>3 DEF BankNext

\* Every variable of the reconciliation holds what its column or local
\* variable may hold, whatever the statements and the books say.
THEOREM BankTypes == BankSpec => []BankTypeOK
<1>1. BankInv => BankTypeOK
  BY DEF BankInv
<1> QED BY <1>1, BankInvInit, BankInvStep, PTL DEF BankSpec

\* What passed the checks of match_line and auto_match_statement is never
\* refused by the unique indexes: locking the line first and then its target
\* is enough, for any number of requests.
THEOREM ChecksHold == BankSpec => []PassedChecksHold
<1>1. BankInv => PassedChecksHold
  <2> SUFFICES ASSUME BankInv PROVE PassedChecksHold
    OBVIOUS
  <2>1. ASSUME NEW c \in Clerk, NEW m \in clerk[c].made
        PROVE  ~Collides(m)
    BY JobOfClerk DEF JobOK, Clear, Collides
  <2>2. ASSUME NEW c \in Clerk, NEW m \in clerk[c].made, NEW d \in Clerk \ {c},
               NEW n \in clerk[d].made
        PROVE  n.line # m.line /\ n.face # m.face
    <3>1. Sound(clerk[c]) /\ Sound(clerk[d]) /\ Exclusive(clerk[c], clerk[d])
      BY JobOfClerk DEF JobOK, BankInv
    <3> QED BY <3>1 DEF Sound, Exclusive
  <2> QED BY <2>1, <2>2 DEF PassedChecksHold
<1> QED BY <1>1, BankInvInit, BankInvStep, PTL DEF BankSpec

\* A bank line is MATCHED exactly while one reconciliation holds it, no target
\* is reconciled twice, and amount, direction and account agree.
THEOREM LinesAgree == BankSpec => []MatchedLinesAgree
<1>1. BankInv => MatchedLinesAgree
  BY DEF BankInv
<1> QED BY <1>1, BankInvInit, BankInvStep, PTL DEF BankSpec

-----------------------------------------------------------------------------
(* Parties and targets of documents.                                       *)

LEMMA FiniteParties == IsFiniteSet(Party) /\ Party \subseteq Int
  BY MatchAssumption

LEMMA FiniteTargets == IsFiniteSet(Target) /\ Target \subseteq Int
  BY MatchAssumption

LEMMA TargetHasParty == \A t \in Target : About[t].party \in Party \ {Blank}
<1>1. Blank \notin Nat
  BY MatchAssumption
<1>2. Party \subseteq Nat
  BY MatchAssumption
<1>3. Blank \notin Party
  BY <1>1, <1>2
<1>4. \A t \in Target : About[t].party \in Party
  BY MatchAssumption
<1> QED BY <1>3, <1>4

-----------------------------------------------------------------------------
(* Ranks.                                                                  *)

Ranking(rank) ==
  /\ DOMAIN rank \subseteq Int /\ IsFiniteSet(DOMAIN rank) /\ DOMAIN rank # {}
  /\ \A c \in DOMAIN rank : rank[c] \in Int

\* The best of a finite set of candidates exists.
LEMMA BestIsBest ==
  ASSUME NEW rank, Ranking(rank)
  PROVE  Best(rank) \in DOMAIN rank /\ \A d \in DOMAIN rank : rank[Best(rank)] >= rank[d]
<1> DEFINE S == DOMAIN rank
           Beats(c, d) == rank[c] > rank[d] \/ (rank[c] = rank[d] /\ c >= d)
           C == {s \in SUBSET S : s # {} /\ ~\E c \in s : \A d \in s : Beats(c, d)}
<1>0. S \subseteq Int /\ IsFiniteSet(S) /\ S # {} /\ \A c \in S : rank[c] \in Int
  BY DEF Ranking
<1>1. C = {}
  <2>1. SUFFICES ASSUME C # {} PROVE FALSE
    BY <2>1
  <2>2. PICK R \in C : \A Q \in C : Q \subseteq R => Q = R
    <3>1. C \in SUBSET SUBSET S
      OBVIOUS
    <3> HIDE DEF C
    <3> QED BY <1>0, <2>1, <3>1, SmallestSet
  <2>3. PICK x \in R : TRUE
    BY <2>2
  <2>4. R \ {x} \notin C
    BY <2>2, <2>3
  <2>5. R \ {x} = {} \/ \E c \in R \ {x} : \A d \in R \ {x} : Beats(c, d)
    BY <2>2, <2>4
  <2>6. CASE R \ {x} = {}
    <3>1. \A d \in R : Beats(x, d)
      BY <1>0, <2>2, <2>3, <2>6
    <3> QED BY <2>2, <2>3, <3>1
  <2>7. CASE \E c \in R \ {x} : \A d \in R \ {x} : Beats(c, d)
    <3>1. PICK c \in R \ {x} : \A d \in R \ {x} : Beats(c, d)
      BY <2>7
    <3>2. c \in S /\ x \in S /\ \A d \in R : d \in S
      BY <2>2, <2>3
    <3>3. (\A d \in R : Beats(c, d)) \/ (\A d \in R : Beats(x, d))
      BY <1>0, <3>1, <3>2
    <3> QED BY <2>2, <2>3, <3>3
  <2> QED BY <2>5, <2>6, <2>7
<1>2. S \notin C
  BY <1>1
<1>3. \E c \in S : \A d \in S : Beats(c, d)
  BY <1>0, <1>2
<1>4. Best(rank) \in S /\ \A d \in S : Beats(Best(rank), d)
  BY <1>3 DEF Best
<1> QED BY <1>0, <1>4

\* Who is not close to the best is beaten by more than the margin.
LEMMA FarFromRivals ==
  ASSUME NEW rank, Ranking(rank), NEW margin \in Nat, ~Close(rank, rank, margin),
         NEW u \in DOMAIN rank, u # Best(rank)
  PROVE  rank[Best(rank)] > rank[u] + margin
<1> DEFINE S == DOMAIN rank
           b == Best(rank)
           rest == [c \in S \ {b} |-> rank[c]]
           r == Best(rest)
<1>1. S \subseteq Int /\ IsFiniteSet(S) /\ \A c \in S : rank[c] \in Int
  BY DEF Ranking
<1>2. b \in S /\ \A d \in S : rank[b] >= rank[d]
  BY BestIsBest
<1>3. Ranking(rest)
  <2>1. DOMAIN rest = S \ {b} /\ u \in DOMAIN rest /\ IsFiniteSet(S \ {b})
    BY <1>1, FS_Subset
  <2> QED BY <1>1, <2>1 DEF Ranking
<1>4. r \in S \ {b} /\ rank[r] >= rank[u]
  <2>1. r \in DOMAIN rest /\ \A d \in DOMAIN rest : rest[r] >= rest[d]
    BY <1>3, BestIsBest
  <2> QED BY <2>1
<1>5. RunnerUp(rank) = r
  BY DEF RunnerUp
<1>6. Cardinality(S) > 1
  <2>1. {b, u} \subseteq S
    BY <1>2
  <2>3. IsFiniteSet({b}) /\ Cardinality({b}) = 1 /\ u \notin {b} /\ {b, u} = {b} \cup {u}
    BY FS_Singleton
  <2>4. Cardinality({b, u}) = 2
    BY <2>3, FS_AddElement
  <2>2. Cardinality({b, u}) <= Cardinality(S) /\ Cardinality(S) \in Nat
    BY <1>1, <2>1, FS_Subset, FS_CardinalityType
  <2> QED BY <2>2, <2>4
<1> HIDE DEF S, b, r
<1>7. ~(Apart(rank[b], rank[r]) <= margin)
  BY <1>5, <1>6 DEF Close, b, S
<1> QED BY <1>1, <1>2, <1>4, <1>7 DEF Apart, b, S

LEMMA PartyOrBlank ==
  ASSUME NEW d \in Document
  PROVE  MatchedParty(d) \in Party \cup {Blank}
<1>1. SUFFICES ASSUME PartyCandidates(d) # {} PROVE Best(PartyRanks(d)) \in Party
  BY DEF MatchedParty
<1>2. DOMAIN PartyRanks(d) = PartyCandidates(d) /\ PartyCandidates(d) \subseteq Party
  BY DEF PartyRanks, PartyCandidates
<1>3. \A p \in Party : d.similar[p] \in Nat
  BY MatchAssumption
<1>4. \A p \in PartyCandidates(d) : PartyRanks(d)[p] \in Int
  BY <1>2, <1>3 DEF PartyRanks, PartyScore
<1>5. Ranking(PartyRanks(d))
  <2>1. IsFiniteSet(PartyCandidates(d)) /\ PartyCandidates(d) \subseteq Int
    BY <1>2, FS_Subset, FiniteParties
  <2> QED BY <1>1, <1>2, <1>4, <2>1 DEF Ranking
<1> QED BY <1>2, <1>5, BestIsBest

-----------------------------------------------------------------------------
(* Scores.                                                                 *)

LEMMA MaxOfTwo == ASSUME NEW a \in Int, NEW b \in Int PROVE Max({a, b}) = IF a >= b THEN a ELSE b
<1>1. \E x \in {a, b} : \A y \in {a, b} : x >= y
  OBVIOUS
<1>2. Max({a, b}) \in {a, b} /\ \A y \in {a, b} : Max({a, b}) >= y
  BY <1>1 DEF Max
<1> QED BY <1>2

PaidOK == paid \in [Target -> Nat] /\ released \in [Target -> Nat]

\* What each signal may weigh.
LEMMA Signals ==
  ASSUME PaidOK, NEW d \in Document, NEW t \in Target, NEW party, NEW project
  PROVE  /\ Identifier(d, t) \in {0, 80, 95, 100}
         /\ Identifier(d, t) = 80 => ByOrder(d, t)
         /\ Identifier(d, t) > 80 => Named(d, t)
         /\ Relation(d, t, party) \in {0, 50, 100}
         /\ Relation(d, t, party) = 50 => party = Blank /\ PartyKnown(d, t)
         /\ Relation(d, t, party) = 100 => party = About[t].party
         /\ AmountScore(d, t) \in {0, 75, 95, 100}
         /\ AmountScore(d, t) > 0 => d.amount # Blank
         /\ DateScore(d, t) \in {0, 30, 40, 70, 100}
         /\ ProjectFit(d, t, project) \in {0, 85, 100}
<1>1. /\ Identifier(d, t) \in {0, 80, 95, 100}
      /\ Identifier(d, t) = 80 => ByOrder(d, t)
      /\ Identifier(d, t) > 80 => Named(d, t)
  BY DEF Identifier, Named
<1>2. /\ Relation(d, t, party) \in {0, 50, 100}
      /\ Relation(d, t, party) = 50 => party = Blank /\ PartyKnown(d, t)
      /\ Relation(d, t, party) = 100 => party = About[t].party
  BY DEF Relation
<1>3. /\ DateScore(d, t) \in {0, 30, 40, 70, 100}
      /\ ProjectFit(d, t, project) \in {0, 85, 100}
  BY DEF DateScore, ProjectFit
<1>4. /\ AmountScore(d, t) \in {0, 75, 95, 100}
      /\ AmountScore(d, t) > 0 => d.amount # Blank
  <2> DEFINE a == IF ExactAmount(d, t) THEN 100 ELSE IF PartAmount(d, t) THEN 75 ELSE 0
             b == IF d.intent = "SETTLEMENT" /\ RestFits(d, t) THEN 95 ELSE 0
  <2>1. AmountScore(d, t) = IF a >= b THEN a ELSE b
    BY MaxOfTwo DEF AmountScore
  <2>2. ExactAmount(d, t) \/ PartAmount(d, t) \/ RestFits(d, t) => d.amount # Blank
    BY DEF ExactAmount, PartAmount, TotalFits, RestFits
  <2> QED BY <2>1, <2>2
<1> QED BY <1>1, <1>2, <1>3, <1>4

LEMMA WeightedIs ==
  ASSUME PaidOK, NEW d \in Document, NEW t \in Target, NEW party, NEW project
  PROVE  /\ Weighted(d, t, party, project) \in Int
         /\ 0 <= Weighted(d, t, party, project) /\ Weighted(d, t, party, project) <= 10000
         /\ Weighted(d, t, party, project) >= SureScore =>
              /\ Named(d, t) \/ ByOrder(d, t)
              /\ d.amount # Blank
              /\ \/ party = About[t].party
                 \/ party = Blank /\ Named(d, t) /\ PartyKnown(d, t)
<1> DEFINE i == Identifier(d, t)
           r == Relation(d, t, party)
           a == AmountScore(d, t)
           w == DateScore(d, t)
           p == ProjectFit(d, t, project)
<1>1. /\ i \in {0, 80, 95, 100} /\ r \in {0, 50, 100} /\ a \in {0, 75, 95, 100}
      /\ w \in {0, 30, 40, 70, 100} /\ p \in {0, 85, 100}
      /\ i = 80 => ByOrder(d, t)
      /\ i > 80 => Named(d, t)
      /\ r = 50 => party = Blank /\ PartyKnown(d, t)
      /\ r = 100 => party = About[t].party
      /\ a > 0 => d.amount # Blank
  BY Signals
<1>2. Weighted(d, t, party, project) = 35 * i + 25 * r + 25 * a + 10 * w + 5 * p
  BY DEF Weighted
<1> HIDE DEF i, r, a, w, p
<1>3. /\ Weighted(d, t, party, project) \in Int
      /\ 0 <= Weighted(d, t, party, project) /\ Weighted(d, t, party, project) <= 10000
  BY <1>1, <1>2
<1>4. ASSUME Weighted(d, t, party, project) >= 8500
      PROVE  i > 0 /\ a > 0 /\ r > 0 /\ (r = 50 => i > 80)
  BY <1>1, <1>2, <1>4
<1> QED BY <1>1, <1>3, <1>4 DEF SureScore

LEMMA HighIsSure ==
  ASSUME PaidOK, NEW d \in Document, NEW t \in Target, NEW party, NEW project,
         BandOf(d, t, party, project) = "HIGH"
  PROVE  /\ Named(d, t) \/ ByOrder(d, t)
         /\ ExactAmount(d, t) \/ PartAmount(d, t)
         /\ \/ party = About[t].party
            \/ party = Blank /\ Named(d, t) /\ PartyKnown(d, t)
<1>1. /\ ~WrongAmount(d, t)
      /\ Certain(d, t, party) \/ Weighted(d, t, party, project) >= SureScore
  BY DEF BandOf
<1>2. CASE Certain(d, t, party)
  BY <1>2 DEF Certain
<1>3. CASE Weighted(d, t, party, project) >= SureScore
  BY <1>1, <1>3, WeightedIs DEF WrongAmount
<1> QED BY <1>1, <1>2, <1>3

LEMMA ScoreIs ==
  ASSUME PaidOK, NEW d \in Document, NEW t \in Target, NEW party, NEW project
  PROVE  /\ ScoreOf(d, t, party, project) \in Int /\ ScoreOf(d, t, party, project) <= 10000
         /\ Certain(d, t, party) => ScoreOf(d, t, party, project) >= 9500
<1> DEFINE total == Weighted(d, t, party, project)
<1>1. total \in Int /\ 0 <= total /\ total <= 10000
  BY WeightedIs
<1> HIDE DEF total
<1>2. ASSUME NEW m \in {3000, 7000}
      PROVE  Min({total, m}) \in Int /\ Min({total, m}) <= 10000
  <2>1. \E x \in {total, m} : \A y \in {total, m} : x =< y
    BY <1>1
  <2>2. Min({total, m}) \in {total, m}
    BY <2>1 DEF Min
  <2>3. total \in Int /\ m \in Int /\ total <= 10000 /\ m <= 10000
    BY <1>1
  <2> QED BY <2>2, <2>3
<1>3. Max({total, 9500}) \in Int /\ 9500 <= Max({total, 9500}) /\ Max({total, 9500}) <= 10000
  <2>1. Max({total, 9500}) = IF total >= 9500 THEN total ELSE 9500
    BY <1>1, MaxOfTwo
  <2> QED BY <1>1, <2>1
<1>4. Certain(d, t, party) => ~WrongParty(t, party) /\ ~WrongAmount(d, t)
  BY DEF Certain, WrongParty, WrongAmount
<1>5. ScoreOf(d, t, party, project) =
        IF WrongParty(t, party) THEN Min({total, 3000})
        ELSE IF WrongAmount(d, t) THEN Min({total, 7000})
        ELSE IF Certain(d, t, party) THEN Max({total, 9500})
        ELSE total
  BY DEF ScoreOf, total
<1> QED BY <1>1, <1>2, <1>3, <1>4, <1>5

-----------------------------------------------------------------------------
(* The ranking of the targets of one kind.                                 *)

\* What is taken of them without a review, if anything.
LEMMA RankedIsSure ==
  ASSUME PaidOK, NEW d \in Document, NEW kind, NEW party, NEW project,
         NEW found, found = Ranked(kind, d, party, project), found.primary # Blank, found.sure
  PROVE  /\ found.primary \in Target /\ IsOpen(found.primary) /\ About[found.primary].kind = kind
         /\ BandOf(d, found.primary, party, project) = "HIGH"
         /\ \A u \in CandidatesOf(kind, d, party, project) \ {found.primary} :
              ~Certain(d, u, party)
<1> DEFINE S == CandidatesOf(kind, d, party, project)
<1>1. PICK score : score = [u \in S |-> ScoreOf(d, u, party, project)]
  OBVIOUS
<1>2. found = Outcome(d, score, Close(score, score, 500), party, project)
  BY <1>1 DEF Ranked, Chosen
<1>3. S \subseteq Target /\ \A u \in S : IsOpen(u) /\ About[u].kind = kind
  BY DEF CandidatesOf
<1> HIDE DEF S
<1>4. DOMAIN score = S
  BY <1>1
<1>5. \A u \in S : score[u] = ScoreOf(d, u, party, project)
  BY <1>1
<1>6. ASSUME NEW u \in S
      PROVE  /\ score[u] \in Int /\ score[u] <= 10000
             /\ Certain(d, u, party) => score[u] >= 9500
  BY <1>3, <1>5, ScoreIs
<1>7. /\ ~Close(score, score, 500) /\ DOMAIN score # {}
      /\ found.primary = Best(score) /\ BandOf(d, Best(score), party, project) = "HIGH"
  <2> DEFINE refused == \/ Close(score, score, 500) \/ DOMAIN score = {}
                        \/ BandOf(d, Best(score), party, project) = "LOW"
             high == BandOf(d, Best(score), party, project) = "HIGH"
  <2>1. found = IF refused THEN [ambiguous |-> Close(score, score, 500), primary |-> Blank, sure |-> FALSE]
                ELSE [ambiguous |-> FALSE, primary |-> Best(score), sure |-> high]
    BY <1>2 DEF Outcome
  <2> HIDE DEF refused, high
  <2>2. ~refused
    BY <2>1
  <2>3. found.primary = Best(score) /\ found.sure = high
    BY <2>1, <2>2
  <2>4. high
    BY <2>3
  <2> QED BY <2>2, <2>3, <2>4 DEF refused, high
<1>8. Ranking(score)
  <2>1. IsFiniteSet(S) /\ S \subseteq Int
    BY <1>3, FS_Subset, FiniteTargets
  <2>2. \A u \in DOMAIN score : score[u] \in Int
    BY <1>4, <1>6
  <2>3. DOMAIN score \subseteq Int /\ IsFiniteSet(DOMAIN score) /\ DOMAIN score # {}
    BY <1>4, <1>7, <2>1
  <2> QED BY <2>2, <2>3 DEF Ranking
<1>9. Best(score) \in S
  BY <1>4, <1>8, BestIsBest
<1>10. ASSUME NEW u \in S, u # Best(score), Certain(d, u, party)
       PROVE  FALSE
  <2>1. score[Best(score)] > score[u] + 500
    BY <1>4, <1>7, <1>8, <1>10, FarFromRivals
  <2> QED BY <1>6, <1>9, <1>10, <2>1
<1> QED BY <1>3, <1>7, <1>9, <1>10 DEF S

Blindly(d) == d.type = "TRANSFER_PROOF" /\ RoleOf(MatchedParty(d)) = Blank

LEMMA RoleIs ==
  ASSUME NEW d \in Document
  PROVE  RoleOf(MatchedParty(d)) \in {"CUSTOMER", "VENDOR", Blank}
<1> DEFINE p == MatchedParty(d)
<1>1. CASE p # Blank /\ Cardinality(RolesOf[p]) = 1
  <2>1. p \in Party /\ RolesOf[p] \subseteq {"CUSTOMER", "VENDOR"}
    BY <1>1, PartyOrBlank, MatchAssumption
  <2>2. RolesOf[p] # {}
    BY <1>1, FS_EmptySet
  <2> QED BY <1>1, <2>1, <2>2 DEF RoleOf
<1>2. CASE ~(p # Blank /\ Cardinality(RolesOf[p]) = 1)
  BY <1>2 DEF RoleOf
<1> QED BY <1>1, <1>2

LEMMA KindsAre ==
  ASSUME NEW d \in Document
  PROVE  LET k == Kinds(d, MatchedParty(d))
         IN  /\ k \in {{}, {"INVOICE"}, {"BILL"}, {"INVOICE", "BILL"}}
             /\ k = {"INVOICE", "BILL"} <=> Blindly(d)
<1> DEFINE role == RoleOf(MatchedParty(d))
<1>1. role \in {"CUSTOMER", "VENDOR", Blank} /\ Blank \notin {"CUSTOMER", "VENDOR"}
  BY RoleIs, MatchAssumption
<1>2. Kinds(d, MatchedParty(d)) =
        IF d.type = "CUSTOMER_INVOICE" THEN {"INVOICE"}
        ELSE IF d.type = "VENDOR_INVOICE" THEN {"BILL"}
        ELSE IF d.type = "TRANSFER_PROOF"
             THEN IF role = "CUSTOMER" THEN {"INVOICE"}
                  ELSE IF role = "VENDOR" THEN {"BILL"} ELSE {"INVOICE", "BILL"}
             ELSE {}
  BY DEF Kinds
<1> HIDE DEF role
<1>3. {"INVOICE", "BILL"} # {"INVOICE"} /\ {"INVOICE", "BILL"} # {"BILL"} /\ {"INVOICE", "BILL"} # {}
  OBVIOUS
<1> QED BY <1>1, <1>2, <1>3 DEF Blindly, role

-----------------------------------------------------------------------------
(* The document.                                                           *)

\* What is to be shown of a target t that is taken without a review.
Right(d, t) ==
  /\ t \in Target /\ IsOpen(t)
  /\ Named(d, t) \/ ByOrder(d, t)
  /\ ExactAmount(d, t) \/ PartAmount(d, t)
  /\ Blindly(d) \/ MatchedParty(d) \in {About[t].party, Blank}
  /\ Blindly(d) \/ MatchedParty(d) = Blank => Named(d, t) /\ PartyKnown(d, t)

Rivalless(d, t) ==
  ~Blindly(d) => \A u \in Target \ {t} : ~(/\ IsOpen(u)
                                          /\ About[u].kind = About[t].kind
                                          /\ Certain(d, u, MatchedParty(d)))

LEMMA TakenIsRight ==
  ASSUME PaidOK, NEW d \in Document, NEW found,
         found = TargetOf(d, Kinds(d, MatchedParty(d)), MatchedParty(d), MatchedProject(d)),
         found.primary # Blank, found.sure
  PROVE  Right(d, found.primary) /\ Rivalless(d, found.primary)
<1> DEFINE party == MatchedParty(d)
           project == MatchedProject(d)
           kinds == Kinds(d, party)
           t == found.primary
<1>1. /\ kinds \in {{}, {"INVOICE"}, {"BILL"}, {"INVOICE", "BILL"}}
      /\ kinds = {"INVOICE", "BILL"} <=> Blindly(d)
  BY KindsAre
<1>2. party \in Party \cup {Blank}
  BY PartyOrBlank
<1> HIDE DEF kinds, party, project
<1>3. found = TargetOf(d, kinds, party, project)
  BY DEF kinds, party, project
<1>4. CASE kinds = {}
  BY <1>3, <1>4 DEF TargetOf, NoResult
<1>5. ASSUME NEW k, kinds = {k}, ~Blindly(d)
      PROVE  Right(d, t) /\ Rivalless(d, t)
  <2>1. found = Ranked(k, d, party, project)
    <3>1. Cardinality(kinds) = 1 /\ (CHOOSE x \in kinds : TRUE) = k /\ kinds # {}
      BY <1>5, FS_Singleton
    <3> QED BY <1>3, <3>1 DEF TargetOf
  <2>2. /\ t \in Target /\ IsOpen(t) /\ About[t].kind = k
        /\ BandOf(d, t, party, project) = "HIGH"
        /\ \A u \in CandidatesOf(k, d, party, project) \ {t} : ~Certain(d, u, party)
    BY <2>1, RankedIsSure
  <2>3. Right(d, t)
    <3>1. /\ Named(d, t) \/ ByOrder(d, t)
          /\ ExactAmount(d, t) \/ PartAmount(d, t)
          /\ \/ party = About[t].party
             \/ party = Blank /\ Named(d, t) /\ PartyKnown(d, t)
      BY <2>2, HighIsSure
    <3>2. About[t].party # Blank
      BY <2>2, TargetHasParty
    <3> QED BY <1>5, <2>2, <3>1, <3>2 DEF Right, party
  <2>4. \A u \in Target : IsOpen(u) /\ About[u].kind = k /\ Certain(d, u, party) =>
           u \in CandidatesOf(k, d, party, project)
    BY DEF CandidatesOf, Positive, Certain
  <2>5. Rivalless(d, t)
    BY <2>2, <2>4 DEF Rivalless, party
  <2> QED BY <2>3, <2>5
<1>6. CASE kinds = {"INVOICE", "BILL"}
  <2>1. \E k \in {"INVOICE", "BILL"} : found = Ranked(k, d, Blank, project)
    <3>1. Cardinality(kinds) # 1 /\ kinds # {}
      <4>1. "INVOICE" # "BILL" /\ Cardinality({"INVOICE"}) = 1 /\ IsFiniteSet({"INVOICE"})
        BY FS_Singleton
      <4>2. Cardinality({"INVOICE"} \cup {"BILL"}) = 2
        BY <4>1, FS_AddElement
      <4>3. kinds = {"INVOICE"} \cup {"BILL"}
        BY <1>6
      <4> QED BY <1>6, <4>2, <4>3
    <3>2. found = OneWay(Ranked("INVOICE", d, Blank, project), Ranked("BILL", d, Blank, project))
      BY <1>3, <3>1 DEF TargetOf
    <3> QED BY <3>2 DEF OneWay, BothWays, NoResult
  <2>2. PICK k \in {"INVOICE", "BILL"} : found = Ranked(k, d, Blank, project)
    BY <2>1
  <2>3. t \in Target /\ IsOpen(t) /\ BandOf(d, t, Blank, project) = "HIGH"
    BY <2>2, RankedIsSure
  <2>4. About[t].party # Blank
    BY <2>3, TargetHasParty
  <2>5. Blindly(d)
    BY <1>1, <1>6
  <2>6. /\ Named(d, t) \/ ByOrder(d, t)
        /\ ExactAmount(d, t) \/ PartAmount(d, t)
        /\ \/ Blank = About[t].party
           \/ Named(d, t) /\ PartyKnown(d, t)
    BY <2>3, HighIsSure
  <2> QED BY <2>3, <2>4, <2>5, <2>6 DEF Right, Rivalless
<1> QED BY <1>1, <1>4, <1>5, <1>6

LEMMA VerdictIsRight ==
  ASSUME PaidOK, NEW d \in Document, NEW v, v = MatchEntities(d), v.target # Blank, ~v.review
  PROVE  Right(d, v.target) /\ Rivalless(d, v.target)
           /\ (Blindly(d) \/ v.party = About[v.target].party)
<1> DEFINE found == TargetOf(d, Kinds(d, MatchedParty(d)), MatchedParty(d), MatchedProject(d))
           ambiguous == PartyAmbiguous(d) \/ ProjectAmbiguous(d) \/ AccountAmbiguous(d)
<1>1. v = Result(d, found, MatchedParty(d), MatchedProject(d), ambiguous)
  BY DEF MatchEntities, Matched
<1> HIDE DEF found, ambiguous
<1>2. /\ v.target = found.primary /\ found.sure
      /\ v.party = IF found.primary = Blank THEN MatchedParty(d) ELSE Or(MatchedParty(d), About[found.primary].party)
  BY <1>1 DEF Result
<1>3. Right(d, found.primary) /\ Rivalless(d, found.primary)
  BY <1>2, TakenIsRight DEF found
<1> QED BY <1>2, <1>3 DEF Right, Or

-----------------------------------------------------------------------------
(* The theorems.                                                           *)

MatchInv == PaidOK /\ SureTargetIsRight /\ SureTargetHasNoRival

LEMMA MatchInvInit == MatchInit => MatchInv
  BY DEF MatchInit, MatchInv, PaidOK, SureTargetIsRight, SureTargetHasNoRival, Settled

\* The books move on: nothing is matched yet.
LEMMA BooksKeep ==
  ASSUME MatchInv, verdict = Blank, UNCHANGED verdict, PaidOK'
  PROVE  MatchInv'
<1>1. ~Settled'
  BY DEF Settled
<1> QED BY <1>1 DEF MatchInv, SureTargetIsRight, SureTargetHasNoRival

LEMMA AmountMoves ==
  ASSUME MatchInv, NEW t \in Target, NEW amount \in Instalments,
         Pay(t, amount) \/ LosePayment(t, amount) \/ ReleaseRetention(t, amount)
  PROVE  MatchInv'
<1>1. paid \in [Target -> Nat] /\ released \in [Target -> Nat] /\ amount \in Nat
  BY MatchAssumption DEF MatchInv, PaidOK
<1>2. CASE Pay(t, amount)
  <2>1. PaidOK' /\ verdict = Blank /\ UNCHANGED verdict
    BY <1>1, <1>2 DEF Pay, PaidOK, MayChange
  <2> QED BY <2>1, BooksKeep
<1>3. CASE LosePayment(t, amount)
  <2>1. paid[t] - amount \in Nat
    BY <1>1, <1>3 DEF LosePayment
  <2>2. PaidOK' /\ verdict = Blank /\ UNCHANGED verdict
    BY <1>1, <1>3, <2>1 DEF LosePayment, PaidOK, MayChange
  <2> QED BY <2>2, BooksKeep
<1>4. CASE ReleaseRetention(t, amount)
  <2>1. PaidOK' /\ verdict = Blank /\ UNCHANGED verdict
    BY <1>1, <1>4 DEF ReleaseRetention, PaidOK, MayChange
  <2> QED BY <2>1, BooksKeep
<1> QED BY <1>2, <1>3, <1>4

LEMMA CancelKeeps ==
  ASSUME MatchInv, NEW t \in Target, CancelTarget(t)
  PROVE  MatchInv'
<1>1. PaidOK' /\ verdict = Blank /\ UNCHANGED verdict
  BY DEF CancelTarget, MatchInv, PaidOK, MayChange
<1> QED BY <1>1, BooksKeep

LEMMA ReadKeeps ==
  ASSUME MatchInv, NEW d \in Document, ReadDocument(d)
  PROVE  MatchInv'
<1>1. /\ PaidOK /\ PaidOK' /\ document' = d
      /\ paid' = paid /\ released' = released /\ status' = status
  BY DEF ReadDocument, MatchInv, PaidOK, targetVars
<1>2. PICK v : v = MatchEntities(d)
  OBVIOUS
<1>3. verdict' = v
  BY <1>2 DEF ReadDocument
<1>4. Settled' => v.target # Blank /\ ~v.review
  BY <1>3 DEF Settled
<1>5. Settled' => Right(d, v.target) /\ Rivalless(d, v.target)
                   /\ (Blindly(d) \/ v.party = About[v.target].party)
  BY <1>1, <1>2, <1>4, VerdictIsRight
<1>6. MatchedBlindly' <=> Blindly(d)
  BY <1>1 DEF MatchedBlindly, Blindly
<1>7. \A u : /\ IsOpen(u)' <=> IsOpen(u)
             /\ ExactAmount(d, u)' <=> ExactAmount(d, u)
             /\ PartAmount(d, u)' <=> PartAmount(d, u)
             /\ \A p : Certain(d, u, p)' <=> Certain(d, u, p)
  BY <1>1 DEF IsOpen, OutstandingOf, Collectible, ExactAmount, TotalFits, RestFits, PartAmount, Certain
<1>8. SureTargetIsRight'
  BY <1>1, <1>3, <1>5, <1>6, <1>7 DEF SureTargetIsRight, Right
<1>9. SureTargetHasNoRival'
  BY <1>1, <1>3, <1>5, <1>6, <1>7 DEF SureTargetHasNoRival, Rivalless
<1> QED BY <1>1, <1>8, <1>9 DEF MatchInv

LEMMA MatchInvStep == MatchInv /\ [MatchNext]_matchVars => MatchInv'
<1> SUFFICES ASSUME MatchInv, [MatchNext]_matchVars PROVE MatchInv'
  OBVIOUS
<1>1. CASE UNCHANGED matchVars
  BY <1>1 DEF matchVars, targetVars, MatchInv, PaidOK, SureTargetIsRight, SureTargetHasNoRival,
     Settled, MatchedBlindly, IsOpen, OutstandingOf, Collectible, ExactAmount, TotalFits, RestFits, PartAmount, Certain
<1>2. ASSUME NEW t \in Target, NEW amount \in Instalments,
             Pay(t, amount) \/ LosePayment(t, amount) \/ ReleaseRetention(t, amount)
      PROVE  MatchInv'
  BY <1>2, AmountMoves
<1>3. ASSUME NEW t \in Target, CancelTarget(t)
      PROVE  MatchInv'
  BY <1>3, CancelKeeps
<1>4. ASSUME NEW d \in Document, ReadDocument(d)
      PROVE  MatchInv'
  BY <1>4, ReadKeeps
<1> QED BY <1>1, <1>2, <1>3, <1>4 DEF MatchNext

\* A target taken without a review is open by its status, is named by the document and of
\* the party the document names, and the amount read is its total, the rest of one partly
\* paid or a part of what is outstanding.
THEOREM SureIsRight == MatchSpec => []SureTargetIsRight
<1>1. MatchInv => SureTargetIsRight
  BY DEF MatchInv
<1> QED BY <1>1, MatchInvInit, MatchInvStep, PTL DEF MatchSpec

\* No other open target of its kind and party is named in its exact amount.
THEOREM SureHasNoRival == MatchSpec => []SureTargetHasNoRival
<1>1. MatchInv => SureTargetHasNoRival
  BY DEF MatchInv
<1> QED BY <1>1, MatchInvInit, MatchInvStep, PTL DEF MatchSpec
====
