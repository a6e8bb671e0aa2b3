---------------------- MODULE DocumentLifecycleProofs ----------------------
(***************************************************************************)
(* Proofs about DocumentLifecycle, for any documents, workers and bounds:  *)
(* it implements the queue it is built on, so that every theorem about the *)
(* queue holds of it, it posts a document at most once, after an approval, *)
(* and until somebody retries no job ends and leaves its document QUEUED.  *)
(***************************************************************************)
EXTENDS DocumentLifecycle, JobQueueProofs

-----------------------------------------------------------------------------
(* The life of documents implements the queue.                             *)

\* Every key that a request of the API enqueues is a key of the queue.
LEMMA LifeKeys ==
  ASSUME NEW d \in Doc
  PROVE  /\ ProcessKey(d) \in Key
         /\ PostKey(d) \in Key
         /\ ProcessKey(d) \in SweptKey
BY LifecycleAssumption

\* A step of a worker is a step of the queue's worker, or touches no job.
LEMMA WorkerStepsOfQueue ==
  ASSUME NEW w \in Worker, WorkerLoop(w) \/ WorkerFault(w)
  PROVE  [QueueNext]_queueVars
<1> SUFFICES ASSUME UNCHANGED queueVars \/ WorkerStep(w) \/ FaultStep(w)
             PROVE  [QueueNext]_queueVars
  <2>1. CASE (Start(w) \/ PollEmpty(w) \/ CompleteReads(w) \/ CompleteCommits(w)
              \/ \E j \in Job : Acquire(w, j)) /\ UNCHANGED docVars
    BY <2>1 DEF WorkerStep
  <2>2. CASE ProcessReads(w)
    BY <2>2 DEF ProcessReads
  <2>3. CASE ProcessCommits(w)
    BY <2>3 DEF ProcessCommits, WorkerStep
  <2>4. CASE PostJobCommits(w)
    BY <2>4 DEF PostJobCommits, WorkerStep
  <2>5. CASE HandlerFails(w)
    BY <2>5 DEF HandlerFails, WorkerStep
  <2>6. CASE FailJobReads(w) \/ FailJobCommits(w)
    BY <2>6 DEF FailJobReads, FailJobCommits, WorkerStep
  <2>7. CASE RecoveryScan(w)
    <3>1. {ProcessKey(d) : d \in {e \in Doc : doc[e].status = "QUEUED"}} \in SUBSET SweptKey
      BY LifeKeys
    <3> QED BY <2>7, <3>1 DEF RecoveryScan, WorkerStep
  <2>8. CASE RecoveryReads(w) \/ RecoveryCommits(w)
    BY <2>8 DEF RecoveryReads, RecoveryCommits, WorkerStep
  <2>9. CASE WorkerFault(w)
    BY <2>9 DEF WorkerFault, WorkerTransactionFails, CrashWorker, FaultStep
  <2> QED BY <2>1, <2>2, <2>3, <2>4, <2>5, <2>6, <2>7, <2>8, <2>9 DEF WorkerLoop
<1> QED BY DEF QueueNext

\* Any other step of the API process touches no job.
LEMMA ApiStepsOfQueue ==
  ASSUME NEW d \in Doc, ApiStep(d)
  PROVE  UNCHANGED queueVars
BY DEF ApiStep, BackgroundReads, BackgroundCommits, BackgroundLost, Correct, Approve,
       ApproveFlagsDuplicate, Reject, PostByUser

\* A request that enqueues is a request of the queue, before and while it does.
LEMMA RequestStepsOfQueue ==
  ASSUME IdleAsks, TypeInv, NEW c \in Client,
         RequestFails(c) \/ \E d \in Doc : RequestStarts(c, d) \/ RequestGoesOn(c, d)
  PROVE  [QueueNext]_queueVars
<1>1. CASE Request(c) /\ UNCHANGED <<worker, faults, lapsed>>
  BY <1>1 DEF QueueNext
<1>2. ASSUME Enqueues(c) PROVE Request(c) /\ UNCHANGED <<worker, faults, lapsed>>
  BY <1>2 DEF Enqueues, Request
<1>3. ASSUME EnqueuedBy(c) PROVE Request(c) /\ UNCHANGED <<worker, faults, lapsed>>
  BY <1>3 DEF EnqueuedBy, Request
<1>4. CASE RequestFails(c)
  <2>1. CASE ask[c].pc = "idle"
    <3>1. ask' = ask
      BY <1>4, <2>1 DEF IdleAsks, RequestFails, AskEnds, TypeInv, TypeOK
    <3> QED BY <1>4, <3>1 DEF RequestFails, queueVars
  <2>2. CASE ask[c].pc # "idle"
    BY <1>1, <1>4, <2>2 DEF RequestFails, Request, EnqueueFails
  <2> QED BY <2>1, <2>2
<1>5. ASSUME NEW d \in Doc, RequestStarts(c, d) \/ RequestGoesOn(c, d)
      PROVE  [QueueNext]_queueVars
  BY <1>1, <1>2, <1>3, <1>5
  DEF RequestStarts, RequestGoesOn, IngestReads, IngestCommits, RetryReads, RetryEnqueues,
      RetryCommits, ApproveEnqueues, ApproveCommits
<1> QED BY <1>4, <1>5

LEMMA LifeStepsOfQueue == TypeInv /\ IdleAsks /\ [LifeNext]_lifeVars => [QueueNext]_queueVars
<1> SUFFICES ASSUME TypeInv, IdleAsks, [LifeNext]_lifeVars PROVE [QueueNext]_queueVars
  OBVIOUS
<1>1. CASE \E w \in Worker : WorkerLoop(w) \/ WorkerFault(w)
  BY <1>1, WorkerStepsOfQueue
<1>2. CASE TimeStep
  BY <1>2 DEF QueueNext
<1>3. CASE \E d \in Doc : ApiStep(d)
  BY <1>3, ApiStepsOfQueue
<1>4. CASE \E c \in Client : RequestFails(c) \/ \E d \in Doc : RequestStarts(c, d) \/ RequestGoesOn(c, d)
  BY <1>4, RequestStepsOfQueue
<1>5. CASE UNCHANGED lifeVars
  BY <1>5 DEF lifeVars
<1> QED BY <1>1, <1>2, <1>3, <1>4, <1>5 DEF LifeNext

LEMMA IdleInit == LifeInit => TypeInv /\ IdleAsks
  BY TypeInvInit DEF LifeInit, QueueInit, IdleAsks

LEMMA IdleLifeStep == TypeInv /\ IdleAsks /\ [LifeNext]_lifeVars => (TypeInv /\ IdleAsks)'
  BY LifeStepsOfQueue, TypeInvStep, IdleStep

\* Whatever handlers and requests do to documents, jobs go through nothing but what the queue
\* allows them: the document life cycle implements the queue.
THEOREM LifeImplementsQueue == LifeSafety => QueueSafety
<1>1. LifeInit => QueueInit
  BY DEF LifeInit
<1> QED BY <1>1, IdleInit, IdleLifeStep, LifeStepsOfQueue, PTL DEF LifeSafety, QueueSafety

\* So a document is never queued twice at a time, ...
THEOREM LifeOneActivePerKey == LifeSafety => []OneActivePerKey
BY LifeImplementsQueue, QueueOneActivePerKey, PTL

\* ... no processing job is given up before its last attempt, ...
THEOREM LifeFailedOnlyWhenExhausted == LifeSafety => []FailedOnlyWhenExhausted
BY LifeImplementsQueue, QueueFailedOnlyWhenExhausted, PTL

\* ... and a job is run again after it was COMPLETED only if a worker lost its lease of it, or
\* a retry rearmed it.
THEOREM LifeCompletedForGood == LifeSafety => CompletedForGood
BY LifeImplementsQueue, QueueCompletedForGood, PTL

-----------------------------------------------------------------------------
(* Type correctness of the documents.                                      *)

Task == [pc: {"none", "scheduled", "loaded"}, seen: Snapshot]

\* DocTypeOK without the types of the queue.
DocTypes ==
  /\ doc \in [Doc -> Document]
  /\ seen \in [Worker -> Snapshot]
  /\ doomed \in [Worker -> SUBSET Doc]
  /\ bg \in [Doc -> Task]
  /\ retry \in [Client -> Retryable \cup {"none"}]
  /\ retries \in 0..MaxRetries
  /\ approved \in [Doc -> SUBSET Content]
  /\ ledger \in [Doc -> Seq(Posting)]

\* Under the lock of its approval a document keeps the candidate that is approved.
LockedInv == \A c \in Client, d \in Doc :
  AsksFor[c] = PostKey(d) /\ ask[c].pc # "idle" => doc[d].content # NoContent

LifeInv == TypeInv /\ IdleAsks /\ DocTypes /\ LockedInv

\* Keys tell documents apart, and processing from posting.
LEMMA KeysDiffer ==
  ASSUME NEW d \in Doc, NEW e \in Doc
  PROVE  /\ ProcessKey(d) # PostKey(e)
         /\ ProcessKey(d) = ProcessKey(e) => d = e
         /\ PostKey(d) = PostKey(e) => d = e
         /\ ProcessKey(d)[2] = d
BY DEF ProcessKey, PostKey

\* The document of a worker's handler is a document.
LEMMA HandlersDocument ==
  ASSUME NEW w \in Worker, Processing(w) \/ PostingJob(w)
  PROVE  DocOf(w) \in Doc
BY DEF Processing, PostingJob, DocOf, ProcessKey, PostKey

\* Committing an extraction leaves a document of its type, linked as it was, and neither
\* READY_TO_POST nor POSTED unless the row is that already.
LEMMA ExtractionMerges ==
  ASSUME NEW x \in Extraction, NEW s, NEW r \in Document, NEW row \in Merged(x, s, r)
  PROVE  /\ row \in Document
         /\ row.linked = r.linked
         /\ row.status \in {"READY_TO_POST", "POSTED"} => row.status = r.status
<1> USE DEF Document, DocStatus, Merged, Written, Writable, Extraction, Reviewable
<1>1. row.status \in DocStatus /\ row.linked = r.linked /\ row.linked \in BOOLEAN
  OBVIOUS
<1>2. row.flagged \in BOOLEAN /\ row.evidence \in BOOLEAN
  OBVIOUS
<1>3. row.content \in Content \cup {NoContent}
  OBVIOUS
<1>4. row.status \in {"READY_TO_POST", "POSTED"} => row.status = r.status
  OBVIOUS
<1>5. row = [status |-> row.status, flagged |-> row.flagged, evidence |-> row.evidence,
             content |-> row.content, linked |-> row.linked]
  OBVIOUS
<1> QED BY <1>1, <1>2, <1>3, <1>4, <1>5

\* A table of documents written without approval or posting, and no content under a lock.
Harmless ==
  /\ doc' \in [Doc -> Document]
  /\ \A d \in Doc : /\ doc'[d].linked = doc[d].linked
                    /\ doc'[d].status \in {"READY_TO_POST", "POSTED"}
                         => doc'[d].status = doc[d].status
                    /\ doc'[d].content = doc[d].content \/ ~Locked(d)

\* What an extraction, whatever it has read, does to the table of documents.
LEMMA ExtractionCommits ==
  ASSUME DocTypes, NEW e \in Doc, NEW s, ExtractedInto(e, s)
  PROVE  Harmless
<1>0. PICK x \in Extraction :
        \E row \in Merged(x, s, doc[e]) : doc' = [doc EXCEPT ![e] = row]
  BY DEF ExtractedInto
<1>1. PICK row \in Merged(x, s, doc[e]) : doc' = [doc EXCEPT ![e] = row]
  BY <1>0
<1>2. doc \in [Doc -> Document] /\ doc[e] \in Document
  BY DEF DocTypes
<1>3. /\ row \in Document
      /\ row.linked = doc[e].linked
      /\ row.status \in {"READY_TO_POST", "POSTED"} => row.status = doc[e].status
  BY <1>1, <1>2, ExtractionMerges
<1>4. doc' \in [Doc -> Document]
  BY <1>1, <1>2, <1>3
<1>5. \A d \in Doc : doc'[d] = IF d = e THEN row ELSE doc[d]
  BY <1>1, <1>2
<1>6. ~Locked(e)
  BY DEF ExtractedInto
<1> QED BY <1>3, <1>4, <1>5, <1>6 DEF Harmless

\* Setting the status of a set of documents, of one document, and nothing else.
SetsStatuses(S, st) ==
  doc' = [d \in Doc |-> IF d \in S THEN [doc[d] EXCEPT !.status = st] ELSE doc[d]]
SetsStatus(e, st) == doc' = [doc EXCEPT ![e].status = st]

LEMMA StatusesSet ==
  ASSUME DocTypes, NEW S, NEW st \in DocStatus, SetsStatuses(S, st)
  PROVE  /\ doc' \in [Doc -> Document]
         /\ \A d \in Doc : /\ doc'[d].linked = doc[d].linked
                           /\ doc'[d].content = doc[d].content
                           /\ doc'[d].status = IF d \in S THEN st ELSE doc[d].status
<1>1. doc \in [Doc -> Document]
  BY DEF DocTypes
<1>2. \A r \in Document : /\ [r EXCEPT !.status = st] \in Document
                          /\ [r EXCEPT !.status = st].linked = r.linked
                          /\ [r EXCEPT !.status = st].content = r.content
                          /\ [r EXCEPT !.status = st].status = st
  BY DEF Document
<1>3. \A d \in Doc : doc[d] \in Document
  BY <1>1
<1>4. doc' \in [Doc -> Document]
  BY <1>2, <1>3 DEF SetsStatuses
<1>5. \A d \in Doc : doc'[d] = IF d \in S THEN [doc[d] EXCEPT !.status = st] ELSE doc[d]
  BY DEF SetsStatuses
<1> QED BY <1>2, <1>3, <1>4, <1>5

LEMMA OneStatusSet ==
  ASSUME DocTypes, NEW e, NEW st \in DocStatus, SetsStatus(e, st)
  PROVE  /\ doc' \in [Doc -> Document]
         /\ \A d \in Doc : /\ doc'[d].linked = doc[d].linked
                           /\ doc'[d].content = doc[d].content
                           /\ doc'[d].status = IF d = e THEN st ELSE doc[d].status
<1>1. SetsStatuses({e}, st)
  BY DEF DocTypes, SetsStatus, SetsStatuses
<1>2. \A d : d \in {e} <=> d = e
  OBVIOUS
<1> QED BY <1>1, <1>2, StatusesSet

-----------------------------------------------------------------------------
(* How a step may change a document.                                       *)

\* Nothing that matters to the ledger: it does not become READY_TO_POST or POSTED.
Kept(d) ==
  /\ doc'[d].linked = doc[d].linked
  /\ doc'[d].status \in {"READY_TO_POST", "POSTED"} => doc'[d].status = doc[d].status
  /\ ledger'[d] = ledger[d]
  /\ approved'[d] = approved[d]

\* It is approved.
ApprovedNow(d) ==
  /\ doc'[d].linked = doc[d].linked
  /\ ledger'[d] = ledger[d]
  /\ approved'[d] # {}

\* It is posted, and linked, through all the gates.
PostedNow(d) ==
  /\ ~doc[d].linked
  /\ doc'[d].linked
  /\ \E by \in {"worker", "user"} :
       /\ Eligible(d, by)
       /\ ledger'[d] = Append(ledger[d], [content |-> doc[d].content, by |-> by])
  /\ approved'[d] = approved[d]

DocChange ==
  /\ DocTypes'
  /\ \A d \in Doc : /\ Kept(d) \/ ApprovedNow(d) \/ PostedNow(d)
                    /\ doc'[d].content = doc[d].content \/ ~Locked(d)

\* post_document appends one posting of a supported content, and links the document.
LEMMA PostChanges ==
  ASSUME DocTypes, NEW e \in Doc, NEW by \in {"worker", "user"}, Post(e, by),
         UNCHANGED <<seen, doomed, bg, retry, retries, approved>>
  PROVE  DocChange
<1>1. /\ ~doc[e].linked
      /\ ~Locked(e)
      /\ Eligible(e, by)
      /\ doc' = [doc EXCEPT ![e].status = "POSTED", ![e].linked = TRUE]
      /\ ledger' = [ledger EXCEPT ![e] = Append(@, [content |-> doc[e].content, by |-> by])]
  BY DEF Post, AlreadyPosted
<1>2. doc \in [Doc -> Document] /\ ledger \in [Doc -> Seq(Posting)]
  BY DEF DocTypes
<1>3. doc' = [doc EXCEPT ![e] = [doc[e] EXCEPT !.status = "POSTED", !.linked = TRUE]]
  BY <1>1, <1>2
<1>4. [doc[e] EXCEPT !.status = "POSTED", !.linked = TRUE] \in Document
  BY <1>2 DEF Document, DocStatus
<1>5. [content |-> doc[e].content, by |-> by] \in Posting
  BY <1>1, LifecycleAssumption DEF Eligible, Posting
<1>6. DocTypes'
  <2>1. doc' \in [Doc -> Document]
    BY <1>2, <1>3, <1>4
  <2>2. Append(ledger[e], [content |-> doc[e].content, by |-> by]) \in Seq(Posting)
    BY <1>2, <1>5
  <2>3. ledger' \in [Doc -> Seq(Posting)]
    BY <1>1, <1>2, <2>2
  <2> QED BY <2>1, <2>3 DEF DocTypes
<1>7. PostedNow(e)
  <2>1. doc'[e].linked
    BY <1>2, <1>3 DEF Document
  <2>2. ledger'[e] = Append(ledger[e], [content |-> doc[e].content, by |-> by])
    BY <1>1, <1>2
  <2> QED BY <1>1, <2>1, <2>2 DEF PostedNow
<1>8. \A d \in Doc : d # e => Kept(d) /\ doc'[d].content = doc[d].content
  BY <1>1, <1>2 DEF Kept
<1> QED BY <1>1, <1>6, <1>7, <1>8 DEF DocChange

LEMMA HarmlessChanges ==
  ASSUME DocTypes, Harmless, UNCHANGED <<approved, ledger>>,
         seen' \in [Worker -> Snapshot],
         doomed' \in [Worker -> SUBSET Doc],
         bg' \in [Doc -> Task],
         retry' \in [Client -> Retryable \cup {"none"}],
         retries' \in 0..MaxRetries
  PROVE  DocChange
<1>1. DocTypes'
  BY DEF DocTypes, Harmless
<1>2. \A d \in Doc : Kept(d) /\ (doc'[d].content = doc[d].content \/ ~Locked(d))
  BY DEF Kept, Harmless
<1> QED BY <1>1, <1>2 DEF DocChange

\* What is set to FAILED, QUEUED, REJECTED or back to review is harmless.
LEMMA HarmlessStatus ==
  ASSUME DocTypes, NEW e, NEW st \in DocStatus \ {"READY_TO_POST", "POSTED"}, SetsStatus(e, st)
  PROVE  Harmless
<1>1. st \in DocStatus /\ st # "READY_TO_POST" /\ st # "POSTED"
  OBVIOUS
<1> QED BY <1>1, OneStatusSet DEF Harmless

LEMMA HarmlessIfUnchanged ==
  ASSUME DocTypes, UNCHANGED doc
  PROVE  Harmless
BY DEF Harmless, DocTypes

LEMMA HarmlessFailures ==
  ASSUME DocTypes, NEW w \in Worker, FailDoomed(w)
  PROVE  Harmless
<1>1. "FAILED" \in DocStatus
  BY DEF DocStatus
<1>2. SetsStatuses(doomed[w], "FAILED")
  BY DEF FailDoomed, SetsStatuses
<1> QED BY <1>1, <1>2, StatusesSet DEF Harmless

LEMMA UnchangedChanges ==
  ASSUME DocTypes, UNCHANGED docVars
  PROVE  DocChange
BY HarmlessIfUnchanged, HarmlessChanges DEF docVars, DocTypes

LEMMA DocWorkerChanges ==
  ASSUME DocTypes, NEW w \in Worker, WorkerLoop(w) \/ WorkerFault(w)
  PROVE  DocChange
<1> USE DEF NoUser
<1>1. ASSUME Forget(w) PROVE seen' \in [Worker -> Snapshot]
  BY <1>1 DEF Forget, DocTypes, Snapshot
<1>2. ASSUME Spare(w) PROVE doomed' \in [Worker -> SUBSET Doc]
  BY <1>2 DEF Spare, DocTypes
<1>3. CASE UNCHANGED docVars
  BY <1>3, UnchangedChanges
<1>4. CASE ProcessReads(w)
  <2>1. seen' \in [Worker -> Snapshot]
    BY <1>4, HandlersDocument DEF ProcessReads, DocTypes, Snapshot
  <2> QED BY <1>4, <2>1, HarmlessIfUnchanged, HarmlessChanges DEF ProcessReads, DocTypes
<1>5. CASE ProcessCommits(w)
  <2>1. DocOf(w) \in Doc
    BY <1>5, HandlersDocument DEF ProcessCommits
  <2>2. Harmless
    BY <1>5, <2>1, HarmlessIfUnchanged, ExtractionCommits DEF ProcessCommits
  <2> QED BY <1>1, <1>5, <2>2, HarmlessChanges DEF ProcessCommits, DocTypes
<1>6. CASE PostJobCommits(w)
  <2>1. DocOf(w) \in Doc
    BY <1>6, HandlersDocument DEF PostJobCommits
  <2>2. CASE Post(DocOf(w), "worker")
    BY <1>6, <2>1, <2>2, PostChanges DEF PostJobCommits
  <2>3. CASE UNCHANGED <<doc, ledger>>
    BY <1>6, <2>3, UnchangedChanges DEF PostJobCommits, docVars
  <2> QED BY <1>6, <2>2, <2>3 DEF PostJobCommits
<1>7. CASE HandlerFails(w)
  BY <1>1, <1>7, HarmlessIfUnchanged, HarmlessChanges DEF HandlerFails, DocTypes
<1>8. CASE CrashWorker(w)
  BY <1>1, <1>2, <1>8, HarmlessIfUnchanged, HarmlessChanges DEF CrashWorker, DocTypes
<1>9. CASE WorkerTransactionFails(w)
  BY <1>2, <1>9, HarmlessIfUnchanged, HarmlessChanges DEF WorkerTransactionFails, DocTypes
<1>10. CASE FailJobReads(w)
  <2>1. doomed' \in [Worker -> SUBSET Doc]
    BY <1>10 DEF FailJobReads, DocTypes
  <2> QED BY <1>10, <2>1, HarmlessIfUnchanged, HarmlessChanges DEF FailJobReads, DocTypes
<1>11. CASE FailJobCommits(w)
  BY <1>2, <1>11, HarmlessFailures, HarmlessChanges DEF FailJobCommits, DocTypes
<1>12. CASE RecoveryReads(w)
  <2>1. doomed' \in [Worker -> SUBSET Doc]
    BY <1>12 DEF RecoveryReads, DocTypes
  <2> QED BY <1>12, <2>1, HarmlessIfUnchanged, HarmlessChanges DEF RecoveryReads, DocTypes
<1>13. CASE RecoveryCommits(w)
  <2>1. Harmless
    BY <1>13, HarmlessIfUnchanged, HarmlessFailures DEF RecoveryCommits
  <2> QED BY <1>2, <1>13, <2>1, HarmlessChanges DEF RecoveryCommits, DocTypes
<1> QED BY <1>3, <1>4, <1>5, <1>6, <1>7, <1>8, <1>9, <1>10, <1>11, <1>12, <1>13
        DEF WorkerLoop, WorkerFault, RecoveryScan

\* Approval sets READY_TO_POST and records the content it approves.
LEMMA ApproveChanges ==
  ASSUME DocTypes, NEW e \in Doc, doc[e].content # NoContent, Approved(e)
  PROVE  DocChange
<1>1. /\ doc' = [doc EXCEPT ![e].status = "READY_TO_POST"]
      /\ approved' = [approved EXCEPT ![e] = @ \cup {doc[e].content}]
      /\ UNCHANGED <<seen, doomed, bg, retry, retries, ledger>>
  BY DEF Approved
<1>2. doc \in [Doc -> Document] /\ approved \in [Doc -> SUBSET Content]
  BY DEF DocTypes
<1>3. doc[e].content \in Content
  BY <1>2 DEF Document
<1>4. /\ doc' \in [Doc -> Document]
      /\ \A d \in Doc : /\ doc'[d].linked = doc[d].linked
                        /\ doc'[d].content = doc[d].content
                        /\ doc'[d].status = IF d = e THEN "READY_TO_POST" ELSE doc[d].status
  BY <1>1, OneStatusSet DEF DocStatus, SetsStatus
<1>5. approved' \in [Doc -> SUBSET Content]
  BY <1>1, <1>2, <1>3
<1>6. DocTypes'
  BY <1>1, <1>4, <1>5 DEF DocTypes
<1>7. ApprovedNow(e)
  BY <1>1, <1>2, <1>4 DEF ApprovedNow
<1>8. \A d \in Doc : d # e => Kept(d)
  BY <1>1, <1>2, <1>4 DEF Kept
<1> QED BY <1>4, <1>6, <1>7, <1>8 DEF DocChange

\* A correction, and a suspected duplicate, leave a document of review status in review, or
\* archive it.
LEMMA ReviewChanges ==
  ASSUME DocTypes, NEW e \in Doc, Correct(e) \/ ApproveFlagsDuplicate(e)
  PROVE  /\ Harmless
         /\ \A d \in Doc : doc'[d] = doc[d] \/ doc'[d].status \in Reviewable \cup {"PROCESSED"}
<1> DEFINE Result == \A d \in Doc :
             doc'[d] = doc[d] \/ doc'[d].status \in Reviewable \cup {"PROCESSED"}
           Edited(row) == /\ row \in Document
                          /\ row.linked = doc[e].linked
                          /\ row.status \in Reviewable \cup {"PROCESSED"}
<1>1. doc \in [Doc -> Document] /\ doc[e] \in Document
  BY DEF DocTypes
<1>2. ~Locked(e)
  BY DEF Correct, ApproveFlagsDuplicate, Approvable
<1>3. ASSUME NEW row, Edited(row), doc' = [doc EXCEPT ![e] = row] PROVE Harmless /\ Result
  <2>1. doc' \in [Doc -> Document]
    BY <1>1, <1>3
  <2>2. \A d \in Doc : doc'[d] = IF d = e THEN row ELSE doc[d]
    BY <1>1, <1>3
  <2> QED BY <1>2, <1>3, <2>1, <2>2 DEF Harmless, Reviewable
<1>4. CASE \E c \in Content \cup {NoContent}, fl \in BOOLEAN,
              st \in {doc[e].status, "READY_FOR_APPROVAL"} :
             doc' = [doc EXCEPT ![e].status = st, ![e].flagged = fl, ![e].content = c,
                                ![e].evidence = FALSE]
  <2>1. PICK c \in Content \cup {NoContent}, fl \in BOOLEAN,
             st \in {doc[e].status, "READY_FOR_APPROVAL"} :
          doc' = [doc EXCEPT ![e].status = st, ![e].flagged = fl, ![e].content = c,
                             ![e].evidence = FALSE]
    BY <1>4
  <2> DEFINE row == [doc[e] EXCEPT !.status = st, !.flagged = fl, !.content = c, !.evidence = FALSE]
  <2>2. doc' = [doc EXCEPT ![e] = row]
    BY <1>1, <2>1
  <2>3. doc[e].status \in Reviewable
    BY <1>1 DEF Correct, ApproveFlagsDuplicate, Approvable
  <2>4. Edited(row)
    BY <1>1, <2>3 DEF Document, DocStatus, Reviewable
  <2> QED BY <1>3, <2>2, <2>4
<1>5. CASE \E st \in {"PROCESSED", "REVIEW_REQUIRED"}, fl \in BOOLEAN :
             doc' = [doc EXCEPT ![e].status = st, ![e].flagged = fl, ![e].evidence = TRUE]
  <2>1. PICK st \in {"PROCESSED", "REVIEW_REQUIRED"}, fl \in BOOLEAN :
          doc' = [doc EXCEPT ![e].status = st, ![e].flagged = fl, ![e].evidence = TRUE]
    BY <1>5
  <2> DEFINE row == [doc[e] EXCEPT !.status = st, !.flagged = fl, !.evidence = TRUE]
  <2>2. doc' = [doc EXCEPT ![e] = row]
    BY <1>1, <2>1
  <2>3. Edited(row)
    BY <1>1 DEF Document, DocStatus, Reviewable
  <2> QED BY <1>3, <2>2, <2>3
<1>6. CASE doc' = [doc EXCEPT ![e].status = "REVIEW_REQUIRED", ![e].flagged = TRUE]
  <2> DEFINE row == [doc[e] EXCEPT !.status = "REVIEW_REQUIRED", !.flagged = TRUE]
  <2>1. doc' = [doc EXCEPT ![e] = row]
    BY <1>1, <1>6
  <2>2. Edited(row)
    BY <1>1 DEF Document, DocStatus, Reviewable
  <2> QED BY <1>3, <2>1, <2>2
<1> QED BY <1>4, <1>5, <1>6 DEF Correct, ApproveFlagsDuplicate

LEMMA ApiChanges ==
  ASSUME DocTypes, NEW d \in Doc, ApiStep(d)
  PROVE  DocChange
<1> USE DEF NoUser
<1>1. /\ doc \in [Doc -> Document] /\ seen \in [Worker -> Snapshot]
      /\ doomed \in [Worker -> SUBSET Doc] /\ bg \in [Doc -> Task]
      /\ retry \in [Client -> Retryable \cup {"none"}] /\ retries \in 0..MaxRetries
      /\ DocTypes
  BY DEF DocTypes
<1>2. [pc |-> "none", seen |-> Unseen] \in Task /\ [pc |-> "loaded", seen |-> doc[d]] \in Task
  BY <1>1 DEF Snapshot, Task
<1>3. CASE BackgroundReads(d) \/ BackgroundLost(d)
  <2>1. bg' \in [Doc -> Task]
    BY <1>1, <1>2, <1>3 DEF BackgroundReads, BackgroundLost
  <2> QED BY <1>1, <1>3, <2>1, HarmlessIfUnchanged, HarmlessChanges
          DEF BackgroundReads, BackgroundLost
<1>4. CASE BackgroundCommits(d)
  <2>1. bg' \in [Doc -> Task]
    BY <1>1, <1>2, <1>4 DEF BackgroundCommits
  <2>2. ASSUME SetStatus(d, Written("FAILED", bg[d].seen.status, doc[d].status)) PROVE Harmless
    <3>1. SetsStatus(d, "FAILED") \/ SetsStatus(d, doc[d].status)
      BY <2>2 DEF Written, SetStatus, SetsStatus
    <3>2. CASE SetsStatus(d, "FAILED")
      BY <1>1, <3>2, HarmlessStatus DEF DocStatus
    <3>3. CASE SetsStatus(d, doc[d].status)
      <4>1. doc[d].status \in DocStatus
        BY <1>1 DEF Document
      <4> QED BY <1>1, <3>3, <4>1, OneStatusSet DEF Harmless
    <3> QED BY <3>1, <3>2, <3>3
  <2>3. Harmless
    BY <1>1, <1>4, <2>2, ExtractionCommits, HarmlessIfUnchanged DEF BackgroundCommits
  <2> QED BY <1>1, <1>4, <2>1, <2>3, HarmlessChanges DEF BackgroundCommits
<1>5. CASE Correct(d) \/ ApproveFlagsDuplicate(d)
  BY <1>1, <1>5, ReviewChanges, HarmlessChanges DEF Correct, ApproveFlagsDuplicate
<1>6. CASE Approve(d)
  BY <1>6, ApproveChanges DEF Approve, Approvable
<1>7. CASE Reject(d)
  BY <1>1, <1>7, HarmlessStatus, HarmlessChanges DEF Reject, SetStatus, SetsStatus, DocStatus
<1>8. CASE PostByUser(d)
  BY <1>8, PostChanges DEF PostByUser
<1> QED BY <1>3, <1>4, <1>5, <1>6, <1>7, <1>8 DEF ApiStep

LEMMA RequestChanges ==
  ASSUME LifeInv, NEW c \in Client,
         RequestFails(c) \/ \E d \in Doc : RequestStarts(c, d) \/ RequestGoesOn(c, d)
  PROVE  DocChange
<1> USE DEF NoUser
<1>1. /\ doc \in [Doc -> Document] /\ seen \in [Worker -> Snapshot]
      /\ doomed \in [Worker -> SUBSET Doc] /\ bg \in [Doc -> Task]
      /\ retry \in [Client -> Retryable \cup {"none"}] /\ retries \in 0..MaxRetries
      /\ DocTypes
  BY DEF LifeInv, DocTypes
<1>2. ASSUME retry' = [retry EXCEPT ![c] = "none"] PROVE retry' \in [Client -> Retryable \cup {"none"}]
  BY <1>1, <1>2
<1>3. CASE UNCHANGED docVars
  BY <1>1, <1>3, UnchangedChanges
<1>4. CASE RequestFails(c)
  BY <1>1, <1>2, <1>4, HarmlessIfUnchanged, HarmlessChanges DEF RequestFails
<1>5. ASSUME NEW d \in Doc, IngestCommits(c, d) PROVE DocChange
  <2>1. bg' \in [Doc -> Task]
    <3>1. [bg[d] EXCEPT !.pc = "scheduled"] \in Task
      BY <1>1 DEF Task
    <3>2. CASE d \in HermesDoc
      BY <1>1, <1>5, <3>1, <3>2 DEF IngestCommits
    <3>3. CASE d \notin HermesDoc
      BY <1>1, <1>5, <3>3 DEF IngestCommits
    <3> QED BY <3>2, <3>3
  <2>2. Harmless
    BY <1>1, <1>5, HarmlessStatus DEF IngestCommits, SetStatus, SetsStatus, DocStatus
  <2> QED BY <1>1, <1>5, <2>1, <2>2, HarmlessChanges DEF IngestCommits
<1>6. ASSUME NEW d \in Doc, RetryReads(c, d) PROVE DocChange
  <2>1. retry' \in [Client -> Retryable \cup {"none"}] /\ retries' \in 0..MaxRetries
    BY <1>1, <1>6, LifecycleAssumption DEF RetryReads
  <2> QED BY <1>1, <1>6, <2>1, HarmlessIfUnchanged, HarmlessChanges DEF RetryReads
<1>7. ASSUME NEW d \in Doc, RetryCommits(c, d) PROVE DocChange
  <2>1. retry' \in [Client -> Retryable \cup {"none"}]
    BY <1>2, <1>7 DEF RetryCommits
  <2>2. SetsStatus(d, "QUEUED") \/ SetsStatus(d, doc[d].status)
    BY <1>7 DEF RetryCommits, Written, SetsStatus
  <2>3. doc[d].status \in DocStatus
    BY <1>1 DEF Document
  <2>4. Harmless
    BY <1>1, <2>2, <2>3, OneStatusSet DEF Harmless, DocStatus
  <2> QED BY <1>1, <1>7, <2>1, <2>4, HarmlessChanges DEF RetryCommits
<1>8. ASSUME NEW d \in Doc, ApproveCommits(c, d) PROVE DocChange
  <2>1. doc[d].content # NoContent
    BY <1>8 DEF ApproveCommits, EnqueuedBy, EnqueueCommits, Returns, Rearms, Inserts, LifeInv, LockedInv
  <2> QED BY <1>1, <1>8, <2>1, ApproveChanges DEF ApproveCommits
<1> QED BY <1>3, <1>4, <1>5, <1>6, <1>7, <1>8
        DEF RequestStarts, RequestGoesOn, IngestReads, RetryEnqueues, ApproveEnqueues

LEMMA DocChanges == LifeInv /\ [LifeNext]_lifeVars => DocChange
<1> SUFFICES ASSUME LifeInv, [LifeNext]_lifeVars PROVE DocChange
  OBVIOUS
<1>1. CASE \E w \in Worker : WorkerLoop(w) \/ WorkerFault(w)
  BY <1>1, DocWorkerChanges DEF LifeInv
<1>2. CASE UNCHANGED docVars
  BY <1>2, UnchangedChanges DEF LifeInv
<1>3. CASE \E d \in Doc : ApiStep(d)
  BY <1>3, ApiChanges DEF LifeInv
<1>4. CASE \E c \in Client : RequestFails(c) \/ \E d \in Doc : RequestStarts(c, d) \/ RequestGoesOn(c, d)
  BY <1>4, RequestChanges
<1> QED BY <1>1, <1>2, <1>3, <1>4 DEF LifeNext, lifeVars

\* A request begins to enqueue only as an upload, a retry or an approval does.
LEMMA AskStarts ==
  ASSUME TypeInv, [LifeNext]_lifeVars, NEW c \in Client, ask'[c].pc # "idle"
  PROVE  \/ ask'[c] = ask[c]
         \/ \E d \in Doc : IngestReads(c, d) \/ RetryEnqueues(c, d) \/ ApproveEnqueues(c, d)
<1> DEFINE Result == \/ ask'[c] = ask[c]
                     \/ \E d \in Doc : IngestReads(c, d) \/ RetryEnqueues(c, d) \/ ApproveEnqueues(c, d)
<1>1. ask \in [Client -> Asking]
  BY DEF TypeInv, TypeOK
<1>2. CASE UNCHANGED ask
  BY <1>2
<1>3. ASSUME NEW w \in Worker, WorkerLoop(w) \/ WorkerFault(w) PROVE UNCHANGED ask
  BY <1>3 DEF WorkerLoop, WorkerFault, Start, PollEmpty, CompleteReads, CompleteCommits, Acquire,
       ProcessReads, ProcessCommits, PostJobCommits, HandlerCommits, HandlerFails, HandlerRaises,
       FailJobReads, FailReads, FailJobCommits, FailCommits, RecoveryScan, SweepScan, RecoveryReads,
       SweepReads, RecoveryCommits, SweepCommits, WorkerTransactionFails, CompleteRaises, FailRaises,
       SweepRaises, CrashWorker, Crash, queueVars
<1>4. CASE TimeStep
  BY <1>2, <1>4 DEF TimeStep, LeaseExpires, BecomesAvailable
<1>5. ASSUME NEW d \in Doc, ApiStep(d) PROVE UNCHANGED ask
  BY <1>5, ApiStepsOfQueue DEF queueVars
<1>6. ASSUME NEW e \in Client, RequestFails(e) \/ \E d \in Doc : RequestStarts(e, d) \/ RequestGoesOn(e, d)
      PROVE  Result
  <2>1. ASSUME e # c PROVE ask'[c] = ask[c]
    BY <1>1, <1>6, <2>1
    DEF RequestFails, RequestStarts, RequestGoesOn, IngestReads, IngestCommits, RetryReads,
        RetryEnqueues, RetryCommits, ApproveEnqueues, ApproveCommits, Enqueues, EnqueuedBy,
        EnqueueReads, EnqueueCommits, AskEnds, queueVars
  <2>2. ASSUME AskEnds(c) PROVE FALSE
    BY <1>1, <2>2 DEF AskEnds, NotAsking
  <2>3. CASE e = c
    BY <1>2, <1>6, <2>2, <2>3
    DEF RequestFails, RequestStarts, RequestGoesOn, IngestCommits, RetryReads, RetryCommits,
        ApproveCommits, EnqueuedBy, EnqueueCommits, queueVars
  <2> QED BY <2>1, <2>3
<1>7. CASE UNCHANGED lifeVars
  BY <1>2, <1>7 DEF lifeVars, queueVars
<1> QED BY <1>2, <1>3, <1>4, <1>5, <1>6, <1>7 DEF LifeNext

LEMMA LockedStep == LifeInv /\ [LifeNext]_lifeVars => LockedInv'
<1> SUFFICES ASSUME LifeInv, [LifeNext]_lifeVars, NEW c \in Client, NEW d \in Doc,
                    AsksFor[c] = PostKey(d), ask'[c].pc # "idle"
             PROVE  doc'[d].content # NoContent
  BY DEF LockedInv
<1>1. CASE ask'[c] = ask[c]
  <2>1. Locked(d) /\ doc[d].content # NoContent
    BY <1>1 DEF Locked, LifeInv, LockedInv
  <2> QED BY <2>1, DocChanges DEF DocChange
<1>2. ASSUME NEW e \in Doc, IngestReads(c, e) \/ RetryEnqueues(c, e) PROVE FALSE
  BY <1>2, KeysDiffer DEF IngestReads, RetryEnqueues, Retries
<1>3. ASSUME NEW e \in Doc, ApproveEnqueues(c, e) PROVE doc'[d].content # NoContent
  <2>1. d = e
    BY <1>3, KeysDiffer DEF ApproveEnqueues
  <2> QED BY <1>3, <2>1 DEF ApproveEnqueues, Approvable, docVars
<1> QED BY <1>1, <1>2, <1>3, AskStarts DEF LifeInv

LEMMA LifeInvStep == LifeInv /\ [LifeNext]_lifeVars => LifeInv'
BY IdleLifeStep, DocChanges, LockedStep DEF LifeInv, DocChange

LEMMA DocTypesInit == LifeInit => DocTypes
<1> SUFFICES ASSUME LifeInit PROVE DocTypes
  OBVIOUS
<1>1. doc \in [Doc -> Document]
  BY DEF LifeInit, Document, DocStatus
<1>2. seen \in [Worker -> Snapshot] /\ bg \in [Doc -> Task] /\ doomed \in [Worker -> SUBSET Doc]
  BY DEF LifeInit, Snapshot, Task
<1>3. retry \in [Client -> Retryable \cup {"none"}] /\ retries \in 0..MaxRetries
  BY LifecycleAssumption DEF LifeInit
<1>4. approved \in [Doc -> SUBSET Content] /\ ledger \in [Doc -> Seq(Posting)]
  BY DEF LifeInit
<1> QED BY <1>1, <1>2, <1>3, <1>4 DEF DocTypes

LEMMA LifeInvInit == LifeInit => LifeInv
<1> SUFFICES ASSUME LifeInit PROVE LifeInv
  OBVIOUS
<1>1. \A c \in Client : ask[c].pc = "idle"
  BY DEF LifeInit, QueueInit, NotAsking
<1> QED BY <1>1, IdleInit, DocTypesInit DEF LifeInv, LockedInv

\* Documents, handlers' snapshots, pending retries and postings keep their types.  Not
\* inductive as it stands: that an approval records a content needs the lock it holds.
THEOREM LifeTypes == LifeSafety => []DocTypeOK
<1>1. LifeInv => DocTypeOK
  BY DEF LifeInv, TypeInv, DocTypes, DocTypeOK, Task
<1> QED BY <1>1, LifeInvInit, LifeInvStep, PTL DEF LifeSafety

-----------------------------------------------------------------------------
(* What reaches the ledger.                                                *)

LEMMA OnePostingStep ==
  LifeInv /\ AtMostOnePosting /\ [LifeNext]_lifeVars => AtMostOnePosting'
<1> SUFFICES ASSUME LifeInv, AtMostOnePosting, [LifeNext]_lifeVars, NEW d \in Doc
             PROVE  Len(ledger'[d]) = IF doc'[d].linked THEN 1 ELSE 0
  BY DEF AtMostOnePosting
<1>1. /\ ledger[d] \in Seq(Posting)
      /\ Len(ledger[d]) = IF doc[d].linked THEN 1 ELSE 0
      /\ Kept(d) \/ ApprovedNow(d) \/ PostedNow(d)
  BY DocChanges DEF LifeInv, DocTypes, AtMostOnePosting, DocChange
<1>2. CASE Kept(d) \/ ApprovedNow(d)
  BY <1>1, <1>2 DEF Kept, ApprovedNow
<1>3. CASE PostedNow(d)
  <2>1. PICK e \in Posting \cup {[content |-> doc[d].content, by |-> by] :
                                   by \in {"worker", "user"}} :
          ledger'[d] = Append(ledger[d], e)
    BY <1>3 DEF PostedNow
  <2>2. Len(ledger[d]) = 0 /\ doc'[d].linked
    BY <1>1, <1>3 DEF PostedNow
  <2> QED BY <1>1, <2>1, <2>2
<1> QED BY <1>1, <1>2, <1>3

\* However the steps of workers, background tasks and requests interleave, a document is posted
\* at most once.  The invariant is inductive given the types: only post_document, under the
\* lock and unlinked, appends a posting, and no stale write ever touches the link.
THEOREM LifeAtMostOnePosting == LifeSafety => []AtMostOnePosting
<1>1. LifeInit => LifeInv /\ AtMostOnePosting
  BY LifeInvInit DEF LifeInit, AtMostOnePosting
<1>2. /\ LifeInv /\ AtMostOnePosting /\ [LifeNext]_lifeVars
      => (LifeInv /\ AtMostOnePosting)'
  BY LifeInvStep, OnePostingStep
<1> QED BY <1>1, <1>2, PTL DEF LifeSafety

\* A document that is ready, or posted, has been approved once.
ReadyWasApproved ==
  \A d \in Doc : doc[d].status \in {"READY_TO_POST", "POSTED"} => approved[d] # {}

LEMMA ApprovalStep ==
  /\ LifeInv /\ ReadyWasApproved /\ PostedAfterApproval /\ [LifeNext]_lifeVars
  => (ReadyWasApproved /\ PostedAfterApproval)'
<1> SUFFICES ASSUME LifeInv, ReadyWasApproved, PostedAfterApproval, [LifeNext]_lifeVars,
                    NEW d \in Doc
             PROVE  /\ doc'[d].status \in {"READY_TO_POST", "POSTED"} => approved'[d] # {}
                    /\ ledger'[d] # <<>> => approved'[d] # {}
  BY DEF ReadyWasApproved, PostedAfterApproval
<1>1. /\ doc[d].status \in {"READY_TO_POST", "POSTED"} => approved[d] # {}
      /\ ledger[d] # <<>> => approved[d] # {}
      /\ Kept(d) \/ ApprovedNow(d) \/ PostedNow(d)
  BY DocChanges DEF ReadyWasApproved, PostedAfterApproval, DocChange
<1>2. CASE Kept(d)
  BY <1>1, <1>2 DEF Kept
<1>3. CASE ApprovedNow(d)
  BY <1>3 DEF ApprovedNow
<1>4. CASE PostedNow(d)
  <2>1. doc[d].status = "READY_TO_POST" /\ approved'[d] = approved[d]
    BY <1>4 DEF PostedNow, Eligible
  <2> QED BY <1>1, <2>1
<1> QED BY <1>1, <1>2, <1>3, <1>4

\* Nothing reaches the ledger from a document that nobody approved.  Not inductive as it
\* stands: it needs ReadyWasApproved, that no extraction, retry, recovery or correction ever
\* makes a document READY_TO_POST, however old the row it has read.
THEOREM LifePostedAfterApproval == LifeSafety => []PostedAfterApproval
<1>1. LifeInit => LifeInv /\ ReadyWasApproved /\ PostedAfterApproval
  BY LifeInvInit DEF LifeInit, ReadyWasApproved, PostedAfterApproval
<1>2. /\ LifeInv /\ ReadyWasApproved /\ PostedAfterApproval /\ [LifeNext]_lifeVars
      => (LifeInv /\ ReadyWasApproved /\ PostedAfterApproval)'
  BY LifeInvStep, ApprovalStep
<1> QED BY <1>1, <1>2, PTL DEF LifeSafety

-----------------------------------------------------------------------------
(* What a job leaves behind, as long as nobody retried.                    *)

\* The document has got past its queue.
Settled(d) == doc[d].status \notin {"ABSENT", "QUEUED"}

\* Worker w executes a processing job of document d.
Works(w, d) == worker[w].pc \in Executing /\ KeyOf[worker[w].job] = ProcessKey(d)

NoRetry == \A c \in Client : retry[c] = "none"

\* Only a handler that is processing has a snapshot.
Fresh == \A w \in Worker : seen[w] # Unseen => Processing(w)

\* A document comes with its first job, which its upload finds no row of.
Uninserted == \A d \in Doc : doc[d].status = "ABSENT" => RowsOf(ProcessKey(d)) = {}

AskFresh == \A c \in Client, d \in Doc :
  AsksFor[c] = ProcessKey(d) /\ ask[c].pc # "idle" /\ doc[d].status = "ABSENT"
    => ask[c].pc = "inserts"

Scanned ==
  \A w \in Worker, d \in Doc : ProcessKey(d) \in worker[w].scan => doc[d].status # "ABSENT"

\* A worker whose handler has committed leaves a settled document, and what it read was QUEUED
\* unless the document is settled.
Working ==
  \A w \in Worker, d \in Doc : Works(w, d) =>
    /\ doc[d].status # "ABSENT"
    /\ worker[w].pc \in {"handled", "completing"} => Settled(d)
    /\ seen[w] # Unseen /\ seen[w].status # "QUEUED" => Settled(d)

\* What holds until the first retry.
Unretried == NoRetry /\ Uninserted /\ AskFresh /\ Scanned /\ Working

LeftInv == LifeInv /\ WritesInv /\ PresentInv /\ Fresh /\ (retries = 0 => Unretried)

\* Until the first retry a step leaves a document as it is in its queue, settles it, or puts
\* it there with a job.
Moved(d) ==
  \/ doc'[d].status = doc[d].status
  \/ Settled(d)'
  \/ /\ doc[d].status = "ABSENT"
     /\ doc'[d].status = "QUEUED"
     /\ \E j \in Job : KeyOf[j] = ProcessKey(d) /\ job'[j].status \in Active

\* An extraction settles a document unless its status is the one that was read.
LEMMA ExtractionSettles ==
  ASSUME DocTypes, NEW e \in Doc, NEW s, ExtractedInto(e, s)
  PROVE  /\ \A d \in Doc : d # e => doc'[d] = doc[d]
         /\ doc'[e].status = doc[e].status \/ Settled(e)'
         /\ s.status \in {"ABSENT", "QUEUED"} => Settled(e)'
<1>1. PICK x \in Extraction : \E row \in Merged(x, s, doc[e]) : doc' = [doc EXCEPT ![e] = row]
  BY DEF ExtractedInto
<1>2. PICK row \in Merged(x, s, doc[e]) : doc' = [doc EXCEPT ![e] = row]
  BY <1>1
<1>3. row.status = Written(x.status, s.status, doc[e].status)
  BY <1>2 DEF Merged
<1>4. x.status \notin {"ABSENT", "QUEUED"}
  BY DEF Extraction, Reviewable
<1>5. doc'[e] = row /\ \A d \in Doc : d # e => doc'[d] = doc[d]
  BY <1>2 DEF DocTypes
<1> QED BY <1>3, <1>4, <1>5 DEF Written, Settled

\* Setting a status other than ABSENT and QUEUED, or the one the document has.
LEMMA StatusMoves ==
  ASSUME DocTypes, NEW e \in Doc, NEW st \in DocStatus, SetsStatus(e, st),
         st \in {"ABSENT", "QUEUED"} => st = doc[e].status
  PROVE  \A d \in Doc : Moved(d)
BY OneStatusSet DEF Moved, Settled

LEMMA FailuresMove ==
  ASSUME DocTypes, NEW w \in Worker, FailDoomed(w)
  PROVE  \A d \in Doc : Moved(d)
<1>1. "FAILED" \in DocStatus
  BY DEF DocStatus
<1>2. SetsStatuses(doomed[w], "FAILED")
  BY DEF FailDoomed, SetsStatuses
<1>3. \A d \in Doc : doc'[d].status = "FAILED" \/ doc'[d].status = doc[d].status
  BY <1>1, <1>2, StatusesSet
<1> QED BY <1>3 DEF Moved, Settled

LEMMA WorkerMoves ==
  ASSUME DocTypes, NEW w \in Worker, WorkerLoop(w) \/ WorkerFault(w)
  PROVE  \A d \in Doc : Moved(d)
<1>1. CASE UNCHANGED doc
  BY <1>1 DEF Moved
<1>2. CASE ProcessCommits(w)
  <2>1. DocOf(w) \in Doc
    BY <1>2, HandlersDocument DEF ProcessCommits
  <2>2. CASE ExtractedInto(DocOf(w), seen[w])
    BY <2>1, <2>2, ExtractionSettles DEF Moved
  <2> QED BY <1>1, <1>2, <2>2 DEF ProcessCommits
<1>3. CASE PostJobCommits(w)
  <2>1. DocOf(w) \in Doc
    BY <1>3, HandlersDocument DEF PostJobCommits
  <2>2. CASE Post(DocOf(w), "worker")
    BY <2>1, <2>2 DEF Post, DocTypes, Document, Moved, Settled
  <2> QED BY <1>1, <1>3, <2>2 DEF PostJobCommits
<1>4. CASE FailJobCommits(w) \/ RecoveryCommits(w)
  BY <1>1, <1>4, FailuresMove DEF FailJobCommits, RecoveryCommits
<1> QED BY <1>1, <1>2, <1>3, <1>4
        DEF WorkerLoop, WorkerFault, ProcessReads, HandlerFails, FailJobReads, RecoveryScan,
            RecoveryReads, WorkerTransactionFails, CrashWorker, docVars

LEMMA ApiMoves ==
  ASSUME DocTypes, NEW e \in Doc, ApiStep(e)
  PROVE  \A d \in Doc : Moved(d)
<1>1. doc \in [Doc -> Document] /\ doc[e].status \in DocStatus
  BY DEF DocTypes, Document
<1>2. CASE UNCHANGED doc
  BY <1>2 DEF Moved
<1>3. CASE BackgroundCommits(e)
  <2>1. CASE ExtractedInto(e, bg[e].seen)
    BY <2>1, ExtractionSettles DEF Moved
  <2>2. CASE SetStatus(e, Written("FAILED", bg[e].seen.status, doc[e].status))
    <3>1. SetsStatus(e, "FAILED") \/ SetsStatus(e, doc[e].status)
      BY <2>2 DEF Written, SetStatus, SetsStatus
    <3> QED BY <1>1, <3>1, StatusMoves DEF DocStatus
  <2> QED BY <1>2, <1>3, <2>1, <2>2 DEF BackgroundCommits
<1>4. CASE Correct(e) \/ ApproveFlagsDuplicate(e)
  BY <1>4, ReviewChanges DEF Moved, Settled, Reviewable
<1>5. CASE Approve(e) \/ Reject(e)
  <2>1. SetsStatus(e, "READY_TO_POST") \/ SetsStatus(e, "REJECTED")
    BY <1>5 DEF Approve, Approved, Reject, SetStatus, SetsStatus
  <2> QED BY <2>1, StatusMoves DEF DocStatus
<1>6. CASE PostByUser(e)
  BY <1>1, <1>6 DEF PostByUser, Post, Document, Moved, Settled
<1> QED BY <1>2, <1>3, <1>4, <1>5, <1>6 DEF ApiStep, BackgroundReads, BackgroundLost

\* Committing an insertion leaves an active row of the key.
LEMMA InsertsActive ==
  ASSUME TypeInv, NEW c \in Client, Inserts(c)
  PROVE  \E j \in Job : KeyOf[j] = AsksFor[c] /\ job'[j].status \in Active
<1>1. CASE ActiveRows(AsksFor[c]) # {} /\ UNCHANGED job
  BY <1>1 DEF ActiveRows, RowsOf
<1>2. CASE \E j \in FreeRows(AsksFor[c]) : job' = [job EXCEPT ![j] = Armed]
  BY <1>2 DEF FreeRows, TypeInv, TypeOK, Armed, Active
<1> QED BY <1>1, <1>2 DEF Inserts

LEMMA RequestMoves ==
  ASSUME TypeInv, DocTypes, NoRetry, AskFresh, NEW c \in Client,
         RequestFails(c) \/ \E d \in Doc : RequestStarts(c, d) \/ RequestGoesOn(c, d)
  PROVE  \A d \in Doc : Moved(d)
<1>1. CASE UNCHANGED doc
  BY <1>1 DEF Moved
<1>2. ASSUME NEW e \in Doc, IngestCommits(c, e) PROVE \A d \in Doc : Moved(d)
  <2>1. ask[c].pc # "idle" /\ (Returns(c) \/ Rearms(c) \/ Inserts(c))
    BY <1>2 DEF IngestCommits, EnqueuedBy, EnqueueCommits, Returns, Rearms, Inserts
  <2>2. doc[e].status = "ABSENT" /\ AsksFor[c] = ProcessKey(e) /\ SetsStatus(e, "QUEUED")
    BY <1>2 DEF IngestCommits, SetStatus, SetsStatus
  <2>3. Inserts(c)
    BY <2>1, <2>2 DEF AskFresh, Returns, Rearms
  <2>4. \E j \in Job : KeyOf[j] = ProcessKey(e) /\ job'[j].status \in Active
    BY <2>2, <2>3, InsertsActive
  <2>5. \A d \in Doc : doc'[d].status = IF d = e THEN "QUEUED" ELSE doc[d].status
    BY <2>2, OneStatusSet DEF DocStatus
  <2> QED BY <2>2, <2>4, <2>5 DEF Moved
<1>3. ASSUME NEW e \in Doc, RetryCommits(c, e) PROVE FALSE
  BY <1>3 DEF RetryCommits, Retries, NoRetry
<1>4. ASSUME NEW e \in Doc, ApproveCommits(c, e) PROVE \A d \in Doc : Moved(d)
  <2>1. SetsStatus(e, "READY_TO_POST")
    BY <1>4 DEF ApproveCommits, Approved, SetsStatus
  <2> QED BY <2>1, StatusMoves DEF DocStatus
<1> QED BY <1>1, <1>2, <1>3, <1>4
        DEF RequestFails, RequestStarts, RequestGoesOn, IngestReads, RetryReads, RetryEnqueues,
            ApproveEnqueues, docVars

LEMMA DocMoves ==
  ASSUME TypeInv, DocTypes, NoRetry, AskFresh, [LifeNext]_lifeVars
  PROVE  \A d \in Doc : Moved(d)
<1>1. CASE UNCHANGED docVars
  BY <1>1 DEF docVars, Moved
<1> QED BY <1>1, WorkerMoves, ApiMoves, RequestMoves DEF LifeNext, lifeVars

\* What a step does to worker v and its snapshot: nothing, a read, a claim, the end of its
\* handler in one way or the other, a step towards the end of what it executes, or that end.
HandlerChange(v) ==
  \/ worker'[v] = worker[v] /\ seen'[v] = seen[v]
  \/ ProcessReads(v)
  \/ (\E j \in Job : Acquire(v, j)) /\ seen'[v] = seen[v]
  \/ ProcessCommits(v)
  \/ PostJobCommits(v)
  \/ /\ worker[v].pc \in Executing
     /\ worker'[v].pc = "raised"
     /\ worker'[v].job = worker[v].job
     /\ worker'[v].scan = worker[v].scan
     /\ seen'[v] = Unseen \/ (seen'[v] = seen[v] /\ worker[v].pc # "running")
  \/ /\ \/ worker[v].pc = "handled" /\ worker'[v].pc = "completing"
        \/ worker[v].pc = "raised" /\ worker'[v].pc = "failing"
     /\ worker'[v].job = worker[v].job
     /\ worker'[v].scan = worker[v].scan
     /\ seen'[v] = seen[v]
  \/ RecoveryScan(v)
  \/ /\ worker'[v].pc \notin Executing
     /\ worker'[v].scan \subseteq worker[v].scan
     /\ seen'[v] = Unseen \/ (seen'[v] = seen[v] /\ worker[v].pc # "running")

\* Nobody else changes worker v.
LEMMA OthersHandlers ==
  ASSUME TypeInv, DocTypes, NEW v \in Worker, NEW w \in Worker, w # v,
         WorkerLoop(w) \/ WorkerFault(w)
  PROVE  worker'[v] = worker[v] /\ seen'[v] = seen[v]
<1> USE DEF TypeInv, TypeOK, DocTypes
<1>1. worker'[v] = worker[v]
  BY DEF WorkerLoop, WorkerFault, Start, PollEmpty, CompleteReads, CompleteCommits, WillWrite,
       Acquire, ProcessReads, ProcessCommits, PostJobCommits, HandlerCommits, HandlerFails,
       HandlerRaises, FailJobReads, FailReads, FailJobCommits, FailCommits, RecoveryScan,
       SweepScan, RecoveryReads, SweepReads, RecoveryCommits, SweepCommits,
       WorkerTransactionFails, CompleteRaises, FailRaises, SweepRaises, CrashWorker, Crash, Goto,
       Release, Rest, queueVars
<1>2. seen'[v] = seen[v]
  BY DEF WorkerLoop, WorkerFault, ProcessReads, ProcessCommits, PostJobCommits, HandlerFails,
       FailJobReads, FailJobCommits, RecoveryScan, RecoveryReads, RecoveryCommits,
       WorkerTransactionFails, CrashWorker, Forget, docVars
<1> QED BY <1>1, <1>2

LEMMA OwnHandler ==
  ASSUME TypeInv, DocTypes, NEW v \in Worker, WorkerLoop(v) \/ WorkerFault(v)
  PROVE  HandlerChange(v)
<1> USE DEF TypeInv, TypeOK, DocTypes
<1>1. worker[v] \in Process
  OBVIOUS
<1>2. ASSUME NEW pc, Goto(v, pc)
      PROVE  worker'[v].pc = pc /\ worker'[v].job = worker[v].job /\ worker'[v].scan = worker[v].scan
  BY <1>1, <1>2 DEF Goto, Process
<1>3. ASSUME NEW pc, Rest(v, pc) PROVE worker'[v].pc = pc /\ worker'[v].scan \subseteq worker[v].scan
  BY <1>3 DEF Rest, Resting
<1>4. CASE (Start(v) \/ PollEmpty(v)) /\ UNCHANGED docVars
  <2>1. worker[v].pc # "running" /\ Goto(v, "sweep") /\ seen'[v] = seen[v]
    BY <1>4 DEF Start, PollEmpty, docVars
  <2> QED BY <1>2, <2>1 DEF HandlerChange, Executing
<1>5. CASE (CompleteReads(v) /\ UNCHANGED docVars) \/ FailJobReads(v)
  <2>1. CASE CompleteReads(v) /\ UNCHANGED docVars
    <3>1. ReadsOwn(v, worker[v].job) /\ worker[v].pc = "handled" /\ seen'[v] = seen[v]
      BY <2>1, OwnReads DEF CompleteReads, docVars
    <3>2. worker'[v].scan = worker[v].scan
      BY <1>1, <2>1 DEF CompleteReads, WillWrite, Process
    <3> QED BY <3>1, <3>2 DEF ReadsOwn, HandlerChange
  <2>2. CASE FailJobReads(v)
    <3>1. ReadsOwn(v, worker[v].job) /\ worker[v].pc = "raised" /\ seen'[v] = seen[v]
      BY <2>2, OwnReads DEF FailJobReads, FailReads
    <3>2. worker'[v].scan = worker[v].scan
      BY <1>1, <2>2 DEF FailJobReads, FailReads, WillWrite, Process
    <3> QED BY <3>1, <3>2 DEF ReadsOwn, HandlerChange
  <2> QED BY <1>5, <2>1, <2>2
<1>6. CASE (CompleteCommits(v) /\ UNCHANGED docVars) \/ FailJobCommits(v) \/ RecoveryCommits(v)
  <2>1. Rest(v, "idle") /\ worker[v].pc # "running" /\ seen'[v] = seen[v]
    BY <1>6 DEF CompleteCommits, FailJobCommits, FailCommits, RecoveryCommits, SweepCommits, Release,
         docVars
  <2> QED BY <1>3, <2>1 DEF HandlerChange, Executing
<1>7. CASE \/ (\E j \in Job : Acquire(v, j)) /\ UNCHANGED docVars
           \/ ProcessReads(v) \/ ProcessCommits(v) \/ PostJobCommits(v) \/ RecoveryScan(v)
  BY <1>7 DEF docVars, HandlerChange
<1>8. CASE HandlerFails(v)
  <2>1. worker[v].pc \in Executing /\ Goto(v, "raised") /\ seen'[v] = Unseen
    BY <1>8 DEF HandlerFails, HandlerRaises, Forget, Executing
  <2> QED BY <1>2, <2>1 DEF HandlerChange
<1>9. CASE RecoveryReads(v)
  <2>1. PICK pick \in SweepPicks(v) : SweepReads(v, pick)
    BY <1>9 DEF RecoveryReads
  <2>2. worker[v].pc = "scanned" /\ worker'[v].pc = "sweeping"
    BY <1>1, <2>1 DEF SweepReads, Process
  <2>3. worker'[v].scan \subseteq worker[v].scan
    BY <1>1, <2>1 DEF SweepReads, Process
  <2>4. seen'[v] = seen[v]
    BY <1>9 DEF RecoveryReads
  <2> QED BY <2>2, <2>3, <2>4 DEF HandlerChange, Executing
<1>10. CASE WorkerTransactionFails(v)
  <2>1. seen'[v] = seen[v]
    BY <1>10 DEF WorkerTransactionFails
  <2>2. CASE CompleteRaises(v)
    <3>1. worker[v].pc \in Executing /\ worker[v].pc # "running"
      BY <2>2 DEF CompleteRaises, Executing
    <3>2. worker'[v] = [worker[v] EXCEPT !.pc = "raised", !.writes = NoUpdates]
      BY <2>2 DEF CompleteRaises
    <3>3. worker'[v].pc = "raised" /\ worker'[v].job = worker[v].job /\ worker'[v].scan = worker[v].scan
      BY <1>1, <3>2 DEF Process
    <3> QED BY <2>1, <3>1, <3>3 DEF HandlerChange
  <2>3. CASE FailRaises(v) \/ SweepRaises(v)
    <3>1. Rest(v, "idle") /\ worker[v].pc # "running"
      BY <2>3 DEF FailRaises, SweepRaises, Release
    <3> QED BY <1>3, <2>1, <3>1 DEF HandlerChange, Executing
  <2> QED BY <1>10, <2>2, <2>3 DEF WorkerTransactionFails
<1>11. CASE CrashWorker(v)
  <2>1. Rest(v, "down") /\ seen'[v] = Unseen
    BY <1>11 DEF CrashWorker, Crash, Forget
  <2> QED BY <1>3, <2>1 DEF HandlerChange, Executing
<1> QED BY <1>4, <1>5, <1>6, <1>7, <1>8, <1>9, <1>10, <1>11 DEF WorkerLoop, WorkerFault

LEMMA HandlerChanged ==
  ASSUME TypeInv, DocTypes, [LifeNext]_lifeVars, NEW v \in Worker
  PROVE  HandlerChange(v)
<1>1. CASE UNCHANGED <<worker, seen>>
  BY <1>1 DEF HandlerChange
<1>2. ASSUME NEW w \in Worker, WorkerLoop(w) \/ WorkerFault(w) PROVE HandlerChange(v)
  BY <1>2, OthersHandlers, OwnHandler DEF HandlerChange
<1>3. CASE TimeStep /\ UNCHANGED docVars
  BY <1>1, <1>3 DEF TimeStep, LeaseExpires, BecomesAvailable, docVars
<1>4. ASSUME NEW d \in Doc, ApiStep(d) PROVE HandlerChange(v)
  BY <1>1, <1>4 DEF ApiStep, BackgroundReads, BackgroundCommits, BackgroundLost, Correct, Approve,
       Approved, ApproveFlagsDuplicate, Reject, PostByUser, queueVars
<1>5. ASSUME NEW c \in Client,
             RequestFails(c) \/ \E d \in Doc : RequestStarts(c, d) \/ RequestGoesOn(c, d)
      PROVE  HandlerChange(v)
  BY <1>1, <1>5 DEF RequestFails, RequestStarts, RequestGoesOn, IngestReads, IngestCommits,
       RetryReads, RetryEnqueues, RetryCommits, ApproveEnqueues, ApproveCommits, Approved,
       Enqueues, EnqueuedBy, queueVars, docVars
<1>6. CASE UNCHANGED lifeVars
  BY <1>1, <1>6 DEF lifeVars, queueVars, docVars
<1> QED BY <1>2, <1>3, <1>4, <1>5, <1>6 DEF LifeNext

LEMMA FreshStep ==
  ASSUME TypeInv, DocTypes, Fresh, [LifeNext]_lifeVars
  PROVE  Fresh'
<1> SUFFICES ASSUME NEW v \in Worker, seen'[v] # Unseen PROVE Processing(v)'
  BY DEF Fresh
<1> USE DEF TypeInv, TypeOK, DocTypes
<1>1. HandlerChange(v) /\ (seen[v] # Unseen => Processing(v))
  BY HandlerChanged DEF Fresh
<1>2. CASE worker'[v] = worker[v] /\ seen'[v] = seen[v]
  BY <1>1, <1>2 DEF Processing
<1>3. CASE ProcessReads(v)
  BY <1>3 DEF ProcessReads, Processing, queueVars
<1>4. CASE ProcessCommits(v)
  BY <1>4 DEF ProcessCommits, Forget
<1>5. CASE PostJobCommits(v)
  BY <1>1, <1>5, KeysDiffer DEF PostJobCommits, PostingJob, Processing
<1>6. CASE RecoveryScan(v)
  BY <1>1, <1>6 DEF RecoveryScan, SweepScan, docVars, Processing
<1>7. CASE (\E j \in Job : Acquire(v, j)) /\ seen'[v] = seen[v]
  BY <1>1, <1>7 DEF Acquire, Processing
<1> QED BY <1>1, <1>2, <1>3, <1>4, <1>5, <1>6, <1>7 DEF HandlerChange, Processing

LEMMA WorkingStep ==
  ASSUME LeftInv, Unretried, [LifeNext]_lifeVars
  PROVE  Working'
<1> SUFFICES ASSUME NEW v \in Worker, NEW d \in Doc, Works(v, d)'
             PROVE  /\ doc'[d].status # "ABSENT"
                    /\ worker'[v].pc \in {"handled", "completing"} => Settled(d)'
                    /\ seen'[v] # Unseen /\ seen'[v].status # "QUEUED" => Settled(d)'
  BY DEF Working
<1> USE DEF LeftInv, LifeInv, Unretried
<1>1. HandlerChange(v) /\ Moved(d)
  BY HandlerChanged, DocMoves
<1>2. /\ doc[d].status # "ABSENT" => doc'[d].status # "ABSENT"
      /\ Settled(d) => Settled(d)'
  BY <1>1 DEF Moved, Settled
<1>3. Works(v, d) =>
        /\ doc[d].status # "ABSENT"
        /\ worker[v].pc \in {"handled", "completing"} => Settled(d)
        /\ seen[v] # Unseen /\ seen[v].status # "QUEUED" => Settled(d)
  BY DEF Working
<1>4. CASE worker'[v] = worker[v] /\ seen'[v] = seen[v]
  BY <1>2, <1>3, <1>4 DEF Works
<1>5. CASE ProcessReads(v)
  <2>1. Works(v, d) /\ worker'[v] = worker[v] /\ UNCHANGED doc
    BY <1>5 DEF ProcessReads, queueVars, Works
  <2>2. DocOf(v) = d
    BY <2>1, KeysDiffer DEF Works, DocOf
  <2>3. seen'[v] = doc[d]
    BY <1>5, <2>2 DEF ProcessReads, DocTypes
  <2> QED BY <1>2, <1>3, <2>1, <2>3 DEF Settled
<1>6. CASE (\E j \in Job : Acquire(v, j)) /\ seen'[v] = seen[v]
  <2>1. PICK j \in Job : Acquire(v, j)
    BY <1>6
  <2>2. worker[v].pc = "idle" /\ worker'[v].pc = "running" /\ worker'[v].job = j
    BY <2>1 DEF Acquire, TypeInv, TypeOK
  <2>3. KeyOf[j] = ProcessKey(d) /\ job[j].status # "ABSENT"
    BY <2>1, <2>2 DEF Works, Acquire, Claimable
  <2>4. doc[d].status # "ABSENT"
    BY <2>3 DEF Uninserted, RowsOf
  <2>5. seen'[v] = Unseen
    BY <1>6, <2>2 DEF Fresh, Processing
  <2> QED BY <1>2, <2>2, <2>4, <2>5
<1>7. CASE ProcessCommits(v)
  <2>1. Works(v, d) /\ worker[v].pc = "running" /\ seen[v] # Unseen
    BY <1>7 DEF ProcessCommits, HandlerCommits, Goto, Works, TypeInv, TypeOK, Executing
  <2>2. DocOf(v) = d
    BY <2>1, KeysDiffer DEF Works, DocOf
  <2>3. Settled(d)'
    <3>1. CASE seen[v].status # "QUEUED"
      BY <1>2, <1>3, <2>1, <3>1
    <3>2. CASE seen[v].status = "QUEUED"
      <4>1. ExtractedInto(d, seen[v])
        BY <1>7, <2>2, <3>2 DEF ProcessCommits
      <4> QED BY <3>2, <4>1, ExtractionSettles
    <3> QED BY <3>1, <3>2
  <2> QED BY <1>2, <1>3, <2>1, <2>3 DEF Settled
<1>8. CASE PostJobCommits(v)
  <2>1. KeyOf[worker'[v].job] = KeyOf[worker[v].job]
    BY <1>8 DEF PostJobCommits, HandlerCommits, Goto, TypeInv, TypeOK, Process
  <2>2. PICK e \in Doc : KeyOf[worker[v].job] = PostKey(e)
    BY <1>8 DEF PostJobCommits, PostingJob
  <2>3. KeyOf[worker'[v].job] = ProcessKey(d)
    BY DEF Works
  <2> QED BY <2>1, <2>2, <2>3, KeysDiffer
<1>9. CASE /\ worker[v].pc \in Executing
           /\ worker'[v].pc = "raised"
           /\ worker'[v].job = worker[v].job
           /\ seen'[v] = Unseen \/ (seen'[v] = seen[v] /\ worker[v].pc # "running")
  <2>1. Works(v, d)
    BY <1>9 DEF Works
  <2> QED BY <1>2, <1>3, <1>9, <2>1
<1>10. CASE /\ \/ worker[v].pc = "handled" /\ worker'[v].pc = "completing"
               \/ worker[v].pc = "raised" /\ worker'[v].pc = "failing"
            /\ worker'[v].job = worker[v].job
            /\ seen'[v] = seen[v]
  <2>1. Works(v, d)
    BY <1>10 DEF Works, Executing
  <2> QED BY <1>2, <1>3, <1>10, <2>1
<1>11. CASE RecoveryScan(v)
  BY <1>11 DEF RecoveryScan, SweepScan, Works, Executing, TypeInv, TypeOK
<1> QED BY <1>1, <1>4, <1>5, <1>6, <1>7, <1>8, <1>9, <1>10, <1>11 DEF HandlerChange, Works

LEMMA ScannedStep ==
  ASSUME LeftInv, Unretried, [LifeNext]_lifeVars
  PROVE  Scanned'
<1> SUFFICES ASSUME NEW v \in Worker, NEW d \in Doc, ProcessKey(d) \in worker'[v].scan
             PROVE  doc'[d].status # "ABSENT"
  BY DEF Scanned
<1> USE DEF LeftInv, LifeInv, Unretried
<1>1. HandlerChange(v) /\ Moved(d)
  BY HandlerChanged, DocMoves
<1>2. doc[d].status # "ABSENT" => doc'[d].status # "ABSENT"
  BY <1>1 DEF Moved, Settled
<1>3. CASE ProcessKey(d) \in worker[v].scan
  BY <1>2, <1>3 DEF Scanned
<1>4. CASE RecoveryScan(v)
  <2>1. ProcessKey(d) \in {ProcessKey(e) : e \in {e \in Doc : doc[e].status = "QUEUED"}}
    BY <1>4 DEF RecoveryScan, SweepScan, TypeInv, TypeOK
  <2>2. doc[d].status = "QUEUED"
    BY <2>1, KeysDiffer
  <2> QED BY <1>2, <2>2
<1>5. CASE worker'[v].scan \subseteq worker[v].scan
  BY <1>3, <1>5
<1>6. CASE ProcessReads(v) \/ ProcessCommits(v) \/ PostJobCommits(v)
  BY <1>5, <1>6 DEF ProcessReads, ProcessCommits, PostJobCommits, HandlerCommits, Goto, queueVars,
                    TypeInv, TypeOK, Process
<1>7. CASE \E j \in Job : Acquire(v, j)
  BY <1>5, <1>7 DEF Acquire, TypeInv, TypeOK, Process
<1> QED BY <1>1, <1>3, <1>4, <1>5, <1>6, <1>7 DEF HandlerChange

LEMMA AskFreshStep ==
  ASSUME LeftInv, Unretried, [LifeNext]_lifeVars
  PROVE  AskFresh'
<1> SUFFICES ASSUME NEW c \in Client, NEW d \in Doc, AsksFor[c] = ProcessKey(d),
                    ask'[c].pc # "idle", doc'[d].status = "ABSENT"
             PROVE  ask'[c].pc = "inserts"
  BY DEF AskFresh
<1> USE DEF LeftInv, LifeInv, Unretried
<1>1. doc[d].status = "ABSENT"
  BY DocMoves DEF Moved, Settled
<1>2. CASE ask'[c] = ask[c]
  BY <1>1, <1>2 DEF AskFresh
<1>3. ASSUME NEW e \in Doc, IngestReads(c, e) PROVE ask'[c].pc = "inserts"
  <2>1. Asked(c) = {} /\ EnqueueReads(c)
    BY <1>1, <1>3 DEF Asked, Uninserted, IngestReads, Enqueues
  <2> QED BY <2>1 DEF EnqueueReads, TypeInv, TypeOK
<1>4. ASSUME NEW e \in Doc, RetryEnqueues(c, e) \/ ApproveEnqueues(c, e) PROVE FALSE
  BY <1>4, KeysDiffer DEF RetryEnqueues, Retries, NoRetry, ApproveEnqueues
<1> QED BY <1>2, <1>3, <1>4, AskStarts

\* A worker writes rows that are there, but for the rows its recovery scan inserts.
LEMMA WorkerInserts ==
  ASSUME TypeInv, PresentInv, NEW w \in Worker, WorkerLoop(w) \/ WorkerFault(w),
         NEW j \in Job, job[j].status = "ABSENT", job'[j].status # "ABSENT"
  PROVE  \/ worker[w].pc \in Executing /\ worker[w].job = j
         \/ KeyOf[j] \in worker[w].scan
<1> USE DEF TypeInv, TypeOK
<1>1. CASE UNCHANGED job
  BY <1>1
<1>2. CASE \E i \in Job : Acquire(w, i)
  BY <1>2 DEF Acquire, Claimable
<1>3. CASE CompleteCommits(w) \/ FailJobCommits(w)
  BY <1>3 DEF CompleteCommits, FailJobCommits, FailCommits, Executing
<1>4. CASE RecoveryCommits(w)
  <2>1. PICK new \in Insertions(w) : SweepCommits(w, new)
    BY <1>4 DEF RecoveryCommits
  <2>2. CASE \E k \in DOMAIN new : new[k] = j
    BY <2>1, <2>2 DEF Insertions, FreeRows
  <2>3. CASE ~\E k \in DOMAIN new : new[k] = j
    <3>1. /\ worker[w].pc = "sweeping"
          /\ job'[j] = job[j] \/ job'[j] = Apply(worker[w].writes[j], job[j])
      BY <2>1, <2>3 DEF SweepCommits
    <3>2. worker[w].writes[j] = NoUpdate
      BY <2>1 DEF PresentInv, SweepCommits, WriteOf
    <3> QED BY <3>1, <3>2 DEF NoUpdate, Apply
  <2> QED BY <2>2, <2>3
<1> QED BY <1>1, <1>2, <1>3, <1>4
        DEF WorkerLoop, WorkerFault, Start, PollEmpty, CompleteReads, ProcessReads, ProcessCommits,
            PostJobCommits, HandlerCommits, HandlerFails, HandlerRaises, FailJobReads, FailReads,
            RecoveryScan, SweepScan, RecoveryReads, SweepReads, WorkerTransactionFails,
            CompleteRaises, FailRaises, SweepRaises, CrashWorker, Crash, queueVars

\* A request writes rows that are there, but for the one it inserts.
LEMMA RequestInserts ==
  ASSUME TypeInv, PresentInv, NEW c \in Client, EnqueuedBy(c),
         NEW j \in Job, job[j].status = "ABSENT", job'[j].status # "ABSENT"
  PROVE  KeyOf[j] = AsksFor[c]
<1> USE DEF TypeInv, TypeOK
<1>1. ~Returns(c)
  BY DEF Returns
<1>2. CASE Rearms(c)
  BY <1>2 DEF Rearms, PresentInv
<1>3. CASE Inserts(c)
  BY <1>3 DEF Inserts, FreeRows
<1> QED BY <1>1, <1>2, <1>3 DEF EnqueuedBy, EnqueueCommits

LEMMA UninsertedStep ==
  ASSUME LeftInv, Unretried, [LifeNext]_lifeVars
  PROVE  Uninserted'
<1> SUFFICES ASSUME NEW d \in Doc, doc'[d].status = "ABSENT", NEW j \in Job,
                    KeyOf[j] = ProcessKey(d), job'[j].status # "ABSENT"
             PROVE  FALSE
  BY DEF Uninserted, RowsOf
<1> USE DEF LeftInv, LifeInv, Unretried
<1>1. doc[d].status = "ABSENT"
  BY DocMoves DEF Moved, Settled
<1>2. job[j].status = "ABSENT"
  BY <1>1 DEF Uninserted, RowsOf
<1>3. CASE UNCHANGED job
  BY <1>2, <1>3
<1>4. ASSUME NEW w \in Worker, WorkerLoop(w) \/ WorkerFault(w) PROVE FALSE
  <2>1. Works(w, d) \/ ProcessKey(d) \in worker[w].scan
    BY <1>2, <1>4, WorkerInserts DEF Works
  <2> QED BY <1>1, <2>1 DEF Working, Scanned
<1>5. CASE TimeStep
  BY <1>2, <1>5 DEF TimeStep, LeaseExpires, BecomesAvailable, TypeInv, TypeOK, Row
<1>6. ASSUME NEW e \in Doc, ApiStep(e) PROVE FALSE
  BY <1>3, <1>6, ApiStepsOfQueue DEF queueVars
<1>7. ASSUME NEW c \in Client, NEW e \in Doc, RequestGoesOn(c, e) PROVE FALSE
  <2>1. CASE IngestCommits(c, e)
    <3>1. d = e
      BY <1>2, <2>1, RequestInserts, KeysDiffer DEF IngestCommits
    <3>2. SetsStatus(e, "QUEUED")
      BY <2>1 DEF IngestCommits, SetStatus, SetsStatus
    <3> QED BY <3>1, <3>2, OneStatusSet DEF DocStatus
  <2>2. CASE RetryEnqueues(c, e) \/ RetryCommits(c, e)
    BY <2>2 DEF RetryEnqueues, RetryCommits, Retries, NoRetry
  <2>3. CASE ApproveCommits(c, e)
    BY <1>2, <2>3, RequestInserts, KeysDiffer DEF ApproveCommits
  <2> QED BY <1>7, <2>1, <2>2, <2>3 DEF RequestGoesOn
<1>8. ASSUME NEW c \in Client, RequestFails(c) \/ \E e \in Doc : RequestStarts(c, e) PROVE FALSE
  BY <1>3, <1>8 DEF RequestFails, RequestStarts, IngestReads, RetryReads, ApproveEnqueues, Enqueues,
       queueVars
<1> QED BY <1>3, <1>4, <1>5, <1>6, <1>7, <1>8 DEF LifeNext, lifeVars, queueVars

\* Retry requests are counted, and a retry is pending only after one.
LEMMA RetriesCounted ==
  ASSUME DocTypes, [LifeNext]_lifeVars
  PROVE  /\ retries' = 0 => retries = 0
         /\ retries' = 0 /\ NoRetry => NoRetry'
<1>1. retries \in Nat /\ retry \in [Client -> Retryable \cup {"none"}]
  BY LifecycleAssumption DEF DocTypes
<1>2. CASE UNCHANGED <<retry, retries>>
  BY <1>2 DEF NoRetry
<1>3. ASSUME NEW c \in Client, NEW d \in Doc, RetryReads(c, d) PROVE retries' # 0
  BY <1>1, <1>3 DEF RetryReads
<1>4. ASSUME NEW c \in Client, retries' = retries, retry' = [retry EXCEPT ![c] = "none"]
      PROVE  NoRetry => NoRetry'
  BY <1>1, <1>4 DEF NoRetry
<1>5. ASSUME NEW w \in Worker, WorkerLoop(w) \/ WorkerFault(w) PROVE UNCHANGED <<retry, retries>>
  BY <1>5 DEF WorkerLoop, WorkerFault, ProcessReads, ProcessCommits, PostJobCommits,
       HandlerFails, FailJobReads, FailJobCommits, RecoveryScan, RecoveryReads, RecoveryCommits,
       WorkerTransactionFails, CrashWorker, NoUser, docVars
<1>6. ASSUME NEW d \in Doc, ApiStep(d) PROVE UNCHANGED <<retry, retries>>
  BY <1>6 DEF ApiStep, BackgroundReads, BackgroundCommits, BackgroundLost, Correct, Approve,
       Approved, ApproveFlagsDuplicate, Reject, PostByUser, NoUser
<1>7. ASSUME NEW c \in Client, RequestFails(c) \/ \E d \in Doc : RetryCommits(c, d)
      PROVE  retries' = retries /\ retry' = [retry EXCEPT ![c] = "none"]
  BY <1>7 DEF RequestFails, RetryCommits
<1>8. ASSUME NEW c \in Client, NEW d \in Doc, RequestStarts(c, d) \/ RequestGoesOn(c, d),
             ~RetryReads(c, d), ~RetryCommits(c, d)
      PROVE  UNCHANGED <<retry, retries>>
  BY <1>8 DEF RequestStarts, RequestGoesOn, IngestReads, IngestCommits, RetryEnqueues,
       ApproveEnqueues, ApproveCommits, Approved, NoUser, docVars
<1>9. CASE UNCHANGED docVars
  BY <1>2, <1>9 DEF docVars
<1>10. ASSUME NEW c \in Client, RequestFails(c) \/ \E d \in Doc : RequestStarts(c, d) \/ RequestGoesOn(c, d)
       PROVE  /\ retries' = 0 => retries = 0
              /\ retries' = 0 /\ NoRetry => NoRetry'
  BY <1>2, <1>3, <1>4, <1>7, <1>8, <1>10
<1> QED BY <1>2, <1>5, <1>6, <1>9, <1>10 DEF LifeNext, lifeVars

LEMMA LeftStep ==
  ASSUME LeftInv, [LifeNext]_lifeVars
  PROVE  LeftInv'
<1>1. LifeInv' /\ WritesInv' /\ PresentInv'
  BY LifeInvStep, LifeStepsOfQueue, WritesInvStep, PresentStep DEF LeftInv, LifeInv
<1>2. Fresh'
  BY FreshStep DEF LeftInv, LifeInv
<1>3. ASSUME retries' = 0 PROVE Unretried'
  <2>1. Unretried /\ NoRetry'
    BY <1>3, RetriesCounted DEF LeftInv, LifeInv, Unretried
  <2> QED BY <2>1, UninsertedStep, AskFreshStep, ScannedStep, WorkingStep DEF Unretried
<1> QED BY <1>1, <1>2, <1>3 DEF LeftInv

LEMMA LeftInit == LifeInit => LeftInv
<1> SUFFICES ASSUME LifeInit PROVE LeftInv
  OBVIOUS
<1>1. \A c \in Client : ask[c].pc = "idle"
  BY DEF LifeInit, QueueInit, NotAsking
<1>2. \A w \in Worker : worker[w].pc = "down" /\ worker[w].scan = {}
  BY DEF LifeInit, QueueInit, Resting
<1>3. LifeInv /\ WritesInv
  BY LifeInvInit, WritesInvInit DEF LifeInit
<1>4. PresentInv
  BY <1>1, <1>2 DEF PresentInv
<1>5. Fresh /\ NoRetry
  BY DEF LifeInit, Fresh, NoRetry
<1>6. Uninserted
  BY DEF LifeInit, QueueInit, Absent, Uninserted, RowsOf
<1>7. AskFresh /\ Scanned /\ Working
  BY <1>1, <1>2 DEF AskFresh, Scanned, Working, Works, Executing
<1> QED BY <1>3, <1>4, <1>5, <1>6, <1>7 DEF LeftInv, Unretried

LEMMA NotLeftBehindStep ==
  ASSUME LeftInv, NoQueuedDocumentLeftBehind, [LifeNext]_lifeVars
  PROVE  NoQueuedDocumentLeftBehind'
<1> SUFFICES ASSUME retries' = 0, NEW d \in Doc, doc'[d].status = "QUEUED"
             PROVE  \E j \in Job : /\ KeyOf[j] = ProcessKey(d)
                                   /\ job'[j].status \notin {"ABSENT", "COMPLETED"}
  BY DEF NoQueuedDocumentLeftBehind, RowsOf
<1>1. LifeInv /\ WritesInv /\ TypeInv /\ DocTypes /\ Unretried /\ retries = 0
  BY RetriesCounted DEF LeftInv, LifeInv
<1>2. Moved(d)
  BY <1>1, DocMoves DEF Unretried
<1>3. CASE doc[d].status = "QUEUED"
  <2>1. PICK j \in Job : KeyOf[j] = ProcessKey(d) /\ job[j].status \notin {"ABSENT", "COMPLETED"}
    BY <1>1, <1>3 DEF NoQueuedDocumentLeftBehind, RowsOf
  <2>2. ~\E w \in Worker : worker[w].pc = "completing" /\ worker[w].job = j
    BY <1>1, <1>3, <2>1 DEF Unretried, Working, Works, Executing, Settled
  <2>3. job'[j].status \notin {"ABSENT", "COMPLETED"}
    BY <1>1, <2>1, <2>2, CompletesOnlyHandled, LifeStepsOfQueue DEF LifeInv
  <2> QED BY <2>1, <2>3
<1>4. CASE doc[d].status # "QUEUED"
  BY <1>2, <1>4 DEF Moved, Settled, Active
<1> QED BY <1>3, <1>4

\* For any number of workers, documents and faults: until somebody retries, no job of a QUEUED
\* document ends COMPLETED and leaves it without another.  Not inductive as it stands: it needs
\* that a worker whose handler has committed has settled the document, hence that what the
\* handler read, however long ago, was the document in its queue or a document settled since.
THEOREM LifeNoQueuedDocumentLeftBehind == LifeSafety => []NoQueuedDocumentLeftBehind
<1>1. LifeInit => LeftInv /\ NoQueuedDocumentLeftBehind
  BY LeftInit DEF LifeInit, NoQueuedDocumentLeftBehind
<1>2. /\ LeftInv /\ NoQueuedDocumentLeftBehind /\ [LifeNext]_lifeVars
      => (LeftInv /\ NoQueuedDocumentLeftBehind)'
  BY LeftStep, NotLeftBehindStep
<1> QED BY <1>1, <1>2, PTL DEF LifeSafety

=============================================================================
