------------------------- MODULE DocumentLifecycle -------------------------
(***************************************************************************)
(* The life of a document, from its upload to the general ledger: intake,  *)
(* extraction by the workers of JobQueue and by the background task of the *)
(* Hermes upload, retry, correction, approval, rejection and posting.      *)
(*                                                                         *)
(* Corrections, rejections and postings lock the document row (FOR UPDATE) *)
(* and are one step each; an approval keeps the lock while it enqueues.    *)
(* The extraction pipeline, the retry request, fail_job and recovery read  *)
(* it unlocked and write it later: two steps, with anything in between.    *)
(* Their UPDATE names only the columns whose value differs from the one    *)
(* they read, whatever the row holds by then.  EXTRACTING and MATCHING are *)
(* never committed.                                                        *)
(*                                                                         *)
(* A document's columns are its status, flagged (review_flags, or an       *)
(* ambiguous match), evidence (its type is an evidence type), content (the *)
(* transaction its candidate proposes) and linked                          *)
(* (converted_transaction_id IS NOT NULL).                                 *)
(***************************************************************************)
EXTENDS JobQueue, Sequences

CONSTANTS
  Doc,         \* documents
  HermesDoc,   \* the documents uploaded through Hermes
  Content,     \* transactions a candidate may propose
  NoContent,   \* candidate_transaction = {}
  AutoSafe,    \* contents of an AUTO_SAFE transaction type
  Supported,   \* contents of a type that documents may post
  Unseen,      \* no snapshot of a document read
  MaxRetries   \* bound: retry requests

ProcessKey(d) == <<"DOCUMENT_PROCESS", d>>
PostKey(d) == <<"DOCUMENT_POST", d>>

ASSUME LifecycleAssumption ==
  /\ Key = {ProcessKey(d) : d \in Doc} \cup {PostKey(d) : d \in Doc}
  /\ SweptKey = {ProcessKey(d) : d \in Doc}
  /\ HermesDoc \subseteq Doc
  /\ NoContent \notin Content
  /\ AutoSafe \subseteq Supported
  /\ Supported \subseteq Content
  /\ MaxRetries \in Nat

VARIABLES
  doc,       \* the table of documents
  seen,      \* the document each worker's handler has read
  doomed,    \* the documents each worker's transaction will fail
  bg,        \* the Hermes background task of each document
  retry,     \* the status of the document that each retry request has read
  retries,   \* how many retry requests were made
  approved,  \* history: the contents approved for posting, per document
  ledger     \* the transactions posted for each document

docVars == <<doc, seen, doomed, bg, retry, retries, approved, ledger>>
lifeVars == <<queueVars, docVars>>

DocStatus == {"ABSENT", "QUEUED", "FAILED", "REVIEW_REQUIRED", "READY_FOR_APPROVAL",
              "PROCESSED", "READY_TO_POST", "REJECTED", "POSTED"}
Reviewable == {"REVIEW_REQUIRED", "READY_FOR_APPROVAL"}
Retryable == {"FAILED", "REVIEW_REQUIRED", "QUEUED"}

Document == [status: DocStatus, flagged: BOOLEAN, evidence: BOOLEAN,
             content: Content \cup {NoContent}, linked: BOOLEAN]
Snapshot == Document \cup {Unseen}
Posting == [content: Content, by: {"worker", "user"}]

DocTypeOK ==
  /\ TypeOK
  /\ doc \in [Doc -> Document]
  /\ seen \in [Worker -> Snapshot]
  /\ doomed \in [Worker -> SUBSET Doc]
  /\ bg \in [Doc -> [pc: {"none", "scheduled", "loaded"}, seen: Snapshot]]
  /\ retry \in [Client -> Retryable \cup {"none"}]
  /\ retries \in 0..MaxRetries
  /\ approved \in [Doc -> SUBSET Content]
  /\ ledger \in [Doc -> Seq(Posting)]

-----------------------------------------------------------------------------
(* Extraction.                                                             *)

\* What the pipeline makes of a file: a status resolved from the type, the candidate and the
\* flags.  Only an unflagged document of no evidence type reaches READY_FOR_APPROVAL, only an
\* evidence document is archived, without a candidate.
Extraction ==
  {x \in [status: Reviewable \cup {"PROCESSED"}, flagged: BOOLEAN, evidence: BOOLEAN,
          content: Content \cup {NoContent}] :
     /\ x.status = "READY_FOR_APPROVAL" => ~x.flagged /\ ~x.evidence
     /\ x.status = "PROCESSED" => x.evidence
     /\ x.evidence => x.content = NoContent}

\* A commit writes the columns whose new value is not the one it read; the others keep what
\* the row holds by then.
Written(new, old, current) == IF new = old THEN current ELSE new

\* The same for a column that stands for more than the model tells apart (which flags, which
\* evidence type, the other fields of the candidate): equal here, it may still be written.
Writable(new, old, current) == {new, Written(new, old, current)}

\* The rows that committing extraction x, over the snapshot s, can make of row r.
Merged(x, s, r) ==
  [status: {Written(x.status, s.status, r.status)},
   flagged: Writable(x.flagged, s.flagged, r.flagged),
   evidence: Writable(x.evidence, s.evidence, r.evidence),
   content: Writable(x.content, s.content, r.content),
   linked: {r.linked}]

Retries(c, d) == AsksFor[c] = ProcessKey(d) /\ retry[c] # "none"

\* The row is locked from an approval's SELECT FOR UPDATE, and from the UPDATE of a retry that
\* changes the status, until they have enqueued and committed: who writes it waits.
Locked(d) == \E c \in Client :
  /\ ask[c].pc # "idle"
  /\ AsksFor[c] = PostKey(d) \/ (Retries(c, d) /\ retry[c] # "QUEUED")

SetStatus(d, st) == ~Locked(d) /\ doc' = [doc EXCEPT ![d].status = st]

ExtractedInto(d, s) ==
  /\ ~Locked(d)
  /\ \E x \in Extraction : \E row \in Merged(x, s, doc[d]) : doc' = [doc EXCEPT ![d] = row]

-----------------------------------------------------------------------------
(* The worker: the actions of the queue, with what their handlers do to    *)
(* the documents.                                                          *)

DocOf(w) == KeyOf[worker[w].job][2]
Processing(w) == worker[w].pc = "running" /\ \E d \in Doc : KeyOf[worker[w].job] = ProcessKey(d)
PostingJob(w) == worker[w].pc = "running" /\ \E d \in Doc : KeyOf[worker[w].job] = PostKey(d)

Forget(w) == seen' = [seen EXCEPT ![w] = Unseen]
NoUser == UNCHANGED <<retry, retries, approved>>

\* handle_document_process reads the document without a lock ...
ProcessReads(w) ==
  /\ Processing(w)
  /\ seen[w] = Unseen
  /\ seen' = [seen EXCEPT ![w] = doc[DocOf(w)]]
  /\ UNCHANGED <<queueVars, doc, doomed, bg, ledger>>
  /\ NoUser

\* ... skips one it has seen PROCESSED, and commits its extraction of any other.
ProcessCommits(w) ==
  /\ Processing(w)
  /\ seen[w] # Unseen
  /\ HandlerCommits(w)
  /\ IF seen[w].status = "PROCESSED" THEN UNCHANGED doc ELSE ExtractedInto(DocOf(w), seen[w])
  /\ Forget(w)
  /\ UNCHANGED <<doomed, bg, ledger>>
  /\ NoUser

\* Mutation: the handler swallows the failure.
HandlerFailsSilently(w) ==
  /\ HandlerCommits(w)
  /\ Forget(w)
  /\ UNCHANGED <<doc, doomed, bg, ledger>>
  /\ NoUser

\* A failed extraction, a missing file or a failed posting raises: its writes are rolled back.
HandlerFails(w) ==
  /\ HandlerRaises(w)
  /\ Forget(w)
  /\ UNCHANGED <<doc, doomed, bg, ledger>>
  /\ NoUser

\* Mutation: a document ready for approval is ready enough.
EligibleUnapproved(d, by) ==
  /\ doc[d].status \in {"READY_FOR_APPROVAL", "READY_TO_POST"}
  /\ ~doc[d].flagged
  /\ doc[d].content \in Supported
  /\ by = "worker" => doc[d].content \in AutoSafe

\* The gates of post_document, by the column they read.
Eligible(d, by) ==
  /\ doc[d].status = "READY_TO_POST"
  /\ ~doc[d].flagged
  /\ doc[d].content \in Supported
  /\ by = "worker" => doc[d].content \in AutoSafe

\* Mutation: the guard trusts the status and ignores the link.
AlreadyPostedByStatus(d) == doc[d].status = "POSTED"

AlreadyPosted(d) == doc[d].status = "POSTED" \/ doc[d].linked

\* post_document under the lock on the document: one accounting transaction, and the link.
Post(d, by) ==
  /\ ~Locked(d)
  /\ ~AlreadyPosted(d)
  /\ Eligible(d, by)
  /\ doc' = [doc EXCEPT ![d].status = "POSTED", ![d].linked = TRUE]
  /\ ledger' = [ledger EXCEPT ![d] = Append(@, [content |-> doc[d].content, by |-> by])]

\* handle_document_post: a document posted before, and a refusal that no retry can change,
\* end the job as well.
PostJobCommits(w) ==
  /\ PostingJob(w)
  /\ HandlerCommits(w)
  /\ \/ Post(DocOf(w), "worker")
     \/ /\ ~Locked(DocOf(w))
        /\ AlreadyPosted(DocOf(w)) \/ ~Eligible(DocOf(w), "worker")
        /\ UNCHANGED <<doc, ledger>>
  /\ UNCHANGED <<seen, doomed, bg>>
  /\ NoUser

Spare(w) == doomed' = [doomed EXCEPT ![w] = {}]
FailDoomed(w) ==
  /\ \A d \in doomed[w] : ~Locked(d)
  /\ doc' = [d \in Doc |-> IF d \in doomed[w] THEN [doc[d] EXCEPT !.status = "FAILED"] ELSE doc[d]]

\* fail_job reads the document of an exhausted job, too: it will give up a QUEUED one with it.
FailJobReads(w) ==
  /\ FailReads(w)
  /\ doomed' = [doomed EXCEPT ![w] =
       {d \in Doc : /\ KeyOf[worker[w].job] = ProcessKey(d)
                    /\ Exhausted(job[worker[w].job])
                    /\ doc[d].status = "QUEUED"}]
  /\ UNCHANGED <<doc, seen, bg, ledger>>
  /\ NoUser

FailJobCommits(w) ==
  /\ FailCommits(w)
  /\ FailDoomed(w)
  /\ Spare(w)
  /\ UNCHANGED <<seen, bg, ledger>>
  /\ NoUser

RecoveryScan(w) ==
  /\ SweepScan(w, {ProcessKey(d) : d \in {e \in Doc : doc[e].status = "QUEUED"}})
  /\ UNCHANGED docVars

\* Mutation: recovery fails the job without its document.
GivenUpNever(r) == FALSE

\* Recovery fails the documents it has found QUEUED whose row is, or becomes, FAILED: by the
\* time it commits they may have any other status.
GivenUp(r) == r.status = "FAILED" \/ (StaleRow(r) /\ Exhausted(r))

RecoveryReads(w) ==
  \E pick \in SweepPicks(w) :
    /\ SweepReads(w, pick)
    /\ doomed' = [doomed EXCEPT ![w] =
         {d \in Doc : /\ ProcessKey(d) \in worker[w].scan
                      /\ pick[ProcessKey(d)] # NoJob
                      /\ GivenUp(job[pick[ProcessKey(d)]])}]
    /\ UNCHANGED <<doc, seen, bg, ledger>>
    /\ NoUser

\* Mutation: recovery arms every row of the documents it gives up.
RecoveryCommitsRearming(w) ==
  /\ worker[w].pc = "sweeping"
  /\ job' = [j \in Job |-> IF \E d \in doomed[w] : KeyOf[j] = ProcessKey(d) THEN Armed ELSE job[j]]
  /\ Release(w)
  /\ Spare(w)
  /\ UNCHANGED <<ask, faults, lapsed, rearmed, doc, seen, bg, ledger>>
  /\ NoUser

RecoveryCommits(w) ==
  \E new \in Insertions(w) :
    /\ SweepCommits(w, new)
    /\ IF SweepRefused(w) THEN UNCHANGED doc ELSE FailDoomed(w)
    /\ Spare(w)
    /\ UNCHANGED <<seen, bg, ledger>>
    /\ NoUser

WorkerTransactionFails(w) ==
  /\ CompleteRaises(w) \/ FailRaises(w) \/ SweepRaises(w)
  /\ Spare(w)
  /\ UNCHANGED <<doc, seen, bg, ledger>>
  /\ NoUser

CrashWorker(w) ==
  /\ Crash(w)
  /\ Forget(w)
  /\ Spare(w)
  /\ UNCHANGED <<doc, bg, ledger>>
  /\ NoUser

-----------------------------------------------------------------------------
(* The API process.                                                        *)

\* Every request below that enqueues a job reads the row of its key and commits later.
Enqueues(c) == EnqueueReads(c) /\ UNCHANGED <<job, rearmed, worker, faults, lapsed>>
EnqueuedBy(c) == EnqueueCommits(c) /\ UNCHANGED <<worker, faults, lapsed>>

\* ingest_and_enqueue: the document and its job, in one transaction.  The Hermes upload also
\* schedules a background task that processes the document beside the job.
IngestReads(c, d) ==
  /\ AsksFor[c] = ProcessKey(d)
  /\ doc[d].status = "ABSENT"
  /\ Enqueues(c)
  /\ UNCHANGED docVars

IngestCommits(c, d) ==
  /\ AsksFor[c] = ProcessKey(d)
  /\ doc[d].status = "ABSENT"
  /\ SetStatus(d, "QUEUED")
  /\ EnqueuedBy(c)
  /\ bg' = IF d \in HermesDoc THEN [bg EXCEPT ![d].pc = "scheduled"] ELSE bg
  /\ UNCHANGED <<seen, doomed, ledger>>
  /\ NoUser

BackgroundReads(d) ==
  /\ bg[d].pc = "scheduled"
  /\ bg' = [bg EXCEPT ![d] = [pc |-> "loaded", seen |-> doc[d]]]
  /\ UNCHANGED <<queueVars, doc, seen, doomed, ledger>>
  /\ NoUser

\* process_document_background: unlike the worker's handler it commits a failure, too.
BackgroundCommits(d) ==
  /\ bg[d].pc = "loaded"
  /\ \/ bg[d].seen.status # "PROCESSED" /\ ExtractedInto(d, bg[d].seen)
     \/ bg[d].seen.status # "PROCESSED"
        /\ SetStatus(d, Written("FAILED", bg[d].seen.status, doc[d].status))
     \/ bg[d].seen.status = "PROCESSED" /\ UNCHANGED doc
  /\ bg' = [bg EXCEPT ![d] = [pc |-> "none", seen |-> Unseen]]
  /\ UNCHANGED <<queueVars, seen, doomed, ledger>>
  /\ NoUser

\* The API process dies, or the task raises.
BackgroundLost(d) ==
  /\ bg[d].pc # "none"
  /\ bg' = [bg EXCEPT ![d] = [pc |-> "none", seen |-> Unseen]]
  /\ UNCHANGED <<queueVars, doc, seen, doomed, ledger>>
  /\ NoUser

\* Mutation: retry_document does not ask for the status.
RetryReadsAnyStatus(c, d) ==
  /\ AsksFor[c] = ProcessKey(d)
  /\ retries < MaxRetries
  /\ retry[c] = "none"
  /\ doc[d].status # "ABSENT"
  /\ retry' = [retry EXCEPT ![c] = doc[d].status]
  /\ retries' = retries + 1
  /\ UNCHANGED <<queueVars, doc, seen, doomed, bg, approved, ledger>>

\* retry_document reads the document without a lock ...
RetryReads(c, d) ==
  /\ AsksFor[c] = ProcessKey(d)
  /\ retries < MaxRetries
  /\ retry[c] = "none"
  /\ ask[c].pc = "idle"
  /\ doc[d].status \in Retryable
  /\ retry' = [retry EXCEPT ![c] = doc[d].status]
  /\ retries' = retries + 1
  /\ UNCHANGED <<queueVars, doc, seen, doomed, bg, approved, ledger>>

\* ... sends QUEUED, unless that is what it read, and reads the row of the job ...
RetryEnqueues(c, d) ==
  /\ Retries(c, d)
  /\ Locked(d) => retry[c] = "QUEUED"
  /\ Enqueues(c)
  /\ UNCHANGED docVars

\* ... and commits both.
RetryCommits(c, d) ==
  /\ Retries(c, d)
  /\ doc' = [doc EXCEPT ![d].status = Written("QUEUED", retry[c], @)]
  /\ EnqueuedBy(c)
  /\ retry' = [retry EXCEPT ![c] = "none"]
  /\ UNCHANGED <<seen, doomed, bg, retries, approved, ledger>>

\* An API transaction fails: whatever it locked is free again.
RequestFails(c) ==
  /\ ask[c].pc # "idle" \/ retry[c] # "none"
  /\ AskEnds(c)
  /\ retry' = [retry EXCEPT ![c] = "none"]
  /\ UNCHANGED <<job, worker, faults, lapsed, rearmed, doc, seen, doomed, bg, retries, approved, ledger>>

\* correct_document.  A reviewer may change anything in the candidate, the flags and the type;
\* a financial document is READY_FOR_APPROVAL once unflagged and complete, and keeps its
\* status until then; an evidence document is archived or stays in review.
Correct(d) ==
  /\ ~Locked(d)
  /\ doc[d].status \in Reviewable
  /\ \/ \E c \in Content \cup {NoContent}, fl \in BOOLEAN,
           st \in {doc[d].status, "READY_FOR_APPROVAL"} :
          /\ st # doc[d].status => ~fl /\ c # NoContent
          /\ doc' = [doc EXCEPT ![d].status = st, ![d].flagged = fl, ![d].content = c,
                                ![d].evidence = FALSE]
     \/ \E st \in {"PROCESSED", "REVIEW_REQUIRED"}, fl \in BOOLEAN :
          doc' = [doc EXCEPT ![d].status = st, ![d].flagged = fl, ![d].evidence = TRUE]
  /\ UNCHANGED <<queueVars, seen, doomed, bg, ledger>>
  /\ NoUser

Approvable(d) ==
  /\ ~Locked(d)
  /\ doc[d].status \in Reviewable
  /\ ~doc[d].flagged
  /\ ~doc[d].evidence
  /\ doc[d].content # NoContent

Approved(d) ==
  /\ doc' = [doc EXCEPT ![d].status = "READY_TO_POST"]
  /\ approved' = [approved EXCEPT ![d] = @ \cup {doc[d].content}]
  /\ UNCHANGED <<seen, doomed, bg, retry, retries, ledger>>

\* approve_document_candidate ...
Approve(d) ==
  /\ Approvable(d)
  /\ doc[d].content \notin AutoSafe
  /\ Approved(d)
  /\ UNCHANGED queueVars

\* ... with enqueue_auto_post_if_eligible in the same transaction, under the lock.
ApproveEnqueues(c, d) ==
  /\ AsksFor[c] = PostKey(d)
  /\ Approvable(d)
  /\ doc[d].content \in AutoSafe
  /\ Enqueues(c)
  /\ UNCHANGED docVars

ApproveCommits(c, d) ==
  /\ AsksFor[c] = PostKey(d)
  /\ EnqueuedBy(c)
  /\ Approved(d)

\* A suspected duplicate among direct purchases goes back to review.
ApproveFlagsDuplicate(d) ==
  /\ Approvable(d)
  /\ doc[d].content \in AutoSafe
  /\ doc' = [doc EXCEPT ![d].status = "REVIEW_REQUIRED", ![d].flagged = TRUE]
  /\ UNCHANGED <<queueVars, seen, doomed, bg, ledger>>
  /\ NoUser

Reject(d) ==
  /\ doc[d].status \in Reviewable
  /\ SetStatus(d, "REJECTED")
  /\ UNCHANGED <<queueVars, seen, doomed, bg, ledger>>
  /\ NoUser

PostByUser(d) ==
  /\ Post(d, "user")
  /\ UNCHANGED <<queueVars, seen, doomed, bg>>
  /\ NoUser

-----------------------------------------------------------------------------
LifeInit ==
  /\ QueueInit
  /\ doc = [d \in Doc |-> [status |-> "ABSENT", flagged |-> FALSE, evidence |-> FALSE,
                           content |-> NoContent, linked |-> FALSE]]
  /\ seen = [w \in Worker |-> Unseen]
  /\ doomed = [w \in Worker |-> {}]
  /\ bg = [d \in Doc |-> [pc |-> "none", seen |-> Unseen]]
  /\ retry = [c \in Client |-> "none"]
  /\ retries = 0
  /\ approved = [d \in Doc |-> {}]
  /\ ledger = [d \in Doc |-> <<>>]

WorkerLoop(w) ==
  \/ /\ Start(w) \/ PollEmpty(w) \/ CompleteReads(w) \/ CompleteCommits(w) \/ \E j \in Job : Acquire(w, j)
     /\ UNCHANGED docVars
  \/ ProcessReads(w) \/ ProcessCommits(w)
  \/ PostJobCommits(w)
  \/ HandlerFails(w)
  \/ FailJobReads(w) \/ FailJobCommits(w)
  \/ RecoveryScan(w) \/ RecoveryReads(w) \/ RecoveryCommits(w)

WorkerFault(w) == WorkerTransactionFails(w) \/ CrashWorker(w)

ApiStep(d) ==
  \/ BackgroundReads(d) \/ BackgroundCommits(d) \/ BackgroundLost(d)
  \/ Correct(d)
  \/ Approve(d) \/ ApproveFlagsDuplicate(d)
  \/ Reject(d)
  \/ PostByUser(d)

\* The requests that enqueue.
RequestStarts(c, d) == IngestReads(c, d) \/ RetryReads(c, d) \/ ApproveEnqueues(c, d)
RequestGoesOn(c, d) ==
  IngestCommits(c, d) \/ RetryEnqueues(c, d) \/ RetryCommits(c, d) \/ ApproveCommits(c, d)

LifeNext ==
  \/ \E w \in Worker : WorkerLoop(w) \/ WorkerFault(w)
  \/ TimeStep /\ UNCHANGED docVars
  \/ \E d \in Doc : ApiStep(d)
  \/ \E c \in Client : RequestFails(c) \/ \E d \in Doc : RequestStarts(c, d) \/ RequestGoesOn(c, d)

LifeSafety == LifeInit /\ [][LifeNext]_lifeVars

\* As for the queue: workers run and are restarted, clocks advance.  An API transaction that
\* holds a lock ends.  Nothing obliges a user, or the background task of an API process.
LifeFairness ==
  /\ \A w \in Worker : WF_lifeVars(WorkerLoop(w))
  /\ \A j \in Job : /\ WF_lifeVars(LeaseExpires(j) /\ UNCHANGED docVars)
                    /\ WF_lifeVars(BecomesAvailable(j) /\ UNCHANGED docVars)
  /\ \A c \in Client : WF_lifeVars(RequestFails(c) \/ \E d \in Doc : RequestGoesOn(c, d))

LifeSpec == LifeSafety /\ LifeFairness

-----------------------------------------------------------------------------
(* Properties.                                                             *)

\* "Exactly ONE accounting transaction per document": however stale extractions rewrite its
\* status, however often it is approved again and its posting job is retried, a document is
\* posted at most once, and it is linked exactly when it was.
AtMostOnePosting == \A d \in Doc : Len(ledger[d]) = IF doc[d].linked THEN 1 ELSE 0

\* Nothing reaches the ledger from a document that no reviewer ever approved.
PostedAfterApproval == \A d \in Doc : ledger[d] # <<>> => approved[d] # {}

\* As long as nobody retried, a job that ends leaves no QUEUED document behind: whatever the
\* order in which workers with and without a lease end it, it is COMPLETED after a handler
\* has settled the document, and never given up without it.
NoQueuedDocumentLeftBehind == retries = 0 => \A d \in Doc :
  doc[d].status = "QUEUED" => \E j \in RowsOf(ProcessKey(d)) : job[j].status # "COMPLETED"

\* "QUEUED document must have a viable PENDING/RUNNING DOCUMENT_PROCESS job": one that has
\* none gets one, or is settled.
Orphaned(d) == doc[d].status = "QUEUED" /\ ActiveRows(ProcessKey(d)) = {}
OrphanIsRecovered == \A d \in Doc : Orphaned(d) ~> ~Orphaned(d)

\* "Converting approved READY_TO_POST documents": what is posted is what a reviewer approved.
OnlyApprovedIsPosted == \A d \in Doc : \A i \in 1..Len(ledger[d]) :
  ledger[d][i].content \in approved[d]
=============================================================================
