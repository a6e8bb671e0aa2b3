# A verification project for financial-saas

The repository is an accounting back end: FastAPI handlers and a worker process over one
PostgreSQL database (READ COMMITTED, SQLAlchemy async sessions with `autoflush=False`), a
Next.js front end, and an edge relay that captures WhatsApp messages while the office PC is
off. Documents come in as files, are extracted into candidate transactions, reviewed by
people, and posted to a double-entry ledger. What can go wrong is nearly always an
interleaving: requests, workers, background tasks and pollers share rows, some lock them and
some do not.

Paths below are relative to `src/backend/src/` unless they start with `src/`.

## Inventory

| part | state | operations | hard behaviour | must hold |
|---|---|---|---|---|
| Job queue (`services/job_queue_service.py`, `models/background_job.py`) | rows of `background_jobs`, partial unique index on active ones | enqueue, acquire (SKIP LOCKED), complete, fail, recovery scan | leases that expire under a running worker; `complete_job`/`fail_job` by id, without lock or owner check | one active row per key; bounded attempts; no row leased to nobody |
| Worker (`services/job_worker.py`, `worker.py`) | the process | claim, handler, complete or fail, periodic recovery | crash between any two of its transactions | what was queued is settled |
| Documents (`api/v1/documents.py`, `services/documents/*`, `api/v1/hermes.py`) | `documents`: status, flags, candidate, link to a transaction | upload, extract (job and background task), retry, correct, approve, reject | extraction works for minutes on an unlocked snapshot, then writes its net change | a reviewer's decision stands; a document is not lost |
| Document posting (`services/document_posting_service.py`) | the link, the transaction it creates | `post_document` under a row lock, by a user or by the worker | repeated jobs, stale status | at most one posting, of what was approved |
| Ledger (`services/accounting_engine.py`, `review_service.py`, `reversal_service.py`, `transaction_service.py`) | transactions with workflow status, journal entries, review flags | create, flag, resolve, approve and post, reverse | reads without locks; a flag moves a POSTED row | a posted record is immutable; one journal entry per transaction; reversed at most once |
| Receivables, payables (`services/receivable_service.py`, `payable_service.py`) | invoices, bills, allocations, retention, advances | issue, allocate, release, settle | allocation locks, reversal and advance settlement do not | allocated at most paid, at most owed; status agrees with allocations |
| Money movements (`services/money_movement_service.py`) | movements, settlements | record, settle on posting | deletion by a reversal | settlements agree with the journal |
| Bank reconciliation (`services/bank_reconciliation_service.py`) | statement imports, lines, reconciliations | upload, match by hand, match a whole statement | line lock before target lock; a run holds its matches unwritten and its lines stale until its end; partial unique indexes | a line and a target are matched at most once, and agree |
| Accounting periods (`services/accounting_period_service.py`) | OPEN, SOFT_CLOSED, CLOSED | change status; guard of every posting | guard is a plain read | nothing dated in a closed period is posted after its closing |
| Sequences, retry (`services/tenant_sequence_allocator.py`, `transaction_retry.py`) | a counter per namespace and year | upsert and increment; run a unit of work up to three times | several numbers in one transaction, rollback, deadlock victims, code collisions | numbers unique and without gap |
| Fixed assets (`services/fixed_asset_service.py`) | register, depreciation records | create, change, dispose, depreciate one, depreciate a month | duplicate check without a lock, accumulated amounts written from an old read | one depreciation per month; the register holds what was charged |
| Remote inbox (`src/edge-relay/src/index.ts`, `services/remote_inbox_client.py`, `remote_inbox_service.py`) | relay rows with leases, local inbox, documents, sessions | capture, pull, ingest, sync, acknowledge, operator's capture and sync | two databases, no transactions at the relay, crash between commit and acknowledgement, redelivery, two PCs | what was captured is ingested once and acknowledged after |
| WhatsApp sessions (`services/documents/whatsapp_session_service.py`, `api/v1/whatsapp_state.py`, `services/integrations/whatsapp/*`) | message logs, open and finalized sessions, acknowledgement state | claim, finish, batch, finalize, claim/send/report an acknowledgement | sliding windows, concurrent pollers and notifiers, late texts, stale claims | a session's messages stand once it is finalized; acknowledged, and as often as accounted for |
| Deferred analysis (`services/deferred_analysis_service.py`, `worker.py`) | verdict and evidence of a capture's session | analyse by job, by route | unlocked read, commit minutes later; a handler that raises | what has a caption gets a verdict |
| Matching (`services/documents/matching.py`) | none: a function of what it reads | score, cap, lift, rank, band | weak signals that add up; margins that are inclusive; books that move on | a target taken without review is the right one |
| Posting rules, chart (`services/posting_rules.py`, `coa_service.py`, `opening_balance_service.py`, `balance_service.py`) | accounts, journal | legs of a transaction, accounts added and deactivated, opening balances | twenty rules, each with its own accounts | legs balance and every report finds their accounts |
| Reports (`services/reporting/*`, `services/project_cost_service.py`) | none | statements, agings, dashboard, project reports | each picks accounts by its own mix of section, prefix and name | they agree with each other and with the journal |
| Authentication, HTTP, front end, scripts | - | - | - | not modelled |

Interaction is by rows: the API enqueues a job in the transaction that writes the document;
the worker calls the extraction pipeline and the posting service in the handler's transaction;
posting calls the transaction service, the accounting engine and the subledgers in its own;
the sync of the remote inbox opens the sessions that the deferred analysis judges; reports read
what posting and reversal have written. Every part is modelled for one organization: tenancy
is a filter on every query.

## Modules

| module | what it is |
|---|---|
| `JobQueue` | the queue and the worker's loop; which handler runs, and how it ends, is open |
| `DocumentLifecycle` | extends `JobQueue`: the handlers, the document's operations and posting; implements it (`QueueSafety`) |
| `Ledger` | transactions with their review flags, journal, invoices and bills, payments, retention releases, settlements, the accounting period, as requests of concurrent sessions |
| `Books` | the same journal one handler at a time, in full: posting rules, chart of accounts, journal lines, and every report computed from them |
| `Matching` | `matching.py` as a function of the books and a document |
| `BankReconciliation` | statement uploads and matches as interleaved transactions with row locks |
| `FixedAssets` | the register and depreciation runs as interleaved transactions, with the sequence and the retry |
| `Mailbox` | what the capture path promises: accepted, delivered once, settled only then |
| `RemoteInbox` | relay, pull clients, local inbox and operator; implements `Mailbox` |
| `WhatsAppSessions` | message handlers, batches, notifiers and their clock |
| `DeferredAnalysis` | the analysis of a captured session by the worker and by users |
| `MCJobQueue`, `MCDocumentLifecycle`, `MCLedger`, `MCIntake`, `MCOffice` | instances for TLC |
| `MCDocumentParts`, `MCLedgerParts` | these instances in parts: each behaviour plays one of a few small casts |
| `JobQueueProofs`, `DocumentLifecycleProofs`, `LedgerProofs`, `FixedAssetsProofs`, `BooksProofs` | theorems about these modules; `BooksProofs` begins with an outline of its three arguments |
| `IntakeProofs` | theorems about `RemoteInbox` and `WhatsAppSessions` |
| `MatchingProofs` | theorems about `BankReconciliation` and `Matching` |
| `Sums` | lemmas on sums over finite sets, which the other proofs cite |

`MCIntake` puts `RemoteInbox`, `WhatsAppSessions` and `DeferredAnalysis` side by side, and
`MCOffice` `FixedAssets`, `BankReconciliation`, `Books` and `Matching`. These parts share no
row in the code either (the session that a capture opens is a row of another table than the
sessions of the chats), so the variable `part` picks one of them per behaviour: interleaving
independent parts would only multiply their state graphs.

**JobQueue.** `job` is the table, indexed by row identity; a key (`<<job_type,
idempotency_key>>`) may come to own several rows, because `enqueue` inserts a new one beside a
COMPLETED one. `worker[w].pc` says between which two transactions, or between which read and
which write of one, the process is: `idle`, `running` (claimed, handler at work), `handled`
(handler committed), `completing` (`complete_job` has read the row), `raised` (handler failed),
`failing` (`fail_job` has read), `sweep`, `scanned` (recovery has the QUEUED documents),
`sweeping` (it has their rows), `down`. Only `acquire_job` locks what it reads and is one step.
`enqueue` (`EnqueueReads`, `EnqueueCommits`), `complete_job`, `fail_job` and the recovery scan
select without a lock and write at the end, and what they write is an `Update`: the columns
whose new value differs from the one read (`NetChange`), applied by id to whatever the row
holds by then (`Apply`), refused by the partial unique index alone. So a late `fail_job` or
recovery may reopen a COMPLETED row, take a claim from a worker, or leave a row PENDING without
attempts; the properties say what remains true. Times are relative to now: `available` is
`available_at <= now`, `lease` compares `locked_until` with now, and `LeaseExpires`,
`BecomesAvailable` are time passing. `SELECT ... LIMIT 1` without an ORDER BY is a choice of any
row. `lapsed` (rows that lost a lease) and `rearmed` are history variables.

**DocumentLifecycle.** Operations that lock the document row (correct, approve, reject, post)
are one step. Those that do not (the pipeline in the job's handler, the pipeline in the
background task of the Hermes upload, retry, recovery) are a step that reads and a step that
writes; in the job's handler and in recovery the two are those of the queue's own transactions.
The writing step respects the ORM as in `JobQueue` (`Written`). The intermediate statuses EXTRACTING and MATCHING live inside one
transaction and are never committed. A candidate is reduced to the transaction it proposes
(`content`; `NoContent` is one without type, date or amount); two different candidates can
propose the same, so a column of equal value may still be written (`Writable`). `flagged` is
`review_flags` or an ambiguous match, `linked` is `converted_transaction_id IS NOT NULL`. The
extractor, the completeness of a candidate and refusals of the database are nondeterministic.
`approved` is a history variable.

**Ledger.** A table is a function of transaction identities: `trx` (kind, amount, retention,
status, flags, `reversal_of_id` as `of`), `je` (the entry of a transaction: NONE, LIVE,
REVERSED, the last for `is_reversed`), `bill` (the invoice or bill a transaction issued: status
and `retention_released_amount`), `alloc` and `release` (to which invoice), `settled`. `req[s]`
is the request a session serves. Nearly every handler decides on unlocked reads, so a request
is two steps, `Begin...` (reads, checks, and for a reversal the computed new row) and
`Commit...` (the writes). Three facts of the code hold the second step together and make it
one step:

* Everyone who writes the journal takes a number with `allocate_next`, an upsert of one row of
  `tenant_sequences`, which stays locked to the end of the transaction. So these commits do not
  overlap.
* Payments and retention releases lock the invoice or bill and read it again
  (`populate_existing`), so their checks stand in the commit (`Allocable`, `Releasable`).
  `reverse_transaction`, `add_review_flag`, `resolve_review_flag` and `authorize_and_post` lock
  nothing; what they saw is in `req`.
* The ORM writes the columns whose value differs from the one loaded (`Written`, `Restatus`).

`authorize_and_post` sets APPROVED on the object before the engine loads "it": without
autoflush the engine gets the same object with the unflushed status, so its refusal of POSTED
and REVERSED never applies and only `uq_je_transaction_id` (`EntryFree`) refuses a second entry.
APPROVED is never committed. The deletes of a reversal that another reversal has already done
match no row, which the ORM only warns about. A failed request (`Abort`) leaves nothing; the
retry loop starts it again, which is another `Begin`. Amounts are small naturals, and the transaction types are those the handlers tell apart. A
payment that a route records gets a settlement, one that `post_document` allocates gets none,
nor does one without payment account: `CommitPay` leaves open which it is.

**RemoteInbox.** The worker at the edge runs SQL statements without transactions, so
`SelectPending` and each `LeaseItem` are steps, and a lease is taken whatever has become of the
row since; the emulator that the tests use does both at once (`PullFromEmulator`), and asks at
the acknowledgement whether the row is still leased (`Acknowledged`). A local transaction is
what it reads (`ClientReads`, `OperatorReads`) and its commit; a unique index that refuses one
of its inserts rolls it back (`RolledBack`). `todo` of a client is `successful_ids`. The relay's
row ids and wamids are one, `received_at` is the order of capture. `overlap` is a history
variable. `Mailbox` is obtained with `captured <- Captured`, `delivered <- Present`,
`settled <- Settled`; its action `Reopen` is there because a slow puller of the worker leases an
acknowledged message once more.

**WhatsAppSessions.** A handler claims a message (`uq_wa_log_org_wamid`), works on it, and
finishes it with a request whose read and commit are two steps; between them it holds the row
lock of the open session, if there was one (`Locked`). The requests of a notifier lock what they
read and are one step each; the send lies between two of them. `Quiet`, `HardMax`, `Slack` and
`LateWindow` are the 60 s, 120 s, 10 s and 300 s of the service. `ack` is the delivery status of
the acknowledgement's log row, with PROCESSING told apart by age: `ClaimGoesStale` is 30 s
passing. `batched` is the process-wide set of the pollers; the first that leaves a batch takes
the sender out of it. `sent` and `reasons` are history.

**DeferredAnalysis.** What the extracted data and the master data answer is three booleans
(`Facts`); `Flags` and `Verdict` are the rules of `analyze_session`, and `Raises` its failing on
a message without caption. `MasterDataGrows` is somebody adding the missing vendor or project
between two analyses.

**FixedAssets.** A run keeps the register as it read it (`seen`), what it has inserted (`made`)
and the number it has allocated; others see its rows' locks (`RowFree`), its codes
(`uq_transactions_org_code` makes the second wait and then fail) and its hold on the sequence
row. A run that waits in a circle is the victim of a deadlock and starts again, up to three
times, with nothing pending. Amounts are cents, rounded half to even as `Decimal.quantize` does.

**BankReconciliation.** A payment has up to three faces in the books: journal line, movement,
transaction. A request locks the line, then the face, and only then looks whether they are
matched; an automatic run does so for each of its lines, keeps all locks, and flushes at its
end. `Refuse` of a request by hand is 404, 409 or 422.

**Books.** `JournalLegs` is `generate_journal_legs`, one operator per rule. An order carries
what its transaction and allocations carry, and is posted at most once, so that an entry is
identified by the order and by how many reversals preceded it (`nth`). The reports are
operators over `journal`, `chart`, `billed` and `applied`. Account codes are numbers whose
prefixes are taken by division.

**Matching.** A document is a record of what is found in it; scores are integers, 10000 for
1.0. `ScoreOf`, `BandOf`, the caps and the lift are those of `matching.py`. Until the document is
read, targets are paid, lose payments, have retention released and are cancelled (`Pay`,
`LosePayment`, `ReleaseRetention`, `CancelTarget`); whether one is open is its status, and what
is outstanding of an invoice is what is collectible less what is paid, as in the models.

Definitions headed "Mutation" are not part of a specification. Each is a plausible bug that
one property finds; PROJECT.json says which.

## Runs

| run | instance | shows |
|---|---|---|
| `queue_safety` (`JobQueueSafety.cfg`) | 2 workers, 2 attempts, a key that recovery sweeps with 2 rows, a request at a time, 1 fault | `TypeOK`; `OneActivePerKey`, `FailedOnlyWhenExhausted`, `LiveLeaseIsWorked`; `CompletedForGood`, `AttemptsRestartOnlyByRequest` |
| `queue_stuck` (`JobQueueStuck.cfg`) | 1 worker, 1 row of an unswept key, 1 fault | **violated**: `ExpiredLeaseIsRecovered` |
| `documents` (`Documents.cfg`) | 1 Hermes upload, 2 rows for processing, 1 for posting, 2 attempts, 2 contents; in five parts the worker has a background task, a retry, a crash, a second worker, or a user who posts beside it | `DocTypeOK`, `AtMostOnePosting`, `PostedAfterApproval`, `NoQueuedDocumentLeftBehind`, the refinement `QueueSafety`; `QueuedIsSettled` in the part with the crash |
| `doc_orphan` (`DocumentOrphan.cfg`) | 1 web upload, 1 worker, 1 retry | **violated**: `OrphanIsRecovered` |
| `doc_unapproved` (`DocumentUnapproved.cfg`) | 1 Hermes upload, 2 contents | **violated**: `OnlyApprovedIsPosted` |
| `ledger` (`Ledger.cfg`) | 2 sessions, 4 transactions; in three parts customer invoices of two units without flags, bills and transfers of one unit with a flag, and a period that closes | `TypeOK`, `NoOverAllocation`, `SettlementsMatchJournal`, `SubledgerMatchesJournal`, `StatusMatchesEntry`, `ReversedEntriesHaveReversals`, `JournalIsAppendOnly` |
| `ledger_flagged` (`LedgerFlagged.cfg`) | 2 sessions, bills and transfers | **violated**: `PostedLeavesOnlyByReversal` |
| `ledger_reversed` (`LedgerReversed.cfg`) | the same | **violated**: `ReversedOnce` |
| `intake` (`Intake.cfg`) | 2 messages of one file, one with bad media, 2 clients or a client and an operator, 1 crash; 2 messages of a chat, 2 handlers, 2 notifiers, 1 batch, 1 crash or failed send; 1 analyst, 3 attempts, 2 worker deaths | `AckedIsIngested`, `SyncedHasSession`, `DuplicatesOnlyByOverlap`, `ImplementsMailbox`, `CapturedIsSettled`; `FinalizedKeepTheirMessages`, `AcksAreAccountedFor`, `ConfirmedStaysConfirmed`, `OpenedIsAcked`; `CaptionedIsAnalysed` |
| `ack_twice` (`IntakeTwice.cfg`) | as `intake` | **violated**: `OneAckPerSession` |
| `office` (`Office.cfg`) | 2 assets, 4 dates in 3 months, 2 sessions, 4 requests; 2 files, 4 lines, 4 faces, 2 clerks, 3 requests to match; 21 orders, every rule among them, 2 years, 3 entries; 5 targets, 3 parties, 5,677 documents | `OneDepreciationPerMonth`, `RegisterMatchesHistory`, `NumberedWithoutGap`; `PassedChecksHold`, `MatchedLinesAgree`; `StatementsAgree`, `SubledgersTie`, `ProjectsTie`; `SureTargetIsRight`, `SureTargetHasNoRival` |
| `subledgers_part` (`OfficeReconcile.cfg`) | as `office` | **violated**: `SubledgersReconcile` |

Deadlock is not checked: users may stop asking, and every bound is one.

Bounds. Two workers are enough for one to outlive its lease while the other holds the row, and
for one to write late what it read before the other's claim; two rows of a key for a COMPLETED
one beside an active one, which is when a stale writer meets the unique index; two attempts for
a failure that is retried and one that is final; one fault for a crash at any point. `Job`
bounds the rows of a key, `Client` the requests in flight, `MaxFaults` the crashes and failed
transactions, `MaxRetries` the retry requests. Documents do not interact except by competing for
workers, so one document is explored in depth. Two contents, one of an AUTO_SAFE type, tell an
approved candidate from its replacement. All companies of the worker at once are beyond TLC, so
each behaviour of `documents` has one of them: a background task, a retry, a crash, a second
worker, or a user who posts. A rerun after a crash is in the third, two workers that overtake
each other in the fourth. What takes two of them at once is covered by the theorems.

For the ledger, two sessions are a race: one commits between the other's read and its commit.
Four transactions are an invoice, two of payments and releases, and a reversal; with amounts to
2, half of an invoice can be retention and half a payment. Three transactions of one unit
suffice for flags, where amounts do not matter, and two for a closing. Longer chains (a reversal
of a reversal beside two payments, three sessions) are beyond the runs; the theorems cover them.
Transactions and sessions have no order and are symmetric (`Symmetry`); the ledger's run checks
no liveness. `Trx` bounds how many transactions are ever created; the ledger stops there
(nothing deadlocks, the period can still change).

For the intake, two messages with the same content meet in one unique index of documents, and
one of them cannot be verified; two clients are two PCs (or one whose cycles overlap), and
`MaxCrashes` = 1 puts a crash at any point of a cycle. In the chat a document and a text arrive
one unit apart with windows of one and two units, so that the second message finds the session
open, over, finalized or acknowledged; `Horizon`, `MaxTrouble` and `MaxBatches` stop the clock,
the faults and the batches. With three attempts, two worker deaths leave the last attempt to
succeed; a third would be the known end of a job, FAILED or stuck.

For the office, two sessions and two assets are what a batch and a single run need to deadlock
over codes and the sequence; two dates fall in one month, and the last month is closed.
`MaxRequests` bounds runs and changes of the register together, so a run whose
retries are used up may be out of sight. Among the statement lines are two that compete for one movement, one that
went out and one without amount. Three entries are a bill, a payment and a reversal, or a reversal of a
reversal; an invoice overpaid by the reversal of a release takes four or more and is not
reached. The
documents of the matching run cross every way of naming a party, a number and a project with
five amounts and three dates; before one is read, payments of half of its total, releases and
cancellations change one target (`Instalments`, `MaxChanged`).

Fairness. Weak fairness of each worker's loop (the process runs and is restarted when it dies:
it is a service), of lease expiry and of availability (clocks advance); of the
steps of a pull client: `src/edge-relay/README.md:83` sets its interval to 60 s, though the
process that would call `sync_remote_to_local` is not in the repository, only tests call it; of the handlers and notifiers of the
chat, which are tasks of a process that goes on, of its batches, which end in a `finally`, and
of its clock. None for users, operators, requests that have
not begun, background tasks (they die with the API process), captures, or faults. `QueuedIsSettled`
is checked without retry: with one it is false, which `doc_orphan` shows. It is checked for one
worker, for that is how many the repository starts (`src/scripts/windows/Start-Financial-SaaS.ps1:236`
starts `src.worker` unless it runs). With two it is false: see below. `CapturedIsSettled` leaves out messages whose media
fail verification, which are leased again for ever. `OpenedIsAcked` and `CaptionedIsAnalysed`
hold with the faults bounded; the second is stated of captioned captures only, since an analysis
without caption raises at every attempt. `MCIntake` states these conditions
again, each under the part it belongs to.

## What the violations say

1. `queue_stuck`. `acquire_job` (`services/job_queue_service.py:126`) re-claims an expired
   lease only while attempts are left, and the recovery scan looks only at DOCUMENT_PROCESS
   jobs of QUEUED documents. A worker that dies in the last attempt of a DOCUMENT_POST or
   DOCUMENT_DEFERRED_ANALYSIS job leaves the row RUNNING for good, and its key blocked.
   `services/job_worker.py:25` promises "Lease timeout recovery".
2. `doc_orphan`. A retry between the handler's commit and `complete_job` finds the job RUNNING
   and enqueues nothing. The job completes; the document stays QUEUED, and recovery skips
   COMPLETED jobs, against the docstring `services/job_queue_service.py:202`.
3. `doc_unapproved`. An extraction that read the document before its approval commits after
   it. Status and flags end as they were read, so they are not written; the candidate is. The
   posting service posts the replacement (`services/document_posting_service.py:63`: "approved
   READY_TO_POST documents").
4. `ledger_flagged`. `add_review_flag` (`services/review_service.py:87`) sets REVIEW_REQUIRED
   on any transaction; resolving sets STAGED. A posted transaction ends STAGED beside its
   entry: it can neither be posted (the unique constraint) nor reversed (only POSTED ones can).
   `src/specs/002-core-financial-domain-model/spec.md:557` forbids it, and
   `services/immutability_guard.py`, which would refuse, is never called.
5. `ledger_reversed`. `reverse_transaction` reads the status and `is_reversed` without a lock;
   the sequence row makes the second reversal wait for the first and then commit all the same.
   `services/reversal_service.py:47` "Guarantees zero net financial impact".
6. `ack_twice`. A claim of an acknowledgement older than 30 s may be taken over
   (`api/v1/whatsapp_state.py:466`), also from a notifier that has sent and is slow to report,
   or died between the two: the chat is acknowledged twice.
   `services/documents/whatsapp_session_service.py:7`: "Exactly one ACK per finalized candidate
   session [...] Retries and restarts never duplicate ACKs."
7. `subledgers_part`. Posting writes a row of the subledger for VENDOR_BILL and CUSTOMER_INVOICE
   only (`services/accounting_engine.py:141-185`). A vendor payment posted by the general route,
   the counterexample, debits 2101 and pays no bill; further causes are listed under *Subledgers*
   below. `src/specs/004-financial-reporting-dashboard/spec.md:34` demands that receivables and
   payables on the balance sheet reconcile with the lists of invoices and bills to 100%.

Met in the two-step queue, without a run of its own: with two workers a document may stay QUEUED
for good. `fail_job` or recovery reads a row with an attempt left; before its UPDATE another
worker claims that attempt; the UPDATE makes the row PENDING again with no attempt left, which
`acquire_job` (line 126) never claims and recovery, which looks for stale RUNNING rows, passes
over. Checked with two workers, `QueuedIsSettled` was violated in this way, which is why
it speaks of the part with one worker, the number that the start script runs.
Of a job whose attempts are exhausted `services/job_queue_service.py:267` says "document must not
remain QUEUED indefinitely". In the same way a late UPDATE reopens a COMPLETED row, whence the premise of
`CompletedForGood`.

Four more races of the ledger have no run of their own. TLC found the first as the violation of
"nothing is allocated to a cancelled invoice", which no document states: an invoice is reversed
while a payment of it commits, and the payment stays allocated to it. A payment's reversal
writes a status computed before another payment committed, so that a status can disagree with
its allocations. A release's reversal writes back a released amount that misses a release
committed meanwhile (`services/reversal_service.py:145`), so that releases can add up to more
than the retention although the column never exceeds it; no property of `Ledger` excludes that,
and `src/specs/fin-001-ar-ap-allocation-integrity/data-model.md:11` would have the invoice locked
first. Last, a payment posted from a document is allocated without movement and settlement
(`services/document_posting_service.py:457-470`), although `services/money_movement_service.py:45`
"guarantees that Journal, AP/AR settlement, and operational MoneyMovement cannot diverge";
`SettlementsMatchJournal` therefore asks a settlement of transfers, not of payments.

Seen while reading, without a run of their own: the same stale write can put a REJECTED or
POSTED document back into review or flag a READY_TO_POST one; a posted document approved again
stays READY_TO_POST, since posting returns it as already posted; recovery fails a document it
read as QUEUED even if it has moved on; `services/documents/pipeline.py:45` uses
`DocumentType` without importing it, so that a caption hint makes an UNKNOWN document FAILED;
uploads with `process=False` stay HASHED.

More was met while modelling. The models follow the code in all of it, and some properties
say exactly how far it goes; none has a run that shows it violated:

* *Statements.* Posting ignores `is_active`, while trial balance, profit and loss, balance sheet
  and cash flow show active accounts only: an account deactivated with a balance unbalances
  them, whence the premise of `StatementsAgree`. The closing equity of the equity statement
  misses other opening balances and the undistributed earnings of earlier years. The balance
  sheet's current-year profit is that of all years (`services/reporting/balance_sheet_service.py:122`),
  so from the second year on it is not the net profit of the profit and loss, which
  `src/docs/ACCOUNTING_REPORTING_STANDARDIZATION_V1.md:175` demands; `StatementsAgree` does not
  compare the two. Account 6106
  counts as income tax because its name contains the word. A general ledger filtered by project
  has an unfiltered opening balance. The overview shows the whole of 1101 for every payment
  account mapped to it.
* *Subledgers.* `SUBCONTRACTOR_BILL` and an asset bought on credit credit 2101 without a bill;
  payments and releases posted by the general route apply to no invoice; an invoice whose
  reversal is reversed stays CANCELLED; agings of past dates use today's allocations; the
  dashboard counts withheld retention as receivable, the aging does not; when the release of a
  retention is reversed after the invoice was paid in full, the invoice is overpaid, and no aging
  shows it. `SubledgersTie` states each difference exactly; it is what the code
  does, not what the specification of the dashboard asks, for which see `subledgers_part`.
* *Projects.* Costs without category and costs of OTH share a key of the project report
  (`services/reporting/project_reporting_service.py:91`), and one row is lost, although direct costs
  include both (`ACCOUNTING_REPORTING_STANDARDIZATION_V1.md:58`); the rows of that report are not
  modelled;
  `cash_spent` counts credits only, so money that comes back stays spent; a net contribution is
  never reported, for no posting rule gives a project such costs. `ProjectsTie` states the last two.
* *Fixed assets.* Two runs of different months that overlap lose one update of
  `accumulated_depreciation`, so that the asset is depreciated further than it may be; so does a
  PATCH that raises the salvage value. `ACCOUNTING_REPORTING_STANDARDIZATION_V1.md:98` has
  accumulated depreciation "NEVER exceed the depreciable amount". Reversing a depreciation touches
  neither the register nor the month's record, so that both part from the journal; PATCH sets any status, DISPOSED to ACTIVE included; a rate that rounds to zero
  never depreciates; one asset that may not be charged fails its whole batch.
* *Bank.* A payment has three faces, so two lines can be matched to one payment; a transaction
  is compared by its amount alone; a line without amount passes validation for any journal line
  and fails on a check constraint; nothing retries a deadlock, and nothing takes a match back.
* *Matching.* The full total counts as exact of a target that is partly paid or has retention withheld:
  it is taken without review, and the allocation that follows is refused; the transfer proof of a
  party that is customer and vendor is matched without the party and may take another's target
  without review; no target at all asks for no review there. Sums that are 0.55 in decimals may
  fall short of it in floating point (`FallsShort`).
* *Intake.* The edge worker's webhook writes no media rows, so its messages arrive without
  attachment and open no session; the client syncs without queueing an analysis; bad media are
  leased again for ever, and `Limit` of them starve newer messages; two concurrent syncs open
  two sessions for a message, and two concurrent handlers two open sessions for a sender; a
  crash between claim and finish loses a chat message; concurrent late captions overwrite each
  other; an analysis of a message without caption that finds no project
  raises, and its session stays PENDING.

## What is proved

With TLAPS, for every value of the constants that the named assumption of the module allows.

For the queue and the life cycle of documents (`QueueAssumption`, `LifecycleAssumption`), for
any rows, keys, workers, documents and bounds:

* `QueueTypes`. The invariant is `TypeInv`: the types, and that an executing worker has a row,
  without which the transaction that ends its execution would read none.
* The other four theorems about the queue rest on `WritesInv`, what a transaction may hold between
  its read and its commit: no worker's UPDATE restarts attempts or makes a row RUNNING, only
  `complete_job` makes one COMPLETED, and a request's UPDATE rearms.
* `QueueOneActivePerKey`, with `AloneInv`: of the UPDATEs of one transaction at most one concerns a
  given key. The lemma behind it is `ActivatesAlone`: each of the four ways a row becomes active
  (insert, rearm, recovery, a late `fail_job`) commits when the key has no other active row, and
  the index refuses it otherwise.
* `QueueFailedOnlyWhenExhausted`, with `ExhaustedInv` (a row that an UPDATE will make FAILED has no
  attempt left, also if it was claimed since it was read) and `Unborn` (a row not yet inserted
  has no attempts). `QueueAttemptsRestartOnlyByRequest`, an action property, needs the latter.
* `QueueLiveLeaseIsWorked`, with `OneActivePerKey`, as otherwise the index could refuse the UPDATE
  that ends an execution and its row would stay leased to nobody, and `EndInv`: who still holds
  the lease has an UPDATE that changes the status.
* `QueueCompletedForGood`, an action property: a COMPLETED row stays COMPLETED unless it has
  lost a lease or was rearmed. `KeptInv` says of a row to which neither happened (`Untouched`) that
  whoever executes it holds its lease and no recovery scan is about to write it.
  `LifeCompletedForGood` is the same of the life cycle, by the next theorem.
* `LifeImplementsQueue`: every step of the life cycle is a step of the queue or changes none
  of its variables. By it `LifeOneActivePerKey` and `LifeFailedOnlyWhenExhausted` follow from
  the queue's theorems.
* `LifeTypes`, `LifeAtMostOnePosting` and `LifePostedAfterApproval`. One lemma, `DocChanges`,
  sorts every step by what it does to a document: nothing the ledger depends on, an approval, or a
  posting through all gates. It needs `LifeInv`: a request that has begun to enqueue the posting
  of a document has found its candidate (`LockedInv`). The three invariants follow from it. `PostedAfterApproval` is not inductive: it needs
  `ReadyWasApproved`, that only an approval makes a document READY_TO_POST.
* `LifeNoQueuedDocumentLeftBehind`. The invariant is `LeftInv`. Besides `LifeInv` and `WritesInv` it
  says that what a transaction is about to write is there (`PresentInv`), and of every worker
  between two transactions what it may rely on while nobody has asked for a retry (`Unretried`):
  a worker that has handled a document's processing job has moved the document out of QUEUED,
  one that has read another status than QUEUED finds it settled, a recovery scan has read only
  documents that exist, and a document not yet uploaded has no job.

For the accounts:

* For the ledger, from `LedgerAssumption`: `LedgerTypes`, `LedgerStatusMatchesEntry`,
  `LedgerSettlementsMatchJournal`, `LedgerReversedEntriesHaveReversals`,
  `LedgerSubledgerMatchesJournal`, and the action property `LedgerJournalIsAppendOnly`, for any
  number of sessions, transactions, flags and amounts. The invariant is `LedgerInv`. It adds to
  the properties three things: an unused identity is in no table (`Blank`), foreign keys refer
  to rows (`References`), and what a request in flight relies on when it commits (`InFlight`):
  its rows exist, which they do for good since nothing is deleted (`NothingDeleted`), and the
  row a reversal will write says CANCELLED only if it is the reversed transaction's own or was
  cancelled when read. One lemma per action; `RequestStep`, `RowStep` and `NewRowStep` hold what
  the reading actions, the flags, and the payments and releases have in common.
* `LedgerNoOverAllocation`, of sums of any number of payments; nothing is said of sums of
  releases. `BoundedInv` adds to `LedgerInv` that the column of the released amount is within the
  retention (`WithinRetention`), which bounds what an invoice can collect, also after the UPDATE
  of a reversal in flight (`SoundReversals`), and is 0 before it is issued (`Unissued`). Why the sum of the payments stays within bounds although reversals lock
  nothing: a reversal only takes payments away (`PaidNoMore`), whatever it read, and who adds
  one looks at the sum under the lock (`PaidMore`).
* For fixed assets, from `AssetAssumption`: `AssetTypes`, `OncePerMonth` and `NoGaps`. `AssetsInv`
  says that the codes of open runs are disjoint from each other and from those committed, that
  one run at most holds the sequence, and that its numbers continue the committed ones.
* `RegisterAddsUp`: the register never holds more than the sum of the month records, and holds
  that sum unless two runs overlapped. `JournalInv` says of every run
  that what it read of an asset is still in the register, and what it will write is that plus
  its charge, unless the asset was written since by another run, which sets it apart.
* For the books, from `BooksAssumption` (orders, accounts and days have their columns' types,
  a year begins no later than its days): `BooksStayBalanced` and `ReportsAgree`, that the
  statements agree in what `AgreeOn` lists, to which the earnings of the balance sheet do not
  belong. `BooksInv` says that all twenty rules yield typed legs, every entry
  balances, reversed ones too, and the chart is finite and has the three equity accounts that
  the equity statement names. The proof is about `Net`: it adds up over disjoint accounts and
  over disjoint entries, and is 0 over all accounts. The sections of every statement are shown
  to divide the accounts without overlap, whatever their codes, names and sections.
* `RecordsStayTrue`, `SubledgersAgree` and `ProjectsAgree`, from the same assumption: ledger,
  subledgers and project reports differ by nothing but what `SubledgersTie` and `ProjectsTie`
  name. Neither is inductive. The invariant, `RecordsInv`, adds to `BooksInv` what the journal
  remembers of an order (`HistoryInv`: its entries are, by turns, the legs of its rule and their
  reversal, the latest is numbered by how many precede it, and together they weigh what the legs
  weigh if the order is in force and else nothing) and what the subledgers may rely on
  (`BillsInv`: an invoice or bill is open only while its order is posted exactly once, a payment
  or release counts only then and for one bill, and no bill is paid or released beyond its
  amounts). The rest is a calculation. A `Weight` gives each leg a number that changes its sign
  when the leg is reversed. Every balance in question is the sum of a weight over the journal;
  an entry and its reversal cancel, so over what posting rules wrote the sum is that of the
  orders in force (`RuledBalance`), each with what the legs of its rule weigh. That is found
  rule by rule, twenty of them; and the subledgers add up the same orders kind by kind.
  `BillAlgebra` relates what is open, collectible, unreleased and overpaid of one invoice.
  What is spent for a project and what is charged to it are sums over some of its legs: they are
  reduced to weights leg by leg.

For what comes in and is matched:

* For the remote inbox, from `InboxAssumption`: `InboxTypes`, `AckedAreIngested`,
  `SyncedHaveSessions`, `DuplicatesNeedOverlap`, and the refinement `InboxImplementsMailbox`
  (`MailboxSafety`; its liveness stays with TLC). The invariant `InboxInv` says what a client may
  rely on between two steps (`SyncerOK`: what it will acknowledge is present or in the
  transaction it is about to commit, and the documents its backlog lacks are stored or among
  those it makes), that sessions come with SYNCED (`SessionsSynced`), and that two transactions
  that have read one message are on record as overlapping (`OverlapsRecorded`).
* For the chat sessions, from `ChatAssumption`: `ChatTypes`, `AcksAccounted`, `FinalizedKept`
  and `ConfirmedKept`. The invariant `ChatInv` says that a session locked by a handler stays
  open and is locked by one handler (`OwnsItsSession`), that rows are used in order (`Packed`),
  without which a new session could overwrite an old one, and that for each session the
  acknowledgements sent and those still to be sent by their claimants are paid for by the first
  claim and the takeovers (`Paid`). The last is the point: `AcksAreAccountedFor` by itself is
  not inductive.
* For bank reconciliation, from `BankAssumption`: `BankTypes`, `ChecksHold` and `LinesAgree`.
  `BankInv` says that a request has locked the line and the face of everything it has matched
  and of what it is about to check, and that the locks of two requests are disjoint.
* For matching, from `MatchAssumption`: `SureIsRight` and `SureHasNoRival`, for any parties,
  targets and documents. The weights of the signals bound every score; a score in the band HIGH
  therefore has the signals that name the target, and a rival with them would be within the
  margin, so that the lift of a certain candidate to 0.95 hides none. `MatchInv` needs only to
  add that what is paid and released are natural numbers (`PaidOK`): a verdict is a function of
  what it reads. That a target can take the amount is not claimed.

`Sums` holds what those proofs need of `SumFunctionOnSet`. The library defines it by a recursive
function over finite sets, whose unfolding it states for an operator that this prover cannot
instantiate. The lemmas therefore argue by a smallest finite set that fails (`SmallestSet`): the
recursion has a unique solution, the sum is it, and so it can be taken apart (`SumRemove`,
`SumUnion`) and compared with anything that grows alike (`SumIs`).

Only model-checked: everything under fairness (`QueuedIsSettled`, `CapturedIsSettled`,
`OpenedIsAcked`, `CaptionedIsAnalysed`, the liveness of `Mailbox`), which the prover does not
reach. Every invariant that a run checks is the subject of a theorem.

## Not modelled

* Clarification questions, rejected senders, the rebuilding of old sessions and the finalize
  endpoint of `api/v1/whatsapp_state.py`: short handlers under their own locks. The last does
  what a notifier's request does first (`Finalized`), at a time its caller gives.
* Vendor advances (no route registers or settles them), movements recorded by hand, due dates,
  the creation of periods, budgets and variation orders.
* Retries after a serialization failure (no engine or session asks for
  more than READ COMMITTED) and after a collision
  of an allocated code (no code is both allocated and taken by hand).
* The parsing of statements, payloads and media; extraction and classification, whose outcome
  is a nondeterministic choice of `DocumentLifecycle`; exports, insights, the completeness
  dashboard of bank reconciliation.
* Authentication, tenancy, HTTP plumbing, front end, scripts: stateless, or a filter on every
  query.

What would come next: the posting of a document as one request of `Ledger`, what remains true
of invoice statuses under fewer sessions, and `Books` against concurrent sessions instead of one
handler at a time.
