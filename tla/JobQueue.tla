------------------------------ MODULE JobQueue ------------------------------
(***************************************************************************)
(* The PostgreSQL-backed background job queue: the rows of background_jobs *)
(* (JobQueueService) and the loop of the workers that drain them           *)
(* (JobWorker).                                                            *)
(*                                                                         *)
(* A worker claims a row, runs the handler, and completes or fails the row,*)
(* each in a transaction of its own, so it can die, or outlive its lease,  *)
(* between any two.  acquire_job locks the row it takes and is one step.   *)
(* enqueue, complete_job, fail_job and the recovery scan select rows       *)
(* without a lock, decide, and send their UPDATEs at the end: two steps,   *)
(* with anything in between.  An UPDATE finds the row by id, asks neither  *)
(* who holds it nor in which status it is, and names the columns whose     *)
(* value differs from the one that was read.                               *)
(*                                                                         *)
(* What the module does not know, it leaves open: which handler runs and   *)
(* how it ends, and which documents the recovery scan finds QUEUED.        *)
(* DocumentLifecycle extends it and decides both.                          *)
(*                                                                         *)
(* A definition headed "Mutation" is no part of the specification: it is   *)
(* the bug that a property named in PROJECT.json would find.               *)
(*                                                                         *)
(* Time is relative to "now": available is available_at <= now, lease      *)
(* compares locked_until with now.  ORDER BY created_at is left open,      *)
(* SKIP LOCKED passes over an older row: any claimable row may be taken.   *)
(***************************************************************************)
EXTENDS Naturals, FiniteSets

CONSTANTS
  Job,          \* the row identities; bounds how many rows a key ever gets
  Key,          \* <<job_type, idempotency_key>> pairs
  KeyOf,        \* the key of each row
  SweptKey,     \* the keys of DOCUMENT_PROCESS jobs, which recovery looks at
  Worker,       \* worker processes
  NoWorker,     \* locked_by IS NULL
  NoJob,        \* a worker that executes nothing, a request that found no row
  Client,       \* requests that may be in flight at a time
  AsksFor,      \* the key each of them enqueues
  MaxAttempts,  \* max_attempts
  MaxFaults     \* bound: crashes and failed database transactions

ASSUME QueueAssumption ==
  /\ KeyOf \in [Job -> Key]
  /\ SweptKey \subseteq Key
  /\ NoWorker \notin Worker
  /\ NoJob \notin Job
  /\ AsksFor \in [Client -> Key]
  /\ MaxAttempts \in Nat \ {0}
  /\ MaxFaults \in Nat

VARIABLES
  job,     \* the table: Job -> Row
  worker,  \* what each worker process is doing
  ask,     \* what each request in flight is about to write
  faults,  \* how many crashes and failed transactions have happened
  lapsed,  \* history: the rows a lease of which has run out
  rearmed  \* history: the rows a request has rearmed

queueVars == <<job, worker, ask, faults, lapsed, rearmed>>

Status == {"ABSENT", "PENDING", "RUNNING", "COMPLETED", "FAILED"}
Active == {"PENDING", "RUNNING"}
Executing == {"running", "handled", "completing", "raised", "failing"}

Row == [status: Status, attempts: 0..MaxAttempts, locked_by: Worker \cup {NoWorker},
        lease: {"none", "live", "expired"}, available: BOOLEAN]

\* What an UPDATE sets: the columns it does not name are kept.  locked_by and locked_until are
\* set to NULL together, attempt_count to 0.
Update == [status: Status \cup {"KEPT"}, restart: BOOLEAN, unlock: BOOLEAN,
           available: {"KEPT", "NOW", "LATER"}]
NoUpdate == [status |-> "KEPT", restart |-> FALSE, unlock |-> FALSE, available |-> "KEPT"]

\* A worker: the row it executes; of a recovery, the keys it found QUEUED, later those that
\* have no row; and the UPDATEs its transaction will commit.
Process == [pc: {"down", "idle", "sweep", "scanned", "sweeping"} \cup Executing,
            job: Job \cup {NoJob}, scan: SUBSET SweptKey, writes: [Job -> Update]]

\* A request: the row it will return, rearm (insert, when there is none).
Asking == [pc: {"idle", "returns", "rearms", "inserts"}, job: Job \cup {NoJob}, write: Update]

TypeOK ==
  /\ job \in [Job -> Row]
  /\ worker \in [Worker -> Process]
  /\ ask \in [Client -> Asking]
  /\ faults \in 0..MaxFaults
  /\ lapsed \subseteq Job
  /\ rearmed \subseteq Job

-----------------------------------------------------------------------------
(* Rows and what the service writes into them.                             *)

Absent == [status |-> "ABSENT", attempts |-> 0, locked_by |-> NoWorker,
           lease |-> "none", available |-> FALSE]

\* A row just inserted, or a FAILED one that enqueue rearms.
Armed == [status |-> "PENDING", attempts |-> 0, locked_by |-> NoWorker,
          lease |-> "none", available |-> TRUE]

RowsOf(k) == {j \in Job : KeyOf[j] = k /\ job[j].status # "ABSENT"}
FreeRows(k) == {j \in Job : KeyOf[j] = k /\ job[j].status = "ABSENT"}
ActiveRows(k) == {j \in RowsOf(k) : job[j].status \in Active}

\* The index uq_jobs_active_idempotency lets row j become active.
MayActivate(j) == ActiveRows(KeyOf[j]) \subseteq {j}

\* The ORM's net change: an UPDATE of the columns whose new value is not the one that was read.
\* Every transaction that makes a row PENDING sets available_at, no other one does.
NetChange(new, old) ==
  [status |-> IF new.status = old.status THEN "KEPT" ELSE new.status,
   restart |-> new.attempts # old.attempts,
   unlock |-> new.locked_by # old.locked_by,
   available |-> CASE new.status # "PENDING" -> "KEPT"
                   [] new.status = "PENDING" /\ new.available -> "NOW"
                   [] new.status = "PENDING" /\ ~new.available -> "LATER"]

\* What it makes of the row, whatever that holds by then.
Apply(u, r) ==
  [status |-> IF u.status = "KEPT" THEN r.status ELSE u.status,
   attempts |-> IF u.restart THEN 0 ELSE r.attempts,
   locked_by |-> IF u.unlock THEN NoWorker ELSE r.locked_by,
   lease |-> IF u.unlock THEN "none" ELSE r.lease,
   available |-> u.available = "NOW" \/ (u.available = "KEPT" /\ r.available)]

\* Mutation: there is no partial unique index.
NeverRefused(u, j) == FALSE

\* Mutation: the index refuses the row because of the row itself.
RefusedBesideItself(u, j) == u.status \in Active /\ ActiveRows(KeyOf[j]) # {}

\* The index refuses an UPDATE that makes row j active beside another one.
Refused(u, j) == u.status \in Active /\ ~MayActivate(j)

\* Mutation: acquire_job forgets attempt_count < max_attempts.
ClaimableForever(j) ==
  /\ \/ job[j].status = "PENDING"
     \/ job[j].status = "RUNNING" /\ job[j].lease = "expired"
  /\ job[j].available

Claimable(j) ==
  /\ \/ job[j].status = "PENDING"
     \/ job[j].status = "RUNNING" /\ job[j].lease = "expired"
  /\ job[j].available
  /\ job[j].attempts < MaxAttempts

ClaimedBy(w, r) == [status |-> "RUNNING", attempts |-> r.attempts + 1, locked_by |-> w,
                    lease |-> "live", available |-> r.available]

CompletedRow(r) == [r EXCEPT !.status = "COMPLETED", !.locked_by = NoWorker, !.lease = "none"]

\* Mutation: off by one.
ExhaustedOneEarly(r) == r.attempts + 1 >= MaxAttempts

Exhausted(r) == r.attempts >= MaxAttempts

FailedRow(r) ==
  [r EXCEPT !.status = IF Exhausted(r) THEN "FAILED" ELSE "PENDING",
            !.available = IF Exhausted(r) THEN r.available ELSE FALSE,
            !.locked_by = NoWorker,
            !.lease = "none"]

StaleRow(r) == r.status = "RUNNING" /\ r.lease # "live"

\* Mutation: a stale row gets its attempts back.
SweptRowResettingAttempts(r) ==
  IF Exhausted(r) THEN [r EXCEPT !.status = "FAILED"] ELSE Armed

\* What the recovery scan makes of a stale row of a QUEUED document.
SweptRow(r) ==
  IF Exhausted(r)
  THEN [r EXCEPT !.status = "FAILED"]
  ELSE [r EXCEPT !.status = "PENDING", !.available = TRUE, !.locked_by = NoWorker, !.lease = "none"]

-----------------------------------------------------------------------------
(* Requests.                                                               *)

Asked(c) == RowsOf(AsksFor[c])
NotAsking == [pc |-> "idle", job |-> NoJob, write |-> NoUpdate]
AskEnds(c) == ask' = [ask EXCEPT ![c] = NotAsking]

\* enqueue looks at ANY one row of the key: it will return an active one, rearm a FAILED one,
\* and insert one after a COMPLETED one, or none.
Answer(j) ==
  CASE job[j].status \in Active -> [pc |-> "returns", job |-> j, write |-> NoUpdate]
    [] job[j].status = "FAILED" -> [pc |-> "rearms", job |-> j, write |-> NetChange(Armed, job[j])]
    [] job[j].status = "COMPLETED" -> [pc |-> "inserts", job |-> NoJob, write |-> NoUpdate]

EnqueueReads(c) ==
  /\ ask[c].pc = "idle"
  /\ \/ \E j \in Asked(c) : ask' = [ask EXCEPT ![c] = Answer(j)]
     \/ /\ Asked(c) = {}
        /\ ask' = [ask EXCEPT ![c] = [pc |-> "inserts", job |-> NoJob, write |-> NoUpdate]]

Returns(c) == ask[c].pc = "returns" /\ UNCHANGED <<job, rearmed>>

\* Rearming a FAILED row beside an active one breaks the index: the request fails.
Rearms(c) ==
  /\ ask[c].pc = "rearms"
  /\ LET j == ask[c].job IN
     /\ ~Refused(ask[c].write, j)
     /\ job' = [job EXCEPT ![j] = Apply(ask[c].write, @)]
     /\ rearmed' = rearmed \cup {j}

\* When the index refuses the new row, an active one is returned in its place.
Inserts(c) ==
  /\ ask[c].pc = "inserts"
  /\ \/ ActiveRows(AsksFor[c]) # {} /\ UNCHANGED job
     \/ /\ ActiveRows(AsksFor[c]) = {}
        /\ \E j \in FreeRows(AsksFor[c]) : job' = [job EXCEPT ![j] = Armed]
  /\ UNCHANGED rearmed

EnqueueCommits(c) == (Returns(c) \/ Rearms(c) \/ Inserts(c)) /\ AskEnds(c)
EnqueueFails(c) == ask[c].pc # "idle" /\ AskEnds(c) /\ UNCHANGED <<job, rearmed>>

-----------------------------------------------------------------------------
(* The worker loop.                                                        *)

NoUpdates == [j \in Job |-> NoUpdate]
Resting(pc) == [pc |-> pc, job |-> NoJob, scan |-> {}, writes |-> NoUpdates]

Goto(w, pc) == worker' = [worker EXCEPT ![w].pc = pc]
Rest(w, pc) == worker' = [worker EXCEPT ![w] = Resting(pc)]
Release(w) == Rest(w, "idle")

\* The worker has read row j of its job, and will commit an UPDATE of it.
WillWrite(w, pc, u) ==
  worker' = [worker EXCEPT ![w].pc = pc, ![w].writes = [NoUpdates EXCEPT ![worker[w].job] = u]]
Fault == faults < MaxFaults /\ faults' = faults + 1

\* acquire_job in a transaction of its own.
Acquire(w, j) ==
  /\ worker[w].pc = "idle"
  /\ Claimable(j)
  /\ job' = [job EXCEPT ![j] = ClaimedBy(w, job[j])]
  /\ worker' = [worker EXCEPT ![w].pc = "running", ![w].job = j]
  /\ UNCHANGED <<ask, faults, lapsed, rearmed>>

\* The queue stayed empty for fifteen polls: time for the periodic recovery.
PollEmpty(w) ==
  /\ worker[w].pc = "idle"
  /\ \A j \in Job : ~Claimable(j)
  /\ Goto(w, "sweep")
  /\ UNCHANGED <<job, ask, faults, lapsed, rearmed>>

HandlerCommits(w) ==
  /\ worker[w].pc = "running"
  /\ Goto(w, "handled")
  /\ UNCHANGED <<job, ask, faults, lapsed, rearmed>>

HandlerRaises(w) ==
  /\ worker[w].pc = "running"
  /\ Goto(w, "raised")
  /\ UNCHANGED <<job, ask, faults, lapsed, rearmed>>

\* complete_job finds the row by id, whatever has become of it.
CompleteReads(w) ==
  /\ worker[w].pc = "handled"
  /\ LET r == job[worker[w].job] IN WillWrite(w, "completing", NetChange(CompletedRow(r), r))
  /\ UNCHANGED <<job, ask, faults, lapsed, rearmed>>

CompleteCommits(w) ==
  /\ worker[w].pc = "completing"
  /\ LET j == worker[w].job IN job' = [job EXCEPT ![j] = Apply(worker[w].writes[j], @)]
  /\ Release(w)
  /\ UNCHANGED <<ask, faults, lapsed, rearmed>>

\* The transaction of complete_job fails: the except branch will call fail_job.
CompleteRaises(w) ==
  /\ worker[w].pc \in {"handled", "completing"}
  /\ Fault
  /\ worker' = [worker EXCEPT ![w].pc = "raised", ![w].writes = NoUpdates]
  /\ UNCHANGED <<job, ask, lapsed, rearmed>>

FailReads(w) ==
  /\ worker[w].pc = "raised"
  /\ LET r == job[worker[w].job] IN WillWrite(w, "failing", NetChange(FailedRow(r), r))
  /\ UNCHANGED <<job, ask, faults, lapsed, rearmed>>

\* fail_job can put a row back to PENDING that another worker completed meanwhile; when the
\* key has a newer active row the index refuses and the exception ends this iteration.
FailCommits(w) ==
  /\ worker[w].pc = "failing"
  /\ LET j == worker[w].job
         u == worker[w].writes[j] IN
     job' = IF Refused(u, j) THEN job ELSE [job EXCEPT ![j] = Apply(u, @)]
  /\ Release(w)
  /\ UNCHANGED <<ask, faults, lapsed, rearmed>>

\* The transaction of fail_job fails: run() logs it and polls again.
FailRaises(w) ==
  /\ worker[w].pc \in {"raised", "failing"}
  /\ Fault
  /\ Release(w)
  /\ UNCHANGED <<job, ask, lapsed, rearmed>>

\* recover_orphaned_queued_documents first reads the documents in status QUEUED ...
SweepScan(w, S) ==
  /\ worker[w].pc = "sweep"
  /\ worker' = [worker EXCEPT ![w].pc = "scanned", ![w].scan = S]
  /\ UNCHANGED <<job, ask, faults, lapsed, rearmed>>

\* ... then, for each, ANY one row of its key, of which it changes only a stale one ...
SweepPicks(w) ==
  {pick \in [worker[w].scan -> Job \cup {NoJob}] :
     \A k \in worker[w].scan : pick[k] \in IF RowsOf(k) = {} THEN {NoJob} ELSE RowsOf(k)}

\* Mutation: a COMPLETED row is run again, too.
SweptUpdateReopening(r) ==
  IF StaleRow(r) \/ r.status = "COMPLETED" THEN NetChange(SweptRow(r), r) ELSE NoUpdate

SweptUpdate(r) == IF StaleRow(r) THEN NetChange(SweptRow(r), r) ELSE NoUpdate

SweepReads(w, pick) ==
  /\ worker[w].pc = "scanned"
  /\ worker' = [worker EXCEPT
       ![w].pc = "sweeping",
       ![w].scan = {k \in @ : pick[k] = NoJob},
       ![w].writes = [j \in Job |-> IF \E k \in worker[w].scan : pick[k] = j
                                   THEN SweptUpdate(job[j]) ELSE NoUpdate]]
  /\ UNCHANGED <<job, ask, faults, lapsed, rearmed>>

\* ... and commits, with a new row for each key that had none and has none active.  The first
\* row the index refuses undoes them all.
SweepRefused(w) == \E j \in Job : Refused(worker[w].writes[j], j)
Insertions(w) ==
  {new \in [{k \in worker[w].scan : ActiveRows(k) = {}} -> Job] :
     \A k \in DOMAIN new : new[k] \in FreeRows(k)}

SweepCommits(w, new) ==
  /\ worker[w].pc = "sweeping"
  /\ job' = IF SweepRefused(w) THEN job
            ELSE [j \in Job |-> IF \E k \in DOMAIN new : new[k] = j THEN Armed
                                ELSE Apply(worker[w].writes[j], job[j])]
  /\ Release(w)
  /\ UNCHANGED <<ask, faults, lapsed, rearmed>>

SweepRaises(w) ==
  /\ worker[w].pc \in {"sweep", "scanned", "sweeping"}
  /\ Fault
  /\ Release(w)
  /\ UNCHANGED <<job, ask, lapsed, rearmed>>

\* The process dies, or its task is cancelled: what it did not commit is rolled back.
Crash(w) ==
  /\ worker[w].pc # "down"
  /\ Fault
  /\ Rest(w, "down")
  /\ UNCHANGED <<job, ask, lapsed, rearmed>>

\* run() begins with a recovery scan.
Start(w) ==
  /\ worker[w].pc = "down"
  /\ Goto(w, "sweep")
  /\ UNCHANGED <<job, ask, faults, lapsed, rearmed>>

\* Time passes.
LeaseExpires(j) ==
  /\ job[j].lease = "live"
  /\ job' = [job EXCEPT ![j].lease = "expired"]
  /\ lapsed' = lapsed \cup {j}
  /\ UNCHANGED <<worker, ask, faults, rearmed>>

BecomesAvailable(j) ==
  /\ job[j].status \in Active
  /\ ~job[j].available
  /\ job' = [job EXCEPT ![j].available = TRUE]
  /\ UNCHANGED <<worker, ask, faults, lapsed, rearmed>>

-----------------------------------------------------------------------------
QueueInit ==
  /\ job = [j \in Job |-> Absent]
  /\ worker = [w \in Worker |-> Resting("down")]
  /\ ask = [c \in Client |-> NotAsking]
  /\ faults = 0
  /\ lapsed = {}
  /\ rearmed = {}

WorkerStep(w) ==
  \/ \E j \in Job : Acquire(w, j)
  \/ PollEmpty(w)
  \/ HandlerCommits(w)
  \/ HandlerRaises(w)
  \/ CompleteReads(w) \/ CompleteCommits(w)
  \/ FailReads(w) \/ FailCommits(w)
  \/ \E S \in SUBSET SweptKey : SweepScan(w, S)
  \/ \E pick \in SweepPicks(w) : SweepReads(w, pick)
  \/ \E new \in Insertions(w) : SweepCommits(w, new)
  \/ Start(w)

FaultStep(w) ==
  \/ CompleteRaises(w)
  \/ FailRaises(w)
  \/ SweepRaises(w)
  \/ Crash(w)

TimeStep == \E j \in Job : LeaseExpires(j) \/ BecomesAvailable(j)

\* A request enqueues a job, or fails.
Request(c) ==
  \/ EnqueueReads(c) /\ UNCHANGED <<job, rearmed>>
  \/ EnqueueCommits(c)
  \/ EnqueueFails(c)

QueueNext ==
  \/ \E c \in Client : Request(c) /\ UNCHANGED <<worker, faults, lapsed>>
  \/ \E w \in Worker : WorkerStep(w) \/ FaultStep(w)
  \/ TimeStep

QueueSafety == QueueInit /\ [][QueueNext]_queueVars

\* Every worker process is scheduled, and restarted when it has died; clocks advance.
QueueFairness ==
  /\ \A w \in Worker : WF_queueVars(WorkerStep(w))
  /\ \A j \in Job : WF_queueVars(LeaseExpires(j)) /\ WF_queueVars(BecomesAvailable(j))

QueueSpec == QueueSafety /\ QueueFairness
-----------------------------------------------------------------------------
(* Properties.                                                             *)

\* However enqueue, the workers, stale workers and recovery interleave, a key never has two
\* rows in PENDING or RUNNING: the same document is never queued twice at a time.
OneActivePerKey == \A i, j \in Job :
  KeyOf[i] = KeyOf[j] /\ job[i].status \in Active /\ job[j].status \in Active => i = j

\* A row is given up only after max_attempts claims, also when fail_job is called for it by
\* a worker whose claim was an earlier one, or when recovery finds it stale.  A rearmed row is
\* another matter: a worker or a recovery that found it exhausted before gives it up again.
FailedOnlyWhenExhausted == \A j \in Job \ rearmed :
  job[j].status = "FAILED" => job[j].attempts = MaxAttempts

\* Until the first crash or failed transaction, a RUNNING row under an unexpired lease is
\* being executed by the worker that locked it: what complete_job, fail_job, recovery and
\* enqueue write late, over the claim of another worker, leaves no row leased to nobody.
LiveLeaseIsWorked ==
  faults = 0 => \A j \in Job : job[j].status = "RUNNING" /\ job[j].lease = "live" =>
    \E w \in Worker : worker[w].job = j /\ worker[w].pc \in Executing /\ job[j].locked_by = w

\* A job whose workers kept their leases is COMPLETED for good: only of a row that has lost a
\* lease, or that a request has rearmed, can anybody hold an older reading, or be executing
\* it still, and put it back.  No crash, failed transaction or recovery scan alone does.
CompletedForGood ==
  [][\A j \in Job : job[j].status = "COMPLETED" /\ job'[j].status # "COMPLETED" =>
       j \in lapsed \cup rearmed]_queueVars

\* The attempts of a row start again from zero only when a request that has found it FAILED
\* commits: no lost lease, no recovery scan and no restart gives a failing job attempts back.
AttemptsRestartOnlyByRequest ==
  [][\A j \in Job : job'[j].attempts < job[j].attempts =>
       /\ \E c \in Client : ask[c].pc = "rearms" /\ ask[c].job = j /\ ask'[c].pc = "idle"
       /\ job'[j].attempts = 0
       /\ UNCHANGED worker]_queueVars

\* "Lease timeout recovery": a RUNNING row whose lease has expired is claimed again or
\* settled.
ExpiredLeaseIsRecovered == \A j \in Job :
  job[j].status = "RUNNING" /\ job[j].lease = "expired"
    ~> ~(job[j].status = "RUNNING" /\ job[j].lease = "expired")
=============================================================================
