--------------------------- MODULE JobQueueProofs ---------------------------
(***************************************************************************)
(* What JobQueue guarantees for every set of rows, keys, workers and       *)
(* requests, every max_attempts and any number of faults.  All of it rests *)
(* on what an UPDATE may hold between the read that made it and its commit *)
(* (WritesInv): it never restarts the attempts, never makes a row RUNNING, *)
(* and of a transaction over many rows it is alone in its key.             *)
(***************************************************************************)
EXTENDS JobQueue, TLAPS

\* What the service writes into a row is a row.
LEMMA RowTypes ==
  ASSUME NEW r \in Row
  PROVE  /\ Absent \in Row
         /\ Armed \in Row
         /\ CompletedRow(r) \in Row
         /\ FailedRow(r) \in Row
         /\ SweptRow(r) \in Row
         /\ \A w \in Worker : r.attempts < MaxAttempts => ClaimedBy(w, r) \in Row
<1> USE QueueAssumption DEF Row, Status
<1>1. Absent \in Row /\ Armed \in Row
  BY DEF Absent, Armed
<1>2. CompletedRow(r) \in Row
  BY DEF CompletedRow
<1>3. FailedRow(r) \in Row
  BY DEF FailedRow
<1>4. SweptRow(r) \in Row
  BY <1>1 DEF SweptRow
<1>5. \A w \in Worker : r.attempts < MaxAttempts => ClaimedBy(w, r) \in Row
  BY DEF ClaimedBy
<1> QED BY <1>1, <1>2, <1>3, <1>4, <1>5

\* What a transaction reads and means to write makes an UPDATE, and an UPDATE makes a row.
LEMMA UpdateTypes ==
  ASSUME NEW r \in Row
  PROVE  /\ NoUpdate \in Update
         /\ NoUpdates \in [Job -> Update]
         /\ \A new \in Row : NetChange(new, r) \in Update
         /\ \A u \in Update : Apply(u, r) \in Row
         /\ Apply(NoUpdate, r) = r
<1>1. NoUpdate \in Update
  BY DEF NoUpdate, Update, Status
<1>2. NoUpdates \in [Job -> Update]
  BY <1>1 DEF NoUpdates
<1>3. ASSUME NEW new \in Row PROVE NetChange(new, r) \in Update
  <2>1. new.available \in BOOLEAN /\ new.status \in Status
    BY DEF Row
  <2>2. (CASE new.status # "PENDING" -> "KEPT"
           [] new.status = "PENDING" /\ new.available -> "NOW"
           [] new.status = "PENDING" /\ ~new.available -> "LATER") \in {"KEPT", "NOW", "LATER"}
    BY <2>1
  <2>3. (IF new.status = r.status THEN "KEPT" ELSE new.status) \in Status \cup {"KEPT"}
    BY <2>1
  <2> QED BY <2>2, <2>3 DEF NetChange, Update
<1>4. ASSUME NEW u \in Update PROVE Apply(u, r) \in Row
  <2>1. (IF u.status = "KEPT" THEN r.status ELSE u.status) \in Status
    BY DEF Row, Update
  <2>2. (IF u.restart THEN 0 ELSE r.attempts) \in 0..MaxAttempts
    BY QueueAssumption DEF Row
  <2>3. (IF u.unlock THEN NoWorker ELSE r.locked_by) \in Worker \cup {NoWorker}
    BY DEF Row
  <2>4. (IF u.unlock THEN "none" ELSE r.lease) \in {"none", "live", "expired"}
    BY DEF Row
  <2>5. (u.available = "NOW" \/ (u.available = "KEPT" /\ r.available)) \in BOOLEAN
    OBVIOUS
  <2> QED BY <2>1, <2>2, <2>3, <2>4, <2>5 DEF Apply, Row
<1>5. Apply(NoUpdate, r) = r
  BY DEF Apply, NoUpdate, Row
<1> QED BY <1>1, <1>2, <1>3, <1>4, <1>5

\* What the worker is about to write into row j.
WriteOf(w, j) == worker[w].writes[j]

\* An executing worker executes a row of the table, and a request rearms one.
HasJob ==
  /\ \A w \in Worker : worker[w].pc \in Executing => worker[w].job \in Job
  /\ \A c \in Client : ask[c].pc = "rearms" => ask[c].job \in Job

TypeInv == TypeOK /\ HasJob

LEMMA FaultCounted ==
  ASSUME TypeOK, Fault
  PROVE  faults' \in 0..MaxFaults
  BY QueueAssumption DEF TypeOK, Fault

-----------------------------------------------------------------------------
(* What a step can do to a row, a worker and a request, whoever takes it.  *)

Writes(w, j) ==
  /\ \/ worker[w].pc = "completing" /\ worker[w].job = j
     \/ worker[w].pc = "failing" /\ worker[w].job = j /\ ~Refused(WriteOf(w, j), j)
     \/ worker[w].pc = "sweeping" /\ ~Refused(WriteOf(w, j), j)
  /\ Release(w)
  /\ job'[j] = Apply(WriteOf(w, j), job[j])
  /\ UNCHANGED <<ask, lapsed, rearmed>>

Rearmed(c, j) ==
  /\ ask[c].pc = "rearms"
  /\ ask[c].job = j
  /\ ~Refused(ask[c].write, j)
  /\ AskEnds(c)
  /\ job'[j] = Apply(ask[c].write, job[j])
  /\ rearmed' = rearmed \cup {j}
  /\ UNCHANGED <<worker, lapsed>>

RowChange(j) ==
  \/ job'[j] = job[j]
  \/ job[j].status = "ABSENT" /\ job'[j] = Armed
  \/ Claimable(j) /\ \E w \in Worker : job'[j] = ClaimedBy(w, job[j]) /\ Acquire(w, j)
  \/ \E w \in Worker : Writes(w, j)
  \/ \E c \in Client : Rearmed(c, j)
  \/ /\ job[j].lease = "live"
     /\ job'[j] = [job[j] EXCEPT !.lease = "expired"]
     /\ lapsed' = lapsed \cup {j}
     /\ UNCHANGED <<worker, ask, rearmed>>
  \/ /\ job[j].status \in Active
     /\ job'[j] = [job[j] EXCEPT !.available = TRUE]
     /\ UNCHANGED <<worker, ask, lapsed, rearmed>>

LEMMA RowChanges ==
  ASSUME TypeInv, [QueueNext]_queueVars, NEW j \in Job
  PROVE  RowChange(j)
<1> USE DEF TypeInv, TypeOK
<1>1. ASSUME NEW c \in Client, Request(c), UNCHANGED <<worker, lapsed>> PROVE RowChange(j)
  <2>1. CASE EnqueueReads(c) /\ UNCHANGED <<job, rearmed>>
    BY <2>1 DEF RowChange
  <2>2. CASE Returns(c) \/ EnqueueFails(c)
    BY <2>2 DEF Returns, EnqueueFails, RowChange
  <2>3. CASE Rearms(c) /\ AskEnds(c)
    <3>1. CASE ask[c].job = j
      BY <1>1, <2>3, <3>1 DEF Rearms, Rearmed, RowChange
    <3>2. CASE ask[c].job # j
      BY <2>3, <3>2 DEF Rearms, RowChange
    <3> QED BY <3>1, <3>2
  <2>4. CASE Inserts(c)
    BY <2>4 DEF Inserts, FreeRows, RowChange
  <2> QED BY <1>1, <2>1, <2>2, <2>3, <2>4 DEF Request, EnqueueCommits
<1>2. ASSUME NEW w \in Worker, NEW i \in Job, Acquire(w, i) PROVE RowChange(j)
  <2>1. CASE i = j
    BY <1>2, <2>1 DEF Acquire, RowChange
  <2>2. CASE i # j
    BY <1>2, <2>2 DEF Acquire, RowChange
  <2> QED BY <2>1, <2>2
<1>3. ASSUME NEW w \in Worker, CompleteCommits(w) PROVE RowChange(j)
  <2>1. CASE worker[w].job = j
    BY <1>3, <2>1 DEF CompleteCommits, Writes, WriteOf, RowChange
  <2>2. CASE worker[w].job # j
    BY <1>3, <2>2 DEF CompleteCommits, RowChange
  <2> QED BY <2>1, <2>2
<1>4. ASSUME NEW w \in Worker, FailCommits(w) PROVE RowChange(j)
  <2>1. CASE worker[w].job = j /\ ~Refused(WriteOf(w, j), j)
    BY <1>4, <2>1 DEF FailCommits, Writes, WriteOf, RowChange
  <2>2. CASE worker[w].job # j \/ Refused(WriteOf(w, j), j)
    BY <1>4, <2>2 DEF FailCommits, WriteOf, RowChange
  <2> QED BY <2>1, <2>2
<1>5. ASSUME NEW w \in Worker, NEW new \in Insertions(w), SweepCommits(w, new) PROVE RowChange(j)
  <2>1. CASE SweepRefused(w)
    BY <1>5, <2>1 DEF SweepCommits, RowChange
  <2>2. CASE ~SweepRefused(w) /\ \E k \in DOMAIN new : new[k] = j
    BY <1>5, <2>2 DEF SweepCommits, Insertions, FreeRows, RowChange
  <2>3. CASE ~SweepRefused(w) /\ ~\E k \in DOMAIN new : new[k] = j
    <3>1. ~Refused(WriteOf(w, j), j)
      BY <2>3 DEF SweepRefused, WriteOf
    <3>2. job'[j] = Apply(WriteOf(w, j), job[j])
      BY <1>5, <2>3 DEF SweepCommits, WriteOf
    <3> QED BY <1>5, <3>1, <3>2 DEF SweepCommits, Writes, RowChange
  <2> QED BY <2>1, <2>2, <2>3
<1>6. ASSUME NEW i \in Job, LeaseExpires(i) PROVE RowChange(j)
  <2>1. CASE i = j
    BY <1>6, <2>1 DEF LeaseExpires, RowChange
  <2>2. CASE i # j
    BY <1>6, <2>2 DEF LeaseExpires, RowChange
  <2> QED BY <2>1, <2>2
<1>7. ASSUME NEW i \in Job, BecomesAvailable(i) PROVE RowChange(j)
  <2>1. CASE i = j
    BY <1>7, <2>1 DEF BecomesAvailable, RowChange
  <2>2. CASE i # j
    BY <1>7, <2>2 DEF BecomesAvailable, RowChange
  <2> QED BY <2>1, <2>2
<1>8. CASE UNCHANGED job
  BY <1>8 DEF RowChange
<1> QED
  BY <1>1, <1>2, <1>3, <1>4, <1>5, <1>6, <1>7, <1>8
  DEF QueueNext, WorkerStep, FaultStep, TimeStep, PollEmpty, HandlerCommits, HandlerRaises,
      Start, CompleteReads, FailReads, SweepScan, SweepReads, CompleteRaises, FailRaises,
      SweepRaises, Crash, queueVars

\* The histories grow.
LEMMA HistoriesGrow ==
  [QueueNext]_queueVars => lapsed \subseteq lapsed' /\ rearmed \subseteq rearmed'
  BY DEF QueueNext, WorkerStep, FaultStep, TimeStep, Request, EnqueueCommits, EnqueueFails,
         Returns, Rearms, Inserts, Acquire, PollEmpty, HandlerCommits, HandlerRaises, Start,
         CompleteReads, CompleteCommits, FailReads, FailCommits, SweepScan, SweepReads,
         SweepCommits, CompleteRaises, FailRaises, SweepRaises, Crash, LeaseExpires,
         BecomesAvailable, queueVars

\* A worker goes on with what it has read, claims a row, reads what it will write, or lets go.
GoesOn(w) ==
  /\ worker[w].pc \notin {"completing", "failing", "sweeping"}
  /\ worker'[w].job = worker[w].job
  /\ worker'[w].writes = worker[w].writes
  /\ \/ worker[w].pc \notin Executing /\ worker'[w].pc \notin Executing \cup {"sweeping"}
     \/ worker[w].pc = "running" /\ worker'[w].pc \in {"handled", "raised"}

Claims(w) ==
  /\ worker[w].pc = "idle"
  /\ worker'[w].pc = "running"
  /\ worker'[w].writes = worker[w].writes
  /\ worker'[w].job \in Job
  /\ Acquire(w, worker'[w].job)

ReadsOwn(w, j) ==
  /\ worker[w].job = j
  /\ worker'[w].job = j
  /\ \/ /\ worker[w].pc = "handled"
        /\ worker'[w].pc = "completing"
        /\ worker'[w].writes = [NoUpdates EXCEPT ![j] = NetChange(CompletedRow(job[j]), job[j])]
     \/ /\ worker[w].pc = "raised"
        /\ worker'[w].pc = "failing"
        /\ worker'[w].writes = [NoUpdates EXCEPT ![j] = NetChange(FailedRow(job[j]), job[j])]
  /\ UNCHANGED <<job, ask, lapsed, rearmed>>

ReadsSwept(w) ==
  /\ worker[w].pc = "scanned"
  /\ worker'[w].pc = "sweeping"
  /\ \A j \in Job : worker'[w].writes[j] \in {NoUpdate, SweptUpdate(job[j])}
  /\ \A i, j \in Job : KeyOf[i] = KeyOf[j] /\ i # j =>
       worker'[w].writes[i] = NoUpdate \/ worker'[w].writes[j] = NoUpdate
  /\ \A j \in Job : KeyOf[j] \in worker'[w].scan => worker'[w].writes[j] = NoUpdate
  /\ worker'[w].writes \in [Job -> Update]
  /\ UNCHANGED <<job, ask, lapsed, rearmed>>

LetsGo(w) ==
  /\ worker'[w].writes = NoUpdates
  /\ \/ faults' = faults + 1
     \/ CompleteCommits(w)
     \/ FailCommits(w)
     \/ worker[w].pc = "sweeping"
  /\ \/ worker'[w].pc \in {"idle", "down"}
     \/ worker[w].pc \in Executing /\ worker'[w].pc = "raised" /\ worker'[w].job = worker[w].job

WorkerChange(w) ==
  \/ worker'[w] = worker[w]
  \/ GoesOn(w)
  \/ Claims(w)
  \/ \E j \in Job : ReadsOwn(w, j)
  \/ ReadsSwept(w)
  \/ LetsGo(w)

LEMMA SweepReadsSwept ==
  ASSUME TypeInv, NEW w \in Worker, NEW pick \in SweepPicks(w), SweepReads(w, pick)
  PROVE  ReadsSwept(w)
<1> USE DEF TypeInv, TypeOK
<1>1. worker[w] \in Process /\ worker[w].scan \subseteq SweptKey
  BY DEF Process
<1>2. \A k \in worker[w].scan : pick[k] \in Job \cup {NoJob} /\ (pick[k] \in Job => KeyOf[pick[k]] = k)
  <2> SUFFICES ASSUME NEW k \in worker[w].scan
               PROVE  pick[k] \in Job \cup {NoJob} /\ (pick[k] \in Job => KeyOf[pick[k]] = k)
    OBVIOUS
  <2>1. pick[k] \in Job \cup {NoJob} /\ pick[k] \in IF RowsOf(k) = {} THEN {NoJob} ELSE RowsOf(k)
    BY DEF SweepPicks
  <2>2. CASE RowsOf(k) = {}
    BY <2>1, <2>2, QueueAssumption
  <2>3. CASE RowsOf(k) # {}
    BY <2>1, <2>3 DEF RowsOf
  <2> QED BY <2>2, <2>3
<1> DEFINE Picked(j) == \E k \in worker[w].scan : pick[k] = j
<1>3. /\ worker[w].pc = "scanned"
      /\ worker'[w].pc = "sweeping"
      /\ worker'[w].scan = {k \in worker[w].scan : pick[k] = NoJob}
      /\ worker'[w].writes = [j \in Job |-> IF Picked(j) THEN SweptUpdate(job[j]) ELSE NoUpdate]
  BY <1>1 DEF SweepReads, Process
<1>4. \A j \in Job : worker'[w].writes[j] = IF Picked(j) THEN SweptUpdate(job[j]) ELSE NoUpdate
  BY <1>3
<1>5. \A j \in Job : SweptUpdate(job[j]) \in Update
  BY RowTypes, UpdateTypes DEF SweptUpdate
<1>6. worker'[w].writes \in [Job -> Update]
  <2>1. NoUpdate \in Update
    BY DEF NoUpdate, Update, Status
  <2> QED BY ONLY <1>3, <1>5, <2>1
<1>7. \A j \in Job : Picked(j) => KeyOf[j] \in worker[w].scan /\ pick[KeyOf[j]] = j
  BY <1>2
<1>8. \A i, j \in Job : KeyOf[i] = KeyOf[j] /\ i # j => ~Picked(i) \/ ~Picked(j)
  BY <1>7
<1>9. \A j \in Job : KeyOf[j] \in worker'[w].scan => ~Picked(j)
  <2>1. \A j \in Job : j # NoJob
    BY QueueAssumption
  <2> QED BY <1>3, <1>7, <2>1
<1> HIDE DEF Picked
<1>10. UNCHANGED <<job, ask, lapsed, rearmed>>
  BY DEF SweepReads
<1> QED BY <1>3, <1>4, <1>6, <1>8, <1>9, <1>10 DEF ReadsSwept

LEMMA OwnReads ==
  ASSUME TypeInv, NEW w \in Worker, CompleteReads(w) \/ FailReads(w)
  PROVE  ReadsOwn(w, worker[w].job)
<1> USE DEF TypeInv, TypeOK
<1>1. ASSUME NEW pc, NEW u, WillWrite(w, pc, u)
      PROVE  /\ worker'[w].pc = pc
             /\ worker'[w].job = worker[w].job
             /\ worker'[w].writes = [NoUpdates EXCEPT ![worker[w].job] = u]
  <2>1. worker[w] \in Process
    OBVIOUS
  <2> QED BY <1>1, <2>1 DEF WillWrite, Process
<1>2. CASE CompleteReads(w)
  <2>1. WillWrite(w, "completing", NetChange(CompletedRow(job[worker[w].job]), job[worker[w].job]))
    BY <1>2 DEF CompleteReads
  <2> QED BY <1>1, <1>2, <2>1 DEF CompleteReads, ReadsOwn
<1>3. CASE FailReads(w)
  <2>1. WillWrite(w, "failing", NetChange(FailedRow(job[worker[w].job]), job[worker[w].job]))
    BY <1>3 DEF FailReads
  <2> QED BY <1>1, <1>3, <2>1 DEF FailReads, ReadsOwn
<1> QED BY <1>2, <1>3

LEMMA WorkerChanges ==
  ASSUME TypeInv, [QueueNext]_queueVars, NEW w \in Worker
  PROVE  WorkerChange(w)
<1> USE DEF TypeInv, TypeOK
<1>0. worker[w] \in Process
  OBVIOUS
<1>1. CASE UNCHANGED worker
  BY <1>1 DEF WorkerChange
<1>2. ASSUME NEW v \in Worker, worker' = [worker EXCEPT ![v] = worker'[v]], v # w
      PROVE  WorkerChange(w)
  BY <1>2 DEF WorkerChange
<1>3. ASSUME NEW v \in Worker, NEW j \in Job, Acquire(v, j) PROVE WorkerChange(w)
  <2>1. CASE v = w
    BY <1>0, <1>3, <2>1 DEF Acquire, Process, Claims, WorkerChange
  <2> QED BY <1>3, <2>1 DEF Acquire, WorkerChange
<1>4. ASSUME NEW v \in Worker, PollEmpty(v) \/ Start(v) PROVE WorkerChange(w)
  <2>1. CASE v = w
    BY <1>0, <1>4, <2>1 DEF PollEmpty, Start, Goto, Process, GoesOn, Executing, WorkerChange
  <2> QED BY <1>4, <2>1 DEF PollEmpty, Start, Goto, WorkerChange
<1>5. ASSUME NEW v \in Worker, HandlerCommits(v) \/ HandlerRaises(v) PROVE WorkerChange(w)
  <2>1. CASE v = w
    BY <1>0, <1>5, <2>1 DEF HandlerCommits, HandlerRaises, Goto, Process, GoesOn, Executing, WorkerChange
  <2> QED BY <1>5, <2>1 DEF HandlerCommits, HandlerRaises, Goto, WorkerChange
<1>6. ASSUME NEW v \in Worker, CompleteReads(v) \/ FailReads(v) PROVE WorkerChange(w)
  <2>1. CASE v = w
    <3>1. worker[w].job \in Job
      BY <1>6, <2>1 DEF HasJob, CompleteReads, FailReads, Executing
    <3> QED BY <1>6, <2>1, <3>1, OwnReads DEF WorkerChange
  <2> QED BY <1>6, <2>1 DEF CompleteReads, FailReads, WillWrite, WorkerChange
<1>7. ASSUME NEW v \in Worker, Release(v) \/ Rest(v, "down"),
             \/ faults' = faults + 1
             \/ CompleteCommits(v)
             \/ FailCommits(v)
             \/ worker[v].pc = "sweeping"
      PROVE  WorkerChange(w)
  <2>1. CASE v = w
    <3>1. worker'[w].writes = NoUpdates /\ worker'[w].pc \in {"idle", "down"}
      BY <1>7, <2>1 DEF Release, Rest, Resting
    <3> QED BY <1>7, <2>1, <3>1 DEF LetsGo, WorkerChange
  <2> QED BY <1>7, <2>1 DEF Release, Rest, WorkerChange
<1>8. ASSUME NEW v \in Worker, NEW S \in SUBSET SweptKey, SweepScan(v, S) PROVE WorkerChange(w)
  <2>1. CASE v = w
    BY <1>0, <1>8, <2>1 DEF SweepScan, Process, GoesOn, Executing, WorkerChange
  <2> QED BY <1>8, <2>1 DEF SweepScan, WorkerChange
<1>9. ASSUME NEW v \in Worker, NEW pick \in SweepPicks(v), SweepReads(v, pick) PROVE WorkerChange(w)
  <2>1. CASE v = w
    BY <1>9, <2>1, SweepReadsSwept DEF WorkerChange
  <2> QED BY <1>9, <2>1 DEF SweepReads, WorkerChange
<1>10. ASSUME NEW v \in Worker, CompleteRaises(v) PROVE WorkerChange(w)
  <2>1. CASE v = w
    BY <1>0, <1>10, <2>1 DEF CompleteRaises, Fault, Process, LetsGo, Executing, WorkerChange
  <2> QED BY <1>10, <2>1 DEF CompleteRaises, WorkerChange
<1>11. ASSUME NEW v \in Worker,
              \/ CompleteCommits(v) \/ FailCommits(v) \/ FailRaises(v) \/ SweepRaises(v) \/ Crash(v)
              \/ \E new \in Insertions(v) : SweepCommits(v, new)
       PROVE  WorkerChange(w)
  <2>1. Release(v) \/ Rest(v, "down")
    BY <1>11 DEF CompleteCommits, FailCommits, SweepCommits, FailRaises, SweepRaises, Crash
  <2>2. \/ faults' = faults + 1
        \/ CompleteCommits(v)
        \/ FailCommits(v)
        \/ worker[v].pc = "sweeping"
    BY <1>11 DEF SweepCommits, FailRaises, SweepRaises, Crash, Fault
  <2> QED BY <1>7, <2>1, <2>2
<1> QED
  BY <1>1, <1>3, <1>4, <1>5, <1>6, <1>8, <1>9, <1>10, <1>11
  DEF QueueNext, WorkerStep, FaultStep, TimeStep, LeaseExpires, BecomesAvailable, queueVars

\* A request reads a row, or ends.
LEMMA AskSteps ==
  ASSUME TypeInv, [QueueNext]_queueVars, NEW c \in Client
  PROVE  \/ ask'[c] = ask[c]
         \/ ask'[c] = NotAsking
         \/ EnqueueReads(c) /\ UNCHANGED <<job, worker, lapsed, rearmed>>
<1> DEFINE Result == \/ ask'[c] = ask[c]
                     \/ ask'[c] = NotAsking
                     \/ EnqueueReads(c) /\ UNCHANGED <<job, worker, lapsed, rearmed>>
<1> USE DEF TypeInv, TypeOK
<1>1. CASE UNCHANGED ask
  BY <1>1
<1>2. ASSUME NEW d \in Client, AskEnds(d) PROVE Result
  <2>1. CASE c = d
    BY <1>2, <2>1 DEF AskEnds
  <2> QED BY <1>2, <2>1 DEF AskEnds
<1>3. ASSUME NEW d \in Client, EnqueueReads(d), UNCHANGED <<job, rearmed, worker, lapsed>>
      PROVE  Result
  <2>1. CASE c = d
    BY <1>3, <2>1
  <2> QED BY <1>3, <2>1 DEF EnqueueReads
<1> QED
  BY <1>1, <1>2, <1>3
  DEF QueueNext, WorkerStep, FaultStep, TimeStep, Request, EnqueueCommits, EnqueueFails, Acquire,
      PollEmpty, HandlerCommits, HandlerRaises, Start, CompleteReads, CompleteCommits, FailReads,
      FailCommits, SweepScan, SweepReads, SweepCommits, CompleteRaises, FailRaises, SweepRaises,
      Crash, LeaseExpires, BecomesAvailable, queueVars

\* What it is about to write, it has read, or keeps.
AskChange(c) ==
  \/ ask'[c] = ask[c]
  \/ ask'[c].pc # "rearms"
  \/ \E j \in Job : /\ job[j].status = "FAILED"
                    /\ ask'[c] = [pc |-> "rearms", job |-> j, write |-> NetChange(Armed, job[j])]
                    /\ UNCHANGED <<job, worker, lapsed, rearmed>>

LEMMA AskChanges ==
  ASSUME TypeInv, [QueueNext]_queueVars, NEW c \in Client
  PROVE  AskChange(c)
<1> USE DEF TypeInv, TypeOK
<1>1. CASE ask'[c] = ask[c] \/ ask'[c] = NotAsking
  BY <1>1 DEF NotAsking, AskChange
<1>2. CASE EnqueueReads(c) /\ UNCHANGED <<job, worker, lapsed, rearmed>>
  <2>1. CASE Asked(c) = {}
    BY <1>2, <2>1 DEF EnqueueReads, AskChange
  <2>2. ASSUME NEW j \in Asked(c), ask' = [ask EXCEPT ![c] = Answer(j)]
        PROVE  AskChange(c)
    <3>1. j \in Job /\ job[j] \in Row /\ job[j].status # "ABSENT" /\ ask'[c] = Answer(j)
      BY <2>2 DEF Asked, RowsOf
    <3>2. CASE job[j].status = "FAILED"
      BY <1>2, <3>1, <3>2 DEF Answer, Active, AskChange
    <3>3. CASE job[j].status \in Active
      BY <3>1, <3>3 DEF Answer, Active, AskChange
    <3>4. CASE job[j].status = "COMPLETED"
      BY <3>1, <3>4 DEF Answer, Active, AskChange
    <3> QED BY <3>1, <3>2, <3>3, <3>4 DEF Row, Status, Active
  <2> QED BY <1>2, <2>1, <2>2 DEF EnqueueReads
<1> QED BY <1>1, <1>2, AskSteps

-----------------------------------------------------------------------------
(* Type correctness.                                                       *)

LEMMA TypeInvInit == QueueInit => TypeInv
<1> SUFFICES ASSUME QueueInit PROVE TypeInv
  OBVIOUS
<1>1. NoUpdate \in Update /\ NoUpdates \in [Job -> Update]
  BY DEF NoUpdate, Update, Status, NoUpdates
<1>2. job \in [Job -> Row]
  BY QueueAssumption DEF QueueInit, Absent, Row, Status
<1>3. worker \in [Worker -> Process] /\ \A w \in Worker : worker[w].pc = "down"
  BY <1>1, QueueAssumption DEF QueueInit, Resting, Process
<1>4. ask \in [Client -> Asking] /\ \A c \in Client : ask[c].pc = "idle"
  BY <1>1, QueueAssumption DEF QueueInit, NotAsking, Asking
<1>5. faults \in 0..MaxFaults /\ lapsed \subseteq Job /\ rearmed \subseteq Job
  BY QueueAssumption DEF QueueInit
<1>6. HasJob
  BY <1>3, <1>4 DEF HasJob, Executing
<1> QED BY <1>2, <1>3, <1>4, <1>5, <1>6 DEF TypeInv, TypeOK

LEMMA RowsTyped ==
  ASSUME TypeInv, [QueueNext]_queueVars
  PROVE  job' \in [Job -> Row]
<1> USE DEF TypeInv, TypeOK
<1>1. job' = [j \in Job |-> job'[j]]
  BY DEF QueueNext, WorkerStep, FaultStep, TimeStep, Request, EnqueueReads, EnqueueCommits,
         EnqueueFails, Returns, Rearms, Inserts, Acquire, PollEmpty, HandlerCommits, HandlerRaises,
         Start, CompleteReads, CompleteCommits, FailReads, FailCommits, SweepScan, SweepReads,
         SweepCommits, CompleteRaises, FailRaises, SweepRaises, Crash, LeaseExpires,
         BecomesAvailable, queueVars
<1>2. ASSUME NEW j \in Job PROVE job'[j] \in Row
  <2>1. job[j] \in Row /\ RowChange(j)
    BY RowChanges
  <2>2. CASE job'[j] = job[j] \/ job'[j] = Armed
    BY <2>1, <2>2, RowTypes
  <2>3. ASSUME Claimable(j), NEW w \in Worker, job'[j] = ClaimedBy(w, job[j]) PROVE job'[j] \in Row
    BY <2>1, <2>3, RowTypes DEF Claimable
  <2>4. ASSUME NEW w \in Worker, Writes(w, j) PROVE job'[j] \in Row
    <3>1. WriteOf(w, j) \in Update
      BY DEF WriteOf, Process
    <3> QED BY <2>1, <2>4, <3>1, UpdateTypes DEF Writes
  <2>5. ASSUME NEW c \in Client, Rearmed(c, j) PROVE job'[j] \in Row
    <3>1. ask[c].write \in Update
      BY DEF Asking
    <3> QED BY <2>1, <2>5, <3>1, UpdateTypes DEF Rearmed
  <2>6. CASE \/ job'[j] = [job[j] EXCEPT !.lease = "expired"]
             \/ job'[j] = [job[j] EXCEPT !.available = TRUE]
    BY <2>1, <2>6 DEF Row
  <2> QED BY <2>1, <2>2, <2>3, <2>4, <2>5, <2>6 DEF RowChange
<1> QED BY <1>1, <1>2

\* What a worker does keeps its state of its type.
LEMMA ProcessTyped ==
  ASSUME TypeInv, NEW w \in Worker
  PROVE  /\ \A pc \in {"idle", "down"} : Rest(w, pc) => worker' \in [Worker -> Process]
         /\ \A pc \in {"sweep", "handled", "raised"} : Goto(w, pc) => worker' \in [Worker -> Process]
         /\ \A pc \in {"completing", "failing"} : \A u \in Update :
              WillWrite(w, pc, u) => worker' \in [Worker -> Process]
<1> USE DEF TypeInv, TypeOK
<1>1. NoUpdate \in Update /\ NoUpdates \in [Job -> Update]
  BY DEF NoUpdate, Update, Status, NoUpdates
<1>2. ASSUME NEW pc \in {"idle", "down"}, Rest(w, pc) PROVE worker' \in [Worker -> Process]
  <2>1. Resting(pc) \in Process
    BY <1>1 DEF Resting, Process
  <2> QED BY <1>2, <2>1 DEF Rest
<1>3. ASSUME NEW pc \in {"sweep", "handled", "raised"}, Goto(w, pc)
      PROVE  worker' \in [Worker -> Process]
  <2>1. [worker[w] EXCEPT !.pc = pc] \in Process
    BY DEF Process, Executing
  <2> QED BY <1>3, <2>1 DEF Goto
<1>4. ASSUME NEW pc \in {"completing", "failing"}, NEW u \in Update, WillWrite(w, pc, u)
      PROVE  worker' \in [Worker -> Process]
  <2>1. [NoUpdates EXCEPT ![worker[w].job] = u] \in [Job -> Update]
    BY <1>1
  <2>2. [worker[w] EXCEPT !.pc = pc, !.writes = [NoUpdates EXCEPT ![worker[w].job] = u]] \in Process
    BY <2>1 DEF Process, Executing
  <2> QED BY <1>4, <2>2 DEF WillWrite
<1> QED BY <1>2, <1>3, <1>4

LEMMA WorkersTyped ==
  ASSUME TypeInv, [QueueNext]_queueVars
  PROVE  worker' \in [Worker -> Process]
<1> USE DEF TypeInv, TypeOK
<1>1. CASE UNCHANGED worker
  BY <1>1
<1>2. ASSUME NEW w \in Worker, NEW j \in Job, Acquire(w, j) PROVE worker' \in [Worker -> Process]
  <2>1. [worker[w] EXCEPT !.pc = "running", !.job = j] \in Process
    BY DEF Process, Executing
  <2> QED BY <1>2, <2>1 DEF Acquire
<1>3. ASSUME NEW w \in Worker, PollEmpty(w) \/ Start(w) \/ HandlerCommits(w) \/ HandlerRaises(w)
      PROVE  worker' \in [Worker -> Process]
  BY <1>3, ProcessTyped DEF PollEmpty, Start, HandlerCommits, HandlerRaises
<1>4. ASSUME NEW w \in Worker, CompleteReads(w) \/ FailReads(w) PROVE worker' \in [Worker -> Process]
  <2>1. worker[w].job \in Job /\ job[worker[w].job] \in Row
    BY <1>4 DEF HasJob, CompleteReads, FailReads, Executing
  <2>2. /\ NetChange(CompletedRow(job[worker[w].job]), job[worker[w].job]) \in Update
        /\ NetChange(FailedRow(job[worker[w].job]), job[worker[w].job]) \in Update
    BY <2>1, RowTypes, UpdateTypes
  <2> QED BY <1>4, <2>2, ProcessTyped DEF CompleteReads, FailReads
<1>5. ASSUME NEW w \in Worker, Release(w) \/ Rest(w, "down") PROVE worker' \in [Worker -> Process]
  BY <1>5, ProcessTyped DEF Release
<1>6. ASSUME NEW w \in Worker, NEW S \in SUBSET SweptKey, SweepScan(w, S)
      PROVE  worker' \in [Worker -> Process]
  <2>1. [worker[w] EXCEPT !.pc = "scanned", !.scan = S] \in Process
    BY DEF Process
  <2> QED BY <1>6, <2>1 DEF SweepScan
<1>7. ASSUME NEW w \in Worker, NEW pick \in SweepPicks(w), SweepReads(w, pick)
      PROVE  worker' \in [Worker -> Process]
  <2> DEFINE S == {k \in worker[w].scan : pick[k] = NoJob}
             N == [j \in Job |-> IF \E k \in worker[w].scan : pick[k] = j
                                 THEN SweptUpdate(job[j]) ELSE NoUpdate]
             v == [worker[w] EXCEPT !.pc = "sweeping", !.scan = S, !.writes = N]
  <2>1. worker' = [worker EXCEPT ![w] = v]
    BY <1>7 DEF SweepReads
  <2>2. N \in [Job -> Update]
    <3>1. NoUpdate \in Update
      BY DEF NoUpdate, Update, Status
    <3>2. \A j \in Job : SweptUpdate(job[j]) \in Update
      BY <3>1, RowTypes, UpdateTypes DEF SweptUpdate
    <3> QED BY ONLY <3>1, <3>2
  <2>3. S \subseteq SweptKey /\ worker[w] \in Process
    BY DEF Process
  <2> HIDE DEF S, N
  <2>4. v \in Process
    BY <2>2, <2>3 DEF Process
  <2> HIDE DEF v
  <2> QED BY <2>1, <2>4
<1>8. ASSUME NEW w \in Worker, CompleteRaises(w) PROVE worker' \in [Worker -> Process]
  <2>1. NoUpdates \in [Job -> Update]
    BY DEF NoUpdates, NoUpdate, Update, Status
  <2>2. [worker[w] EXCEPT !.pc = "raised", !.writes = NoUpdates] \in Process
    BY <2>1 DEF Process, Executing
  <2> QED BY <1>8, <2>2 DEF CompleteRaises
<1> QED
  BY <1>1, <1>2, <1>3, <1>4, <1>5, <1>6, <1>7, <1>8
  DEF QueueNext, WorkerStep, FaultStep, TimeStep, CompleteCommits, FailCommits, SweepCommits,
      FailRaises, SweepRaises, Crash, LeaseExpires, BecomesAvailable, queueVars

LEMMA AsksTyped ==
  ASSUME TypeInv, [QueueNext]_queueVars
  PROVE  ask' \in [Client -> Asking]
<1> USE DEF TypeInv, TypeOK
<1>1. CASE UNCHANGED ask
  BY <1>1
<1>2. NoUpdate \in Update /\ NotAsking \in Asking
  BY DEF NotAsking, Asking, NoUpdate, Update, Status
<1>3. ASSUME NEW c \in Client, AskEnds(c) PROVE ask' \in [Client -> Asking]
  BY <1>2, <1>3 DEF AskEnds
<1>4. ASSUME NEW c \in Client, NEW a \in Asking, ask' = [ask EXCEPT ![c] = a]
      PROVE  ask' \in [Client -> Asking]
  BY <1>4
<1>5. [pc |-> "inserts", job |-> NoJob, write |-> NoUpdate] \in Asking
  BY <1>2 DEF Asking
<1>6. ASSUME NEW c \in Client, NEW j \in Asked(c) PROVE Answer(j) \in Asking
  <2>1. j \in Job /\ job[j] \in Row /\ job[j].status # "ABSENT"
    BY <1>6 DEF Asked, RowsOf
  <2>2. NetChange(Armed, job[j]) \in Update
    BY <2>1, RowTypes, UpdateTypes
  <2>3. CASE job[j].status = "FAILED"
    BY <2>1, <2>2, <2>3 DEF Answer, Active, Asking
  <2>4. CASE job[j].status \in Active
    BY <1>2, <2>1, <2>4 DEF Answer, Active, Asking
  <2>5. CASE job[j].status = "COMPLETED"
    BY <1>5, <2>1, <2>5 DEF Answer, Active, Asking
  <2> QED BY <2>1, <2>3, <2>4, <2>5 DEF Row, Status, Active
<1>7. ASSUME NEW c \in Client, EnqueueReads(c) PROVE ask' \in [Client -> Asking]
  BY <1>4, <1>5, <1>6, <1>7 DEF EnqueueReads
<1> QED
  BY <1>1, <1>3, <1>7
  DEF QueueNext, WorkerStep, FaultStep, TimeStep, Request, EnqueueCommits, EnqueueFails, Acquire,
      PollEmpty, HandlerCommits, HandlerRaises, Start, CompleteReads, CompleteCommits, FailReads,
      FailCommits, SweepScan, SweepReads, SweepCommits, CompleteRaises, FailRaises, SweepRaises,
      Crash, LeaseExpires, BecomesAvailable, queueVars

LEMMA HasJobStep ==
  ASSUME TypeInv, [QueueNext]_queueVars
  PROVE  HasJob'
<1>1. ASSUME NEW w \in Worker, worker'[w].pc \in Executing PROVE worker'[w].job \in Job
  <2>1. worker[w].pc \in Executing => worker[w].job \in Job
    BY DEF TypeInv, HasJob
  <2>2. CASE worker'[w] = worker[w]
    BY <1>1, <2>1, <2>2
  <2>3. CASE GoesOn(w)
    BY <1>1, <2>1, <2>3 DEF GoesOn, Executing
  <2>4. CASE Claims(w) \/ \E j \in Job : ReadsOwn(w, j)
    BY <2>4 DEF Claims, ReadsOwn
  <2>5. CASE ReadsSwept(w)
    BY <1>1, <2>5 DEF ReadsSwept, Executing
  <2>6. CASE LetsGo(w)
    BY <1>1, <2>1, <2>6 DEF LetsGo, Executing
  <2> QED BY <2>2, <2>3, <2>4, <2>5, <2>6, WorkerChanges DEF WorkerChange
<1>2. ASSUME NEW c \in Client, ask'[c].pc = "rearms" PROVE ask'[c].job \in Job
  <2>1. ask[c].pc = "rearms" => ask[c].job \in Job
    BY DEF TypeInv, HasJob
  <2>2. AskChange(c)
    BY AskChanges
  <2>3. CASE ask'[c] = ask[c]
    BY <1>2, <2>1, <2>3
  <2>4. ASSUME NEW j \in Job, ask'[c] = [pc |-> "rearms", job |-> j, write |-> NetChange(Armed, job[j])]
        PROVE  ask'[c].job \in Job
    BY <2>4
  <2> QED BY <1>2, <2>2, <2>3, <2>4 DEF AskChange
<1> QED BY <1>1, <1>2 DEF HasJob

LEMMA TypeInvStep == TypeInv /\ [QueueNext]_queueVars => TypeInv'
<1> SUFFICES ASSUME TypeInv, [QueueNext]_queueVars PROVE TypeInv'
  OBVIOUS
<1>1. faults' \in 0..MaxFaults
  <2>1. TypeOK
    BY DEF TypeInv
  <2>2. Fault \/ UNCHANGED faults
    BY DEF QueueNext, WorkerStep, FaultStep, TimeStep, Acquire, PollEmpty, HandlerCommits,
           HandlerRaises, Start, CompleteReads, CompleteCommits, FailReads, FailCommits, SweepScan,
           SweepReads, SweepCommits, CompleteRaises, FailRaises, SweepRaises, Crash, LeaseExpires,
           BecomesAvailable, queueVars
  <2> QED BY <2>1, <2>2, FaultCounted DEF TypeOK
<1>2. lapsed' \subseteq Job /\ rearmed' \subseteq Job
  <2>1. lapsed \subseteq Job /\ rearmed \subseteq Job
    BY DEF TypeInv, TypeOK
  <2>2. \A c \in Client : ask[c].pc = "rearms" => ask[c].job \in Job
    BY DEF TypeInv, HasJob
  <2> QED
    BY <2>1, <2>2
    DEF QueueNext, WorkerStep, FaultStep, TimeStep, Request, EnqueueCommits, EnqueueFails,
         Returns, Rearms, Inserts, Acquire, PollEmpty, HandlerCommits, HandlerRaises, Start,
         CompleteReads, CompleteCommits, FailReads, FailCommits, SweepScan, SweepReads,
         SweepCommits, CompleteRaises, FailRaises, SweepRaises, Crash, LeaseExpires,
         BecomesAvailable, queueVars
<1> QED BY <1>1, <1>2, RowsTyped, WorkersTyped, AsksTyped, HasJobStep DEF TypeInv, TypeOK

\* Rows, workers, requests and what they are about to write stay within their types.
THEOREM QueueTypes == QueueSafety => []TypeOK
<1>1. TypeInv => TypeOK
  BY DEF TypeInv
<1> QED BY <1>1, TypeInvInit, TypeInvStep, PTL DEF QueueSafety

-----------------------------------------------------------------------------
(* What an UPDATE may hold between its read and its commit.                *)

LEMMA NetChanges ==
  ASSUME NEW r \in Row
  PROVE  /\ ~NetChange(CompletedRow(r), r).restart
         /\ NetChange(CompletedRow(r), r).status \in {"KEPT", "COMPLETED"}
         /\ r.status = "RUNNING" => NetChange(CompletedRow(r), r).status # "KEPT"
         /\ ~NetChange(FailedRow(r), r).restart
         /\ NetChange(FailedRow(r), r).status \in {"KEPT", "PENDING", "FAILED"}
         /\ r.status = "RUNNING" => NetChange(FailedRow(r), r).status # "KEPT"
         /\ NetChange(FailedRow(r), r).status = "FAILED" => r.attempts = MaxAttempts
         /\ ~SweptUpdate(r).restart
         /\ SweptUpdate(r).status \in {"KEPT", "PENDING", "FAILED"}
         /\ SweptUpdate(r).status = "FAILED" => r.attempts = MaxAttempts
         /\ ~StaleRow(r) => SweptUpdate(r) = NoUpdate
         /\ r.status = "FAILED" => NetChange(Armed, r).status = "PENDING"
<1> USE QueueAssumption
<1>1. /\ ~NetChange(CompletedRow(r), r).restart
      /\ NetChange(CompletedRow(r), r).status \in {"KEPT", "COMPLETED"}
      /\ r.status = "RUNNING" => NetChange(CompletedRow(r), r).status # "KEPT"
  BY DEF NetChange, CompletedRow, Row
<1>2. /\ ~NetChange(FailedRow(r), r).restart
      /\ NetChange(FailedRow(r), r).status \in {"KEPT", "PENDING", "FAILED"}
      /\ r.status = "RUNNING" => NetChange(FailedRow(r), r).status # "KEPT"
      /\ NetChange(FailedRow(r), r).status = "FAILED" => r.attempts = MaxAttempts
  <2>1. /\ FailedRow(r).attempts = r.attempts
        /\ FailedRow(r).status = IF Exhausted(r) THEN "FAILED" ELSE "PENDING"
        /\ Exhausted(r) => r.attempts = MaxAttempts
    BY DEF FailedRow, Exhausted, Row
  <2> QED BY <2>1 DEF NetChange
<1>3. /\ ~SweptUpdate(r).restart
      /\ SweptUpdate(r).status \in {"KEPT", "PENDING", "FAILED"}
      /\ SweptUpdate(r).status = "FAILED" => r.attempts = MaxAttempts
      /\ ~StaleRow(r) => SweptUpdate(r) = NoUpdate
  <2>1. /\ SweptRow(r).attempts = r.attempts
        /\ SweptRow(r).status = IF Exhausted(r) THEN "FAILED" ELSE "PENDING"
        /\ Exhausted(r) => r.attempts = MaxAttempts
    BY DEF SweptRow, Exhausted, Row
  <2> QED BY <2>1 DEF SweptUpdate, NetChange, NoUpdate
<1>4. r.status = "FAILED" => NetChange(Armed, r).status = "PENDING"
  BY DEF NetChange, Armed
<1> QED BY <1>1, <1>2, <1>3, <1>4

\* Only its transaction writes a worker's UPDATEs, none of which restarts the attempts or makes
\* a row RUNNING; only complete_job makes one COMPLETED.
MayWrite(w, j) ==
  \/ worker[w].pc \in {"completing", "failing"} /\ worker[w].job = j
  \/ worker[w].pc = "sweeping"

WritesInv ==
  /\ \A w \in Worker, j \in Job :
       /\ WriteOf(w, j) = NoUpdate \/ MayWrite(w, j)
       /\ ~WriteOf(w, j).restart
       /\ WriteOf(w, j).status \in IF worker[w].pc = "completing" THEN {"KEPT", "COMPLETED"}
                                   ELSE {"KEPT", "PENDING", "FAILED"}
  /\ \A c \in Client : ask[c].pc = "rearms" => ask[c].write.status = "PENDING"

LEMMA WritesInvInit == QueueInit => WritesInv
<1> SUFFICES ASSUME QueueInit PROVE WritesInv
  OBVIOUS
<1>1. \A w \in Worker, j \in Job : WriteOf(w, j) = NoUpdate
  BY DEF QueueInit, WriteOf, Resting, NoUpdates
<1>2. \A c \in Client : ask[c].pc = "idle"
  BY DEF QueueInit, NotAsking
<1>3. NoUpdate.status = "KEPT" /\ ~NoUpdate.restart
  BY DEF NoUpdate
<1> QED BY <1>1, <1>2, <1>3 DEF WritesInv

LEMMA WritesInvStep == TypeInv /\ WritesInv /\ [QueueNext]_queueVars => WritesInv'
<1> SUFFICES ASSUME TypeInv, WritesInv, [QueueNext]_queueVars PROVE WritesInv'
  OBVIOUS
<1> DEFINE Fine(w, j) == /\ WriteOf(w, j) = NoUpdate \/ MayWrite(w, j)
                         /\ ~WriteOf(w, j).restart
                         /\ WriteOf(w, j).status \in IF worker[w].pc = "completing" THEN {"KEPT", "COMPLETED"}
                                                     ELSE {"KEPT", "PENDING", "FAILED"}
<1>1. ASSUME NEW w \in Worker, NEW j \in Job PROVE Fine(w, j)'
  <2>1. Fine(w, j) /\ job[j] \in Row
    BY DEF WritesInv, TypeInv, TypeOK
  <2>2. ASSUME worker'[w].writes[j] = NoUpdate PROVE Fine(w, j)'
    BY <2>2 DEF WriteOf, NoUpdate
  <2>3. CASE worker'[w] = worker[w]
    BY <2>1, <2>3 DEF WriteOf, MayWrite
  <2>4. CASE GoesOn(w)
    BY <2>1, <2>2, <2>4 DEF GoesOn, WriteOf, MayWrite
  <2>5. CASE Claims(w)
    BY <2>1, <2>2, <2>5 DEF Claims, WriteOf, MayWrite
  <2>6. ASSUME NEW i \in Job, ReadsOwn(w, i) PROVE Fine(w, j)'
    <3>1. CASE i # j
      <4>1. worker'[w].writes[j] = NoUpdate
        BY <2>6, <3>1 DEF ReadsOwn, NoUpdates
      <4> QED BY <2>2, <4>1
    <3>2. CASE i = j /\ worker[w].pc = "handled"
      <4>1. /\ worker'[w].pc = "completing"
            /\ worker'[w].job = j
            /\ worker'[w].writes[j] = NetChange(CompletedRow(job[j]), job[j])
        BY <2>6, <3>2 DEF ReadsOwn, NoUpdates
      <4> QED BY <2>1, <4>1, NetChanges DEF WriteOf, MayWrite
    <3>3. CASE i = j /\ worker[w].pc # "handled"
      <4>1. /\ worker'[w].pc = "failing"
            /\ worker'[w].job = j
            /\ worker'[w].writes[j] = NetChange(FailedRow(job[j]), job[j])
        BY <2>6, <3>3 DEF ReadsOwn, NoUpdates
      <4> QED BY <2>1, <4>1, NetChanges DEF WriteOf, MayWrite
    <3> QED BY <3>1, <3>2, <3>3
  <2>7. CASE ReadsSwept(w)
    <3>1. worker'[w].pc = "sweeping" /\ worker'[w].writes[j] \in {NoUpdate, SweptUpdate(job[j])}
      BY <2>7 DEF ReadsSwept
    <3>2. CASE worker'[w].writes[j] = SweptUpdate(job[j])
      BY <2>1, <3>1, <3>2, NetChanges DEF WriteOf, MayWrite
    <3> QED BY <2>2, <3>1, <3>2
  <2>8. CASE LetsGo(w)
    <3>1. worker'[w].writes[j] = NoUpdate
      BY <2>8 DEF LetsGo, NoUpdates
    <3> QED BY <2>2, <3>1
  <2> QED BY <2>3, <2>4, <2>5, <2>6, <2>7, <2>8, WorkerChanges DEF WorkerChange
<1>2. ASSUME NEW c \in Client, ask'[c].pc = "rearms" PROVE ask'[c].write.status = "PENDING"
  <2>1. AskChange(c) /\ (ask[c].pc = "rearms" => ask[c].write.status = "PENDING")
    BY AskChanges DEF WritesInv
  <2>2. CASE ask'[c] = ask[c]
    BY <1>2, <2>1, <2>2
  <2>3. ASSUME NEW j \in Job, job[j].status = "FAILED",
               ask'[c] = [pc |-> "rearms", job |-> j, write |-> NetChange(Armed, job[j])]
        PROVE  ask'[c].write.status = "PENDING"
    BY <2>3, NetChanges DEF TypeInv, TypeOK
  <2> QED BY <1>2, <2>1, <2>2, <2>3 DEF AskChange
<1> QED BY <1>1, <1>2 DEF WritesInv

\* A transaction over many rows writes one row of a key, and none of a key it inserts one for.
AloneInv == \A w \in Worker :
  /\ \A i, j \in Job : KeyOf[i] = KeyOf[j] /\ i # j =>
       WriteOf(w, i) = NoUpdate \/ WriteOf(w, j) = NoUpdate
  /\ worker[w].pc = "sweeping" => \A j \in Job : KeyOf[j] \in worker[w].scan => WriteOf(w, j) = NoUpdate

LEMMA AloneInvInit == QueueInit => AloneInv
  BY DEF QueueInit, AloneInv, WriteOf, Resting, NoUpdates

LEMMA AloneInvStep == TypeInv /\ WritesInv /\ AloneInv /\ [QueueNext]_queueVars => AloneInv'
<1> SUFFICES ASSUME TypeInv, WritesInv, AloneInv, [QueueNext]_queueVars, NEW w \in Worker
             PROVE  /\ \A i, j \in Job : KeyOf[i] = KeyOf[j] /\ i # j =>
                         worker'[w].writes[i] = NoUpdate \/ worker'[w].writes[j] = NoUpdate
                    /\ worker'[w].pc = "sweeping" =>
                         \A j \in Job : KeyOf[j] \in worker'[w].scan => worker'[w].writes[j] = NoUpdate
  BY DEF AloneInv, WriteOf
<1>1. CASE worker'[w] = worker[w]
  BY <1>1 DEF AloneInv, WriteOf
<1>2. CASE GoesOn(w)
  BY <1>2 DEF GoesOn, AloneInv, WriteOf
<1>3. CASE Claims(w)
  BY <1>3 DEF Claims, AloneInv, WriteOf
<1>4. ASSUME NEW l \in Job, ReadsOwn(w, l)
      PROVE  /\ worker'[w].pc # "sweeping"
             /\ \A j \in Job : j # l => worker'[w].writes[j] = NoUpdate
  BY <1>4 DEF ReadsOwn, NoUpdates
<1>5. CASE ReadsSwept(w)
  BY <1>5 DEF ReadsSwept
<1>6. CASE LetsGo(w)
  BY <1>6 DEF LetsGo, NoUpdates
<1> QED BY <1>1, <1>2, <1>3, <1>4, <1>5, <1>6, WorkerChanges DEF WorkerChange

\* What an UPDATE makes of a row of which it does not restart the attempts.
LEMMA Applies ==
  ASSUME NEW u, NEW r
  PROVE  /\ Apply(u, r).status = IF u.status = "KEPT" THEN r.status ELSE u.status
         /\ Apply(u, r).attempts = IF u.restart THEN 0 ELSE r.attempts
         /\ Apply(u, r).locked_by = IF u.unlock THEN NoWorker ELSE r.locked_by
         /\ Apply(u, r).lease = IF u.unlock THEN "none" ELSE r.lease
  BY DEF Apply

-----------------------------------------------------------------------------
(* One active row per key.                                                 *)

\* A row that a step makes active has, after it, no other active row of its key beside it.
Activation == \A i, j \in Job :
  /\ job[j].status \notin Active
  /\ job'[j].status \in Active
  /\ KeyOf[i] = KeyOf[j]
  /\ i # j
  => job'[i].status \notin Active

LEMMA ActivatesAlone ==
  ASSUME TypeInv, WritesInv, AloneInv, [QueueNext]_queueVars
  PROVE  Activation
<1> SUFFICES ASSUME NEW i \in Job, NEW j \in Job,
                    job[j].status \notin Active, job'[j].status \in Active,
                    KeyOf[i] = KeyOf[j], i # j
             PROVE  job'[i].status \notin Active
  BY DEF Activation
<1> USE DEF TypeInv, TypeOK
<1>1. ASSUME NEW u, u.status # "RUNNING", ~Refused(u, j), job'[j] = Apply(u, job[j])
      PROVE  job[i].status \notin Active
  <2>1. u.status \in Active
    BY <1>1, Applies
  <2>2. MayActivate(j)
    BY <1>1, <2>1 DEF Refused
  <2> QED BY <2>2 DEF MayActivate, ActiveRows, RowsOf, Active
<1>2. ASSUME NEW c \in Client, Request(c), UNCHANGED worker PROVE job'[i].status \notin Active
  <2>1. CASE Rearms(c)
    <3>1. ask[c].job = j
      BY <2>1 DEF Rearms
    <3>2. job[i].status \notin Active
      BY <1>1, <2>1, <3>1 DEF Rearms, WritesInv
    <3> QED BY <2>1, <3>1, <3>2 DEF Rearms
  <2>2. CASE Inserts(c)
    BY <2>2 DEF Inserts, ActiveRows, RowsOf, FreeRows, Active
  <2>3. CASE UNCHANGED job
    BY <2>3
  <2> QED BY <1>2, <2>1, <2>2, <2>3 DEF Request, EnqueueCommits, EnqueueFails, Returns
<1>3. ASSUME NEW w \in Worker, NEW l \in Job, Acquire(w, l) PROVE job'[i].status \notin Active
  BY <1>3 DEF Acquire, Claimable, Active
<1>4. ASSUME NEW w \in Worker, CompleteCommits(w) PROVE job'[i].status \notin Active
  <2>1. worker[w].job = j /\ job'[j] = Apply(WriteOf(w, j), job[j])
    BY <1>4 DEF CompleteCommits, WriteOf
  <2>2. WriteOf(w, j).status \in {"KEPT", "COMPLETED"}
    BY <1>4 DEF CompleteCommits, WritesInv
  <2> QED BY <2>1, <2>2, Applies DEF Active
<1>5. ASSUME NEW w \in Worker, FailCommits(w) PROVE job'[i].status \notin Active
  <2>1. worker[w].job = j /\ ~Refused(WriteOf(w, j), j) /\ job'[j] = Apply(WriteOf(w, j), job[j])
    BY <1>5 DEF FailCommits, WriteOf
  <2>2. WriteOf(w, j).status # "RUNNING"
    BY <1>5 DEF FailCommits, WritesInv
  <2>3. job[i].status \notin Active
    BY <1>1, <2>1, <2>2
  <2> QED BY <1>5, <2>1, <2>3 DEF FailCommits
<1>6. ASSUME NEW w \in Worker, NEW new \in Insertions(w), SweepCommits(w, new)
      PROVE  job'[i].status \notin Active
  <2> DEFINE Inserted(l) == \E k \in DOMAIN new : new[k] = l
  <2>1. /\ worker[w].pc = "sweeping"
        /\ ~SweepRefused(w)
        /\ \A l \in Job : job'[l] = IF Inserted(l) THEN Armed ELSE Apply(WriteOf(w, l), job[l])
    BY <1>6 DEF SweepCommits, WriteOf
  <2>2. \A l \in Job : Inserted(l) =>
          /\ KeyOf[l] \in worker[w].scan
          /\ ActiveRows(KeyOf[l]) = {}
          /\ new[KeyOf[l]] = l
    BY DEF Insertions, FreeRows
  <2> HIDE DEF Inserted
  <2>3. CASE Inserted(j)
    <3>1. ~Inserted(i) /\ KeyOf[i] \in worker[w].scan
      BY <2>2, <2>3
    <3>2. WriteOf(w, i) = NoUpdate
      BY <2>1, <3>1 DEF AloneInv
    <3>3. job'[i] = job[i]
      BY <2>1, <3>1, <3>2, UpdateTypes
    <3>4. job[i].status \notin Active
      BY <2>2, <2>3 DEF ActiveRows, RowsOf, Active
    <3> QED BY <3>3, <3>4
  <2>4. CASE ~Inserted(j)
    <3>1. job'[j] = Apply(WriteOf(w, j), job[j]) /\ ~Refused(WriteOf(w, j), j)
      BY <2>1, <2>4 DEF SweepRefused, WriteOf
    <3>2. WriteOf(w, j).status # "RUNNING"
      BY <2>1 DEF WritesInv
    <3>3. job[i].status \notin Active
      BY <1>1, <3>1, <3>2
    <3>4. WriteOf(w, j) # NoUpdate
      BY <3>1, UpdateTypes
    <3>5. WriteOf(w, i) = NoUpdate /\ KeyOf[i] \notin worker[w].scan
      BY <2>1, <3>4 DEF AloneInv
    <3>6. ~Inserted(i)
      BY <2>2, <3>5
    <3>7. job'[i] = Apply(NoUpdate, job[i])
      BY <2>1, <3>5, <3>6
    <3>8. job'[i] = job[i]
      BY <3>7, UpdateTypes
    <3> QED BY <3>3, <3>8
  <2> QED BY <2>3, <2>4
<1>7. ASSUME NEW l \in Job, LeaseExpires(l) \/ BecomesAvailable(l)
      PROVE  job'[i].status \notin Active
  BY <1>7 DEF LeaseExpires, BecomesAvailable, Active, Row
<1>8. CASE UNCHANGED job
  BY <1>8
<1> QED
  BY <1>2, <1>3, <1>4, <1>5, <1>6, <1>7, <1>8
  DEF QueueNext, WorkerStep, FaultStep, TimeStep, PollEmpty, HandlerCommits, HandlerRaises, Start,
      CompleteReads, FailReads, SweepScan, SweepReads, CompleteRaises, FailRaises, SweepRaises,
      Crash, queueVars

LEMMA OneActiveStep ==
  /\ TypeInv /\ WritesInv /\ AloneInv /\ OneActivePerKey /\ [QueueNext]_queueVars
  => OneActivePerKey'
  BY ActivatesAlone DEF Activation, OneActivePerKey

\* For every number of workers, requests and rows: a key never has two rows PENDING or RUNNING.
THEOREM QueueOneActivePerKey == QueueSafety => []OneActivePerKey
<1> DEFINE Inv == TypeInv /\ WritesInv /\ AloneInv /\ OneActivePerKey
<1>1. QueueInit => Inv
  BY TypeInvInit, WritesInvInit, AloneInvInit DEF QueueInit, OneActivePerKey, Absent, Active
<1>2. Inv /\ [QueueNext]_queueVars => Inv'
  BY TypeInvStep, WritesInvStep, AloneInvStep, OneActiveStep
<1>3. Inv => OneActivePerKey
  OBVIOUS
<1> HIDE DEF Inv
<1> QED BY <1>1, <1>2, <1>3, PTL DEF QueueSafety

-----------------------------------------------------------------------------
(* Attempts.                                                               *)

\* A row that no one inserted has no attempts to lose.
Unborn == \A j \in Job : job[j].status = "ABSENT" => job[j].attempts = 0

\* The attempts of a row fall only when a request rearms it.
LEMMA AttemptsChange ==
  ASSUME TypeInv, WritesInv, Unborn, [QueueNext]_queueVars, NEW j \in Job
  PROVE  \/ job'[j].attempts = job[j].attempts
         \/ job'[j].attempts = job[j].attempts + 1 /\ job[j].attempts < MaxAttempts
         \/ job'[j].attempts = 0 /\ \E c \in Client : Rearmed(c, j)
<1>1. job[j] \in Row /\ RowChange(j)
  BY RowChanges DEF TypeInv, TypeOK
<1>2. CASE job[j].status = "ABSENT" /\ job'[j] = Armed
  BY <1>2 DEF Unborn, Armed
<1>3. ASSUME Claimable(j), NEW w \in Worker, job'[j] = ClaimedBy(w, job[j])
      PROVE  job'[j].attempts = job[j].attempts + 1 /\ job[j].attempts < MaxAttempts
  BY <1>3 DEF Claimable, ClaimedBy
<1>4. ASSUME NEW w \in Worker, Writes(w, j) PROVE job'[j].attempts = job[j].attempts
  BY <1>4, Applies DEF Writes, WritesInv
<1>5. ASSUME NEW c \in Client, Rearmed(c, j)
      PROVE  job'[j].attempts = job[j].attempts \/ job'[j].attempts = 0
  BY <1>5, Applies DEF Rearmed
<1>6. CASE \/ job'[j] = [job[j] EXCEPT !.lease = "expired"]
           \/ job'[j] = [job[j] EXCEPT !.available = TRUE]
  BY <1>1, <1>6 DEF Row
<1> QED BY <1>1, <1>2, <1>3, <1>4, <1>5, <1>6 DEF RowChange

\* How a row gets the status it has.
LEMMA StatusChange ==
  ASSUME TypeInv, WritesInv, [QueueNext]_queueVars, NEW j \in Job
  PROVE  \/ job'[j].status = job[j].status
         \/ job[j].status = "ABSENT" /\ job'[j].status = "PENDING"
         \/ Claimable(j) /\ job'[j].status = "RUNNING"
         \/ \E w \in Worker : /\ Writes(w, j)
                              /\ WriteOf(w, j).status # "KEPT"
                              /\ job'[j].status = WriteOf(w, j).status
         \/ \E c \in Client : Rearmed(c, j) /\ job'[j].status = "PENDING"
<1>1. job[j] \in Row /\ RowChange(j)
  BY RowChanges DEF TypeInv, TypeOK
<1>2. CASE job[j].status = "ABSENT" /\ job'[j] = Armed
  BY <1>2 DEF Armed
<1>3. ASSUME Claimable(j), NEW w \in Worker, job'[j] = ClaimedBy(w, job[j])
      PROVE  job'[j].status = "RUNNING"
  BY <1>3 DEF ClaimedBy
<1>4. ASSUME NEW w \in Worker, Writes(w, j)
      PROVE  job'[j].status = IF WriteOf(w, j).status = "KEPT" THEN job[j].status ELSE WriteOf(w, j).status
  BY <1>4, Applies DEF Writes
<1>5. ASSUME NEW c \in Client, Rearmed(c, j) PROVE job'[j].status = "PENDING"
  BY <1>5, Applies DEF Rearmed, WritesInv
<1>6. CASE \/ job'[j] = [job[j] EXCEPT !.lease = "expired"]
           \/ job'[j] = [job[j] EXCEPT !.available = TRUE]
  BY <1>1, <1>6 DEF Row
<1> QED BY <1>1, <1>2, <1>3, <1>4, <1>5, <1>6 DEF RowChange

LEMMA UnbornStep == TypeInv /\ WritesInv /\ Unborn /\ [QueueNext]_queueVars => Unborn'
<1> SUFFICES ASSUME TypeInv, WritesInv, Unborn, [QueueNext]_queueVars,
                    NEW j \in Job, job'[j].status = "ABSENT"
             PROVE  job'[j].attempts = 0
  BY DEF Unborn
<1>1. \A w \in Worker : WriteOf(w, j).status # "ABSENT"
  BY DEF WritesInv
<1>2. job[j].status = "ABSENT"
  BY <1>1, StatusChange
<1>3. job[j] \in Row /\ job[j].attempts = 0 /\ RowChange(j)
  BY <1>2, RowChanges DEF Unborn, TypeInv, TypeOK
<1>4. ~Claimable(j)
  BY <1>2 DEF Claimable
<1>5. CASE job'[j] = Armed
  BY <1>5 DEF Armed
<1>6. ASSUME NEW w \in Worker, Writes(w, j) PROVE job'[j].attempts = 0
  BY <1>3, <1>6, Applies DEF Writes
<1>7. ASSUME NEW c \in Client, Rearmed(c, j) PROVE job'[j].attempts = 0
  BY <1>3, <1>7, Applies DEF Rearmed
<1>8. CASE \/ job'[j] = [job[j] EXCEPT !.lease = "expired"]
           \/ job'[j] = [job[j] EXCEPT !.available = TRUE]
  BY <1>3, <1>8 DEF Row
<1> QED BY <1>3, <1>4, <1>5, <1>6, <1>7, <1>8 DEF RowChange

\* An UPDATE that gives a row up that was never rearmed finds it exhausted.
ExhaustedInv == \A w \in Worker, j \in Job \ rearmed :
  WriteOf(w, j).status = "FAILED" => job[j].attempts = MaxAttempts

LEMMA StaysExhausted ==
  ASSUME TypeInv, WritesInv, Unborn, [QueueNext]_queueVars,
         NEW j \in Job, j \notin rearmed', job[j].attempts = MaxAttempts
  PROVE  job'[j].attempts = MaxAttempts
<1>1. \A c \in Client : ~Rearmed(c, j)
  BY DEF Rearmed
<1> QED BY <1>1, AttemptsChange, QueueAssumption

LEMMA ExhaustedStep ==
  TypeInv /\ WritesInv /\ Unborn /\ ExhaustedInv /\ [QueueNext]_queueVars => ExhaustedInv'
<1> SUFFICES ASSUME TypeInv, WritesInv, Unborn, ExhaustedInv, [QueueNext]_queueVars,
                    NEW w \in Worker, NEW j \in Job, j \notin rearmed',
                    worker'[w].writes[j].status = "FAILED"
             PROVE  job'[j].attempts = MaxAttempts
  BY DEF ExhaustedInv, WriteOf
<1>1. job[j] \in Row /\ j \notin rearmed
  BY HistoriesGrow DEF TypeInv, TypeOK
<1>2. NoUpdate.status # "FAILED"
  BY DEF NoUpdate
<1>3. CASE WriteOf(w, j).status = "FAILED"
  BY <1>1, <1>3, StaysExhausted DEF ExhaustedInv
<1>4. CASE worker'[w] = worker[w] \/ GoesOn(w) \/ Claims(w)
  <2>1. worker'[w].writes = worker[w].writes
    BY <1>4 DEF GoesOn, Claims
  <2> QED BY <1>3, <2>1 DEF WriteOf
<1>5. ASSUME NEW i \in Job, ReadsOwn(w, i) PROVE job'[j].attempts = MaxAttempts
  <2>1. i = j
    BY <1>2, <1>5 DEF ReadsOwn, NoUpdates
  <2>2. \/ worker'[w].writes[j] = NetChange(CompletedRow(job[j]), job[j])
        \/ worker'[w].writes[j] = NetChange(FailedRow(job[j]), job[j])
    BY <1>5, <2>1 DEF ReadsOwn, NoUpdates
  <2>3. job[j].attempts = MaxAttempts
    BY <1>1, <2>2, NetChanges
  <2> QED BY <1>5, <2>3 DEF ReadsOwn
<1>6. CASE ReadsSwept(w)
  <2>1. worker'[w].writes[j] = SweptUpdate(job[j])
    BY <1>2, <1>6 DEF ReadsSwept
  <2>2. job[j].attempts = MaxAttempts
    BY <1>1, <2>1, NetChanges
  <2> QED BY <1>6, <2>2 DEF ReadsSwept
<1>7. CASE LetsGo(w)
  BY <1>2, <1>7 DEF LetsGo, NoUpdates
<1> QED BY <1>4, <1>5, <1>6, <1>7, WorkerChanges DEF WorkerChange

LEMMA FailedStep ==
  /\ TypeInv /\ WritesInv /\ Unborn /\ ExhaustedInv /\ FailedOnlyWhenExhausted /\ [QueueNext]_queueVars
  => FailedOnlyWhenExhausted'
<1> SUFFICES ASSUME TypeInv, WritesInv, Unborn, ExhaustedInv, FailedOnlyWhenExhausted,
                    [QueueNext]_queueVars,
                    NEW j \in Job, j \notin rearmed', job'[j].status = "FAILED"
             PROVE  job'[j].attempts = MaxAttempts
  BY DEF FailedOnlyWhenExhausted
<1>1. j \notin rearmed
  BY HistoriesGrow
<1>2. job[j].attempts = MaxAttempts
  <2>1. CASE job[j].status = "FAILED"
    BY <1>1, <2>1 DEF FailedOnlyWhenExhausted
  <2>2. ASSUME NEW w \in Worker, WriteOf(w, j).status = "FAILED" PROVE job[j].attempts = MaxAttempts
    BY <1>1, <2>2 DEF ExhaustedInv
  <2> QED BY <2>1, <2>2, StatusChange
<1> QED BY <1>2, StaysExhausted

\* For every max_attempts: no row is FAILED before it was claimed that often, but for a row
\* that a request has rearmed.
THEOREM QueueFailedOnlyWhenExhausted == QueueSafety => []FailedOnlyWhenExhausted
<1> DEFINE Inv == TypeInv /\ WritesInv /\ Unborn /\ ExhaustedInv /\ FailedOnlyWhenExhausted
<1>1. QueueInit => Inv
  <2> SUFFICES ASSUME QueueInit PROVE Inv
    OBVIOUS
  <2>1. \A j \in Job : job[j].status = "ABSENT" /\ job[j].attempts = 0
    BY DEF QueueInit, Absent
  <2>2. \A w \in Worker, j \in Job : WriteOf(w, j).status # "FAILED"
    BY DEF QueueInit, WriteOf, Resting, NoUpdates, NoUpdate
  <2> QED BY <2>1, <2>2, TypeInvInit, WritesInvInit DEF Unborn, ExhaustedInv, FailedOnlyWhenExhausted
<1>2. Inv /\ [QueueNext]_queueVars => Inv'
  BY TypeInvStep, WritesInvStep, UnbornStep, ExhaustedStep, FailedStep
<1>3. Inv => FailedOnlyWhenExhausted
  OBVIOUS
<1> HIDE DEF Inv
<1> QED BY <1>1, <1>2, <1>3, PTL DEF QueueSafety

LEMMA RestartStep ==
  ASSUME TypeInv, WritesInv, Unborn, [QueueNext]_queueVars, NEW j \in Job,
         job'[j].attempts < job[j].attempts
  PROVE  /\ \E c \in Client : ask[c].pc = "rearms" /\ ask[c].job = j /\ ask'[c].pc = "idle"
         /\ job'[j].attempts = 0
         /\ UNCHANGED worker
<1>1. job[j].attempts \in Nat
  BY QueueAssumption DEF TypeInv, TypeOK, Row
<1>2. job'[j].attempts = 0 /\ \E c \in Client : Rearmed(c, j)
  BY <1>1, AttemptsChange
<1>3. PICK c \in Client : Rearmed(c, j)
  BY <1>2
<1>4. ask'[c].pc = "idle"
  BY <1>3 DEF Rearmed, AskEnds, NotAsking, TypeInv, TypeOK
<1> QED BY <1>2, <1>3, <1>4 DEF Rearmed

\* For every max_attempts: no lease, crash, scan or late UPDATE gives a row its attempts back.
THEOREM QueueAttemptsRestartOnlyByRequest == QueueSafety => AttemptsRestartOnlyByRequest
<1> DEFINE Inv == TypeInv /\ WritesInv /\ Unborn
           Restarted(j) == /\ \E c \in Client : ask[c].pc = "rearms" /\ ask[c].job = j /\ ask'[c].pc = "idle"
                           /\ job'[j].attempts = 0
                           /\ UNCHANGED worker
<1>1. QueueInit => Inv
  BY TypeInvInit, WritesInvInit DEF QueueInit, Unborn, Absent
<1>2. Inv /\ [QueueNext]_queueVars => Inv'
  BY TypeInvStep, WritesInvStep, UnbornStep
<1>3. Inv /\ [QueueNext]_queueVars =>
        [\A j \in Job : job'[j].attempts < job[j].attempts => Restarted(j)]_queueVars
  BY RestartStep
<1> HIDE DEF Inv
<1> QED BY <1>1, <1>2, <1>3, PTL DEF QueueSafety, AttemptsRestartOnlyByRequest

-----------------------------------------------------------------------------
(* Leases.                                                                 *)

HoldsLease(w, j) == job[j].status = "RUNNING" /\ job[j].lease = "live" /\ job[j].locked_by = w

\* A leased row was leased to the same worker before, or that worker claims it now.
LEMMA LeaseFrom ==
  ASSUME TypeInv, WritesInv, [QueueNext]_queueVars, NEW j \in Job,
         job'[j].status = "RUNNING", job'[j].lease = "live"
  PROVE  \/ \E w \in Worker : Acquire(w, j) /\ job'[j].locked_by = w
         \/ HoldsLease(job'[j].locked_by, j)
<1>1. job[j] \in Row /\ RowChange(j)
  BY RowChanges DEF TypeInv, TypeOK
<1>2. CASE job'[j] = job[j]
  BY <1>2 DEF HoldsLease
<1>3. CASE job'[j] = Armed
  BY <1>3 DEF Armed
<1>4. ASSUME NEW w \in Worker, job'[j] = ClaimedBy(w, job[j]), Acquire(w, j)
      PROVE  Acquire(w, j) /\ job'[j].locked_by = w
  BY <1>4 DEF ClaimedBy
<1>5. ASSUME NEW w \in Worker, Writes(w, j) PROVE HoldsLease(job'[j].locked_by, j)
  <2>1. WriteOf(w, j).status # "RUNNING" /\ job'[j] = Apply(WriteOf(w, j), job[j])
    BY <1>5 DEF WritesInv, Writes
  <2>2. WriteOf(w, j).status = "KEPT" /\ ~WriteOf(w, j).unlock
    BY <2>1, Applies
  <2> QED BY <2>1, <2>2, Applies DEF HoldsLease
<1>6. ASSUME NEW c \in Client, Rearmed(c, j) PROVE FALSE
  BY <1>6, Applies DEF Rearmed, WritesInv
<1>7. CASE job'[j] = [job[j] EXCEPT !.lease = "expired"]
  BY <1>1, <1>7 DEF Row
<1>8. CASE job'[j] = [job[j] EXCEPT !.available = TRUE]
  BY <1>1, <1>8 DEF Row, HoldsLease
<1> QED BY <1>1, <1>2, <1>3, <1>4, <1>5, <1>6, <1>7, <1>8 DEF RowChange

\* A worker that ends the execution of a row it has a lease of takes it out of RUNNING.
EndInv == \A w \in Worker, j \in Job :
  worker[w].pc \in {"completing", "failing"} /\ worker[w].job = j /\ HoldsLease(w, j)
    => WriteOf(w, j).status # "KEPT"

LEMMA EndStep == TypeInv /\ WritesInv /\ EndInv /\ [QueueNext]_queueVars => EndInv'
<1> SUFFICES ASSUME TypeInv, WritesInv, EndInv, [QueueNext]_queueVars,
                    NEW w \in Worker, NEW j \in Job,
                    worker'[w].pc \in {"completing", "failing"}, worker'[w].job = j,
                    job'[j].status = "RUNNING", job'[j].lease = "live", job'[j].locked_by = w
             PROVE  worker'[w].writes[j].status # "KEPT"
  BY DEF EndInv, HoldsLease, WriteOf
<1>1. ~Acquire(w, j)
  BY DEF Acquire, TypeInv, TypeOK, Process
<1>2. HoldsLease(w, j) \/ \E v \in Worker : Acquire(v, j) /\ job'[j].locked_by = v
  BY LeaseFrom
<1>3. HoldsLease(w, j)
  BY <1>1, <1>2
<1>4. CASE worker'[w] = worker[w]
  BY <1>3, <1>4 DEF EndInv, WriteOf
<1>5. ASSUME NEW i \in Job, ReadsOwn(w, i) PROVE worker'[w].writes[j].status # "KEPT"
  <2>1. i = j /\ job[j] \in Row /\ job[j].status = "RUNNING"
    BY <1>3, <1>5 DEF ReadsOwn, HoldsLease, TypeInv, TypeOK
  <2>2. \/ worker'[w].writes[j] = NetChange(CompletedRow(job[j]), job[j])
        \/ worker'[w].writes[j] = NetChange(FailedRow(job[j]), job[j])
    BY <1>5, <2>1 DEF ReadsOwn, NoUpdates
  <2> QED BY <2>1, <2>2, NetChanges
<1>6. ~GoesOn(w) /\ ~Claims(w) /\ ~ReadsSwept(w) /\ ~LetsGo(w)
  BY DEF GoesOn, Claims, ReadsSwept, LetsGo, Executing
<1> QED BY <1>4, <1>5, <1>6, WorkerChanges DEF WorkerChange

WorkedBy(w, j) == worker[w].job = j /\ worker[w].pc \in Executing /\ job[j].locked_by = w

\* The end of an execution takes the lease with it.
LEMMA EndsLease ==
  ASSUME TypeInv, WritesInv, EndInv, OneActivePerKey, NEW w \in Worker, NEW j \in Job,
         CompleteCommits(w) \/ FailCommits(w), worker[w].job = j, HoldsLease(w, j)
  PROVE  job'[j].status # "RUNNING"
<1>1. worker[w].pc \in {"completing", "failing"}
  BY DEF CompleteCommits, FailCommits
<1>2. WriteOf(w, j).status \notin {"KEPT", "RUNNING"}
  BY <1>1 DEF EndInv, WritesInv
<1>3. ~Refused(WriteOf(w, j), j)
  <2>1. MayActivate(j)
    BY DEF MayActivate, ActiveRows, RowsOf, Active, HoldsLease, OneActivePerKey
  <2> QED BY <2>1 DEF Refused
<1>4. job'[j] = Apply(WriteOf(w, j), job[j])
  BY <1>3 DEF CompleteCommits, FailCommits, WriteOf, TypeInv, TypeOK
<1> QED BY <1>2, <1>4, Applies

LEMMA LiveLeaseStep ==
  /\ TypeInv /\ WritesInv /\ EndInv /\ OneActivePerKey /\ LiveLeaseIsWorked /\ [QueueNext]_queueVars
  => LiveLeaseIsWorked'
<1> SUFFICES ASSUME TypeInv, WritesInv, EndInv, OneActivePerKey, LiveLeaseIsWorked,
                    [QueueNext]_queueVars, faults' = 0,
                    NEW j \in Job, job'[j].status = "RUNNING", job'[j].lease = "live"
             PROVE  \E v \in Worker : worker'[v].job = j /\ worker'[v].pc \in Executing
                                      /\ job'[j].locked_by = v
  BY DEF LiveLeaseIsWorked
<1>1. faults \in Nat /\ (faults' = faults \/ faults' = faults + 1)
  <2>1. Fault \/ UNCHANGED faults
    BY DEF QueueNext, WorkerStep, FaultStep, TimeStep, Acquire, PollEmpty, HandlerCommits,
           HandlerRaises, Start, CompleteReads, CompleteCommits, FailReads, FailCommits, SweepScan,
           SweepReads, SweepCommits, CompleteRaises, FailRaises, SweepRaises, Crash, LeaseExpires,
           BecomesAvailable, queueVars
  <2> QED BY <2>1, QueueAssumption DEF Fault, TypeInv, TypeOK
<1>2. faults = 0
  BY <1>1
<1>3. ASSUME NEW w \in Worker, Acquire(w, j), job'[j].locked_by = w
      PROVE  worker'[w].job = j /\ worker'[w].pc \in Executing
  BY <1>3 DEF Acquire, Executing, TypeInv, TypeOK, Process
<1>4. CASE HoldsLease(job'[j].locked_by, j)
  <2>1. PICK w \in Worker : WorkedBy(w, j)
    BY <1>2, <1>4 DEF LiveLeaseIsWorked, HoldsLease, WorkedBy
  <2>2. job'[j].locked_by = w /\ HoldsLease(w, j)
    BY <1>4, <2>1 DEF HoldsLease, WorkedBy
  <2>3. worker[w].pc \in Executing /\ worker[w].job = j
    BY <2>1 DEF WorkedBy
  <2>4. CASE worker'[w] = worker[w]
    BY <2>2, <2>3, <2>4
  <2>5. CASE GoesOn(w)
    BY <2>2, <2>3, <2>5 DEF GoesOn, Executing
  <2>6. ~Claims(w) /\ ~ReadsSwept(w)
    BY <2>3 DEF Claims, ReadsSwept, Executing
  <2>7. ASSUME NEW i \in Job, ReadsOwn(w, i) PROVE worker'[w].job = j /\ worker'[w].pc \in Executing
    BY <2>3, <2>7 DEF ReadsOwn, Executing
  <2>8. CASE LetsGo(w)
    <3>1. CompleteCommits(w) \/ FailCommits(w)
      BY <1>1, <1>2, <2>3, <2>8 DEF LetsGo, Executing
    <3> QED BY <2>2, <2>3, <3>1, EndsLease
  <2> QED BY <2>2, <2>4, <2>5, <2>6, <2>7, <2>8, WorkerChanges DEF WorkerChange
<1> QED BY <1>3, <1>4, LeaseFrom

LEMMA EndInvInit == QueueInit => EndInv
  BY DEF QueueInit, EndInv, Resting

\* For every number of workers and requests: without a fault, no row stays leased to a worker
\* that does not execute it.
THEOREM QueueLiveLeaseIsWorked == QueueSafety => []LiveLeaseIsWorked
<1> DEFINE Inv == /\ TypeInv /\ WritesInv /\ AloneInv /\ EndInv
                  /\ OneActivePerKey /\ LiveLeaseIsWorked
<1>1. QueueInit => Inv
  BY TypeInvInit, WritesInvInit, AloneInvInit, EndInvInit
  DEF QueueInit, OneActivePerKey, LiveLeaseIsWorked, Absent, Active
<1>2. Inv /\ [QueueNext]_queueVars => Inv'
  BY TypeInvStep, WritesInvStep, AloneInvStep, EndStep, OneActiveStep, LiveLeaseStep
<1>3. Inv => LiveLeaseIsWorked
  OBVIOUS
<1> HIDE DEF Inv
<1> QED BY <1>1, <1>2, <1>3, PTL DEF QueueSafety

-----------------------------------------------------------------------------
(* Completed rows.                                                         *)

\* Of a row that never lost a lease and was never rearmed: who executes it has its lease, so
\* at most one does; no recovery will write it; and who rearms it finds it FAILED.
Untouched == Job \ (lapsed \cup rearmed)
KeptInv == \A j \in Untouched :
  /\ \A w \in Worker : worker[w].pc \in Executing /\ worker[w].job = j => HoldsLease(w, j)
  /\ \A w \in Worker : worker[w].pc = "sweeping" => WriteOf(w, j) = NoUpdate
  /\ job[j].status = "RUNNING" => job[j].lease = "live"
  /\ \A c \in Client : ask[c].pc = "rearms" /\ ask[c].job = j => job[j].status = "FAILED"

\* Such a row is inserted, claimed and ended; nothing else becomes of it.
SameHold(j) ==
  /\ job'[j].status = job[j].status
  /\ job'[j].lease = job[j].lease
  /\ job'[j].locked_by = job[j].locked_by

LEMMA UntouchedChange ==
  ASSUME TypeInv, WritesInv, EndInv, KeptInv, [QueueNext]_queueVars, NEW j \in Untouched
  PROVE  \/ SameHold(j)
         \/ job[j].status = "ABSENT" /\ job'[j] = Armed
         \/ job[j].status = "PENDING" /\ \E w \in Worker : Acquire(w, j) /\ job'[j] = ClaimedBy(w, job[j])
         \/ \E w \in Worker : /\ Release(w)
                              /\ worker[w].pc \in Executing
                              /\ worker[w].job = j
                              /\ HoldsLease(w, j)
                              /\ job'[j].status # "RUNNING"
         \/ job[j].status = "RUNNING" /\ j \in lapsed'
         \/ job[j].status = "FAILED" /\ j \in rearmed'
         \/ job'[j].status = job[j].status /\ j \in lapsed'
<1>1. j \in Job /\ job[j] \in Row /\ RowChange(j)
  BY RowChanges DEF TypeInv, TypeOK, Untouched
<1>2. CASE job'[j] = job[j]
  BY <1>2 DEF SameHold
<1>3. ASSUME Claimable(j) PROVE job[j].status = "PENDING"
  BY <1>3 DEF Claimable, KeptInv
<1>4. ASSUME NEW w \in Worker, Writes(w, j), worker[w].pc = "sweeping" PROVE SameHold(j)
  <2>1. WriteOf(w, j) = NoUpdate
    BY <1>4 DEF KeptInv
  <2>2. job'[j] = job[j]
    BY <1>1, <1>4, <2>1, UpdateTypes DEF Writes
  <2> QED BY <2>2 DEF SameHold
<1>5. ASSUME NEW w \in Worker, Writes(w, j), worker[w].pc # "sweeping"
      PROVE  /\ Release(w)
             /\ worker[w].pc \in Executing
             /\ worker[w].job = j
             /\ HoldsLease(w, j)
             /\ job'[j].status # "RUNNING"
  <2>1. Release(w) /\ worker[w].pc \in {"completing", "failing"} /\ worker[w].job = j
    BY <1>5 DEF Writes
  <2>2. HoldsLease(w, j)
    BY <2>1 DEF KeptInv, Executing
  <2>3. WriteOf(w, j).status \notin {"KEPT", "RUNNING"}
    BY <1>1, <2>1, <2>2 DEF EndInv, WritesInv
  <2>4. job'[j].status # "RUNNING"
    BY <1>5, <2>3, Applies DEF Writes
  <2> QED BY <2>1, <2>2, <2>4 DEF Executing
<1>6. ASSUME NEW c \in Client, Rearmed(c, j) PROVE job[j].status = "FAILED" /\ j \in rearmed'
  BY <1>6 DEF Rearmed, KeptInv
<1>7. CASE job'[j] = [job[j] EXCEPT !.lease = "expired"] /\ lapsed' = lapsed \cup {j}
  BY <1>1, <1>7 DEF Row
<1>8. CASE job'[j] = [job[j] EXCEPT !.available = TRUE]
  BY <1>1, <1>8 DEF Row, SameHold
<1> QED BY <1>1, <1>2, <1>3, <1>4, <1>5, <1>6, <1>7, <1>8 DEF RowChange

LEMMA KeptStep ==
  TypeInv /\ WritesInv /\ EndInv /\ KeptInv /\ [QueueNext]_queueVars => KeptInv'
<1> SUFFICES ASSUME TypeInv, WritesInv, EndInv, KeptInv, [QueueNext]_queueVars,
                    NEW j \in Job, j \notin lapsed', j \notin rearmed'
             PROVE  /\ \A w \in Worker : worker'[w].pc \in Executing /\ worker'[w].job = j =>
                         job'[j].status = "RUNNING" /\ job'[j].lease = "live" /\ job'[j].locked_by = w
                    /\ \A w \in Worker : worker'[w].pc = "sweeping" => worker'[w].writes[j] = NoUpdate
                    /\ job'[j].status = "RUNNING" => job'[j].lease = "live"
                    /\ \A c \in Client : ask'[c].pc = "rearms" /\ ask'[c].job = j =>
                         job'[j].status = "FAILED"
  BY DEF KeptInv, Untouched, HoldsLease, WriteOf
<1>1. j \in Untouched /\ job[j] \in Row
  BY HistoriesGrow DEF Untouched, TypeInv, TypeOK
<1>2. \/ SameHold(j)
      \/ job[j].status = "ABSENT" /\ job'[j] = Armed
      \/ job[j].status = "PENDING" /\ \E w \in Worker : Acquire(w, j) /\ job'[j] = ClaimedBy(w, job[j])
      \/ \E w \in Worker : /\ Release(w)
                           /\ worker[w].pc \in Executing
                           /\ worker[w].job = j
                           /\ HoldsLease(w, j)
                           /\ job'[j].status # "RUNNING"
  BY <1>1, UntouchedChange
<1>3. ASSUME NEW w \in Worker, worker'[w].pc \in Executing, worker'[w].job = j
      PROVE  job'[j].status = "RUNNING" /\ job'[j].lease = "live" /\ job'[j].locked_by = w
  <2>1. CASE Claims(w)
    <3>1. Acquire(w, j)
      BY <1>3, <2>1 DEF Claims
    <3>2. job'[j] = ClaimedBy(w, job[j])
      BY <3>1 DEF Acquire, TypeInv, TypeOK
    <3> QED BY <3>2 DEF ClaimedBy
  <2>2. CASE ~Claims(w)
    <3>1. worker[w].pc \in Executing /\ worker[w].job = j
      <4>1. CASE worker'[w] = worker[w]
        BY <1>3, <4>1
      <4>2. CASE GoesOn(w)
        BY <1>3, <4>2 DEF GoesOn, Executing
      <4>3. ASSUME NEW i \in Job, ReadsOwn(w, i) PROVE worker[w].pc \in Executing /\ worker[w].job = j
        BY <1>3, <4>3 DEF ReadsOwn, Executing
      <4>4. ~ReadsSwept(w)
        BY <1>3 DEF ReadsSwept, Executing
      <4>5. CASE LetsGo(w)
        BY <1>3, <4>5 DEF LetsGo, Executing
      <4> QED BY <2>2, <4>1, <4>2, <4>3, <4>4, <4>5, WorkerChanges DEF WorkerChange
    <3>2. job[j].status = "RUNNING" /\ job[j].lease = "live" /\ job[j].locked_by = w
      BY <1>1, <3>1 DEF KeptInv, HoldsLease
    <3>3. ASSUME NEW v \in Worker, Release(v), HoldsLease(v, j) PROVE FALSE
      <4>1. v = w
        BY <3>2, <3>3 DEF HoldsLease
      <4>2. worker'[w].pc = "idle"
        BY <3>3, <4>1 DEF Release, Rest, Resting, TypeInv, TypeOK
      <4> QED BY <1>3, <4>2 DEF Executing
    <3> QED BY <1>2, <3>2, <3>3 DEF SameHold
  <2> QED BY <2>1, <2>2
<1>4. ASSUME NEW w \in Worker, worker'[w].pc = "sweeping" PROVE worker'[w].writes[j] = NoUpdate
  <2>1. CASE worker'[w] = worker[w]
    BY <1>1, <1>4, <2>1 DEF KeptInv, WriteOf
  <2>2. CASE ReadsSwept(w)
    <3>1. ~StaleRow(job[j])
      BY <1>1 DEF StaleRow, KeptInv
    <3> QED BY <1>1, <2>2, <3>1, NetChanges DEF ReadsSwept
  <2>3. ~GoesOn(w) /\ ~Claims(w) /\ ~LetsGo(w) /\ \A i \in Job : ~ReadsOwn(w, i)
    BY <1>4 DEF GoesOn, Claims, LetsGo, ReadsOwn
  <2> QED BY <2>1, <2>2, <2>3, WorkerChanges DEF WorkerChange
<1>5. job'[j].status = "RUNNING" => job'[j].lease = "live"
  <2>1. job[j].status = "RUNNING" => job[j].lease = "live"
    BY <1>1 DEF KeptInv
  <2>2. Armed.status = "PENDING" /\ \A w \in Worker : ClaimedBy(w, job[j]).lease = "live"
    BY DEF Armed, ClaimedBy
  <2> QED BY <1>2, <2>1, <2>2 DEF SameHold
<1>6. ASSUME NEW c \in Client, ask'[c].pc = "rearms", ask'[c].job = j PROVE job'[j].status = "FAILED"
  <2>1. CASE ask'[c] = ask[c]
    <3>1. job[j].status = "FAILED"
      BY <1>1, <1>6, <2>1 DEF KeptInv
    <3> QED BY <1>2, <3>1 DEF SameHold, HoldsLease
  <2>2. ASSUME NEW i \in Job, job[i].status = "FAILED", UNCHANGED job,
               ask'[c] = [pc |-> "rearms", job |-> i, write |-> NetChange(Armed, job[i])]
        PROVE  job'[j].status = "FAILED"
    <3>1. i = j
      BY <1>6, <2>2
    <3> QED BY <2>2, <3>1
  <2> QED BY <1>6, <2>1, <2>2, AskChanges DEF AskChange
<1> QED BY <1>3, <1>4, <1>5, <1>6

LEMMA KeptInvInit == QueueInit => KeptInv
<1> SUFFICES ASSUME QueueInit PROVE KeptInv
  OBVIOUS
<1>1. \A w \in Worker : worker[w].pc = "down"
  BY DEF QueueInit, Resting
<1>2. \A c \in Client : ask[c].pc = "idle"
  BY DEF QueueInit, NotAsking
<1>3. \A j \in Job : job[j].status = "ABSENT"
  BY DEF QueueInit, Absent
<1> QED BY <1>1, <1>2, <1>3 DEF KeptInv, Untouched, Executing

LEMMA CompletedStep ==
  ASSUME TypeInv, WritesInv, EndInv, KeptInv, [QueueNext]_queueVars, NEW j \in Job,
         job[j].status = "COMPLETED", job'[j].status # "COMPLETED"
  PROVE  j \in lapsed \cup rearmed
<1> SUFFICES ASSUME j \in Untouched PROVE FALSE
  BY DEF Untouched
<1> QED BY UntouchedChange DEF SameHold, HoldsLease

\* For every number of workers, requests, rows and faults: a COMPLETED row of which no lease
\* ran out and that no request rearmed stays COMPLETED, whoever still has something to write.
THEOREM QueueCompletedForGood == QueueSafety => CompletedForGood
<1> DEFINE Inv == TypeInv /\ WritesInv /\ EndInv /\ KeptInv
<1>1. QueueInit => Inv
  BY TypeInvInit, WritesInvInit, EndInvInit, KeptInvInit
<1>2. Inv /\ [QueueNext]_queueVars => Inv'
  BY TypeInvStep, WritesInvStep, EndStep, KeptStep
<1>3. Inv /\ [QueueNext]_queueVars =>
        [\A j \in Job : job[j].status = "COMPLETED" /\ job'[j].status # "COMPLETED" =>
           j \in lapsed \cup rearmed]_queueVars
  BY CompletedStep
<1> HIDE DEF Inv
<1> QED BY <1>1, <1>2, <1>3, PTL DEF QueueSafety, CompletedForGood

-----------------------------------------------------------------------------
(* What the modules that decide about the handlers need to know.           *)

\* A row that is there is COMPLETED only by a worker whose handler has committed.
LEMMA CompletesOnlyHandled ==
  ASSUME TypeInv, WritesInv, [QueueNext]_queueVars, NEW j \in Job,
         job[j].status \notin {"ABSENT", "COMPLETED"}, job'[j].status \in {"ABSENT", "COMPLETED"}
  PROVE  \E w \in Worker : worker[w].pc = "completing" /\ worker[w].job = j
<1>1. PICK w \in Worker : /\ Writes(w, j)
                          /\ WriteOf(w, j).status # "KEPT"
                          /\ job'[j].status = WriteOf(w, j).status
  BY StatusChange
<1>2. worker[w].pc = "completing"
  BY <1>1 DEF WritesInv
<1> QED BY <1>1, <1>2 DEF Writes

\* What is about to be written is a row that is there.
PresentInv ==
  /\ \A w \in Worker, j \in Job :
       worker[w].pc = "sweeping" /\ WriteOf(w, j) # NoUpdate => job[j].status # "ABSENT"
  /\ \A c \in Client : ask[c].pc = "rearms" => job[ask[c].job].status # "ABSENT"

LEMMA StaysPresent ==
  ASSUME TypeInv, WritesInv, [QueueNext]_queueVars, NEW j \in Job, job[j].status # "ABSENT"
  PROVE  job'[j].status # "ABSENT"
<1>1. \A w \in Worker : WriteOf(w, j).status # "ABSENT"
  BY DEF WritesInv
<1> QED BY <1>1, StatusChange

LEMMA PresentStep == TypeInv /\ WritesInv /\ PresentInv /\ [QueueNext]_queueVars => PresentInv'
<1> SUFFICES ASSUME TypeInv, WritesInv, PresentInv, [QueueNext]_queueVars PROVE PresentInv'
  OBVIOUS
<1>1. ASSUME NEW w \in Worker, NEW j \in Job, worker'[w].pc = "sweeping",
             worker'[w].writes[j] # NoUpdate
      PROVE  job'[j].status # "ABSENT"
  <2>1. CASE worker'[w] = worker[w]
    BY <1>1, <2>1, StaysPresent DEF PresentInv, WriteOf
  <2>2. CASE ReadsSwept(w)
    <3>1. worker'[w].writes[j] = SweptUpdate(job[j]) /\ job[j] \in Row
      BY <1>1, <2>2 DEF ReadsSwept, TypeInv, TypeOK
    <3>2. StaleRow(job[j])
      BY <1>1, <3>1, NetChanges
    <3> QED BY <3>2, StaysPresent DEF StaleRow
  <2>3. ~GoesOn(w) /\ ~Claims(w) /\ ~LetsGo(w) /\ \A i \in Job : ~ReadsOwn(w, i)
    BY <1>1 DEF GoesOn, Claims, LetsGo, ReadsOwn
  <2> QED BY <2>1, <2>2, <2>3, WorkerChanges DEF WorkerChange
<1>2. ASSUME NEW c \in Client, ask'[c].pc = "rearms" PROVE job'[ask'[c].job].status # "ABSENT"
  <2>1. CASE ask'[c] = ask[c]
    <3>1. ask[c].job \in Job /\ job[ask[c].job].status # "ABSENT"
      BY <1>2, <2>1 DEF PresentInv, TypeInv, HasJob
    <3> QED BY <2>1, <3>1, StaysPresent
  <2>2. ASSUME NEW i \in Job, job[i].status = "FAILED",
               ask'[c] = [pc |-> "rearms", job |-> i, write |-> NetChange(Armed, job[i])]
        PROVE  job'[ask'[c].job].status # "ABSENT"
    <3>1. job'[i].status # "ABSENT"
      BY <2>2, StaysPresent
    <3>2. ask'[c].job = i
      BY <2>2
    <3> QED BY <3>1, <3>2
  <2> QED BY <1>2, <2>1, <2>2, AskChanges DEF AskChange
<1> QED BY <1>1, <1>2 DEF PresentInv, WriteOf

\* A request that ended holds nothing.
IdleAsks == \A c \in Client : ask[c].pc = "idle" => ask[c] = NotAsking

LEMMA IdleStep == TypeInv /\ IdleAsks /\ [QueueNext]_queueVars => IdleAsks'
<1> SUFFICES ASSUME TypeInv, IdleAsks, [QueueNext]_queueVars, NEW c \in Client, ask'[c].pc = "idle"
             PROVE  ask'[c] = NotAsking
  BY DEF IdleAsks
<1>1. ASSUME EnqueueReads(c) PROVE FALSE
  <2>1. CASE Asked(c) = {}
    BY <1>1, <2>1 DEF EnqueueReads, TypeInv, TypeOK
  <2>2. ASSUME NEW j \in Asked(c), ask' = [ask EXCEPT ![c] = Answer(j)] PROVE FALSE
    <3>1. j \in Job /\ job[j] \in Row /\ job[j].status # "ABSENT" /\ ask'[c] = Answer(j)
      BY <2>2 DEF Asked, RowsOf, TypeInv, TypeOK
    <3>2. CASE job[j].status \in Active
      BY <3>1, <3>2 DEF Answer, Active
    <3>3. CASE job[j].status = "FAILED"
      BY <3>1, <3>3 DEF Answer, Active
    <3>4. CASE job[j].status = "COMPLETED"
      BY <3>1, <3>4 DEF Answer, Active
    <3> QED BY <3>1, <3>2, <3>3, <3>4 DEF Row, Status, Active
  <2> QED BY <1>1, <2>1, <2>2 DEF EnqueueReads
<1> QED BY <1>1, AskSteps DEF IdleAsks
=============================================================================
