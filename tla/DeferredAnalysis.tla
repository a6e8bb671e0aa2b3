--------------------------- MODULE DeferredAnalysis --------------------------
(***************************************************************************)
(* Analysis of a document session that the remote inbox has opened: by the *)
(* job DOCUMENT_DEFERRED_ANALYSIS that the sync queues, by anyone who asks *)
(* for it with POST /inbox/sessions/{id}/analyze, and again at will.       *)
(*                                                                         *)
(* Of the extracted data this keeps the answers that the rules ask for.    *)
(* Every session has its document, which nothing deletes.  An analysis     *)
(* reads first and commits later; nothing is locked.                       *)
(* A definition headed "Mutation" is no part of the specification.         *)
(***************************************************************************)
EXTENDS Naturals

CONSTANTS
  Analyst,     \* users of the route
  MaxAttempts, \* max_attempts of the job
  MaxFaults    \* bound: crashes of the worker

ASSUME AnalysisAssumption == MaxAttempts \in Nat \ {0} /\ MaxFaults \in Nat

VARIABLES
  caption,   \* of the message; never changes
  paper,     \* the document: UPLOADED or EXTRACTED
  facts,     \* what a reader of it finds
  verdict,   \* document_sessions.status
  evidence,  \* match_evidences: what each analysis found
  job,       \* the job's row
  worker,    \* what the worker is doing
  analyst,
  faults

analysisVars == <<caption, paper, facts, verdict, evidence, job, worker, analyst, faults>>

Facts == [confident: BOOLEAN, vendor: BOOLEAN, project: BOOLEAN]

\* A document that is not extracted: the confidence defaults to 0.85.
Blank == [confident |-> TRUE, vendor |-> FALSE, project |-> FALSE]

Idleness == [pc |-> "idle", reading |-> Blank]

(* Every variable holds what its column or local variable may hold.        *)
AnalysisTypeOK ==
  /\ caption \in {"none", "plain", "hint"}
  /\ paper \in {"UPLOADED", "EXTRACTED"}
  /\ facts \in Facts
  /\ verdict \in {"PENDING", "MATCHED", "REVIEW_REQUIRED"}
  /\ evidence \subseteq Facts
  /\ job \in [status: {"QUEUED", "RUNNING", "COMPLETED", "FAILED"}, attempts: 0..MaxAttempts]
  /\ worker \in [pc: {"idle", "analysing", "done", "raised", "dead"}, reading: Facts]
  /\ analyst \in [Analyst -> [pc: {"idle", "analysing"}, reading: Facts]]
  /\ faults \in 0..MaxFaults

\* The file may be one that another message has brought before.
AnalysisInit ==
  /\ caption \in {"none", "plain", "hint"}
  /\ \/ paper = "UPLOADED" /\ facts = Blank
     \/ paper = "EXTRACTED" /\ facts \in Facts
  /\ verdict = "PENDING"
  /\ evidence = {}
  /\ job = [status |-> "QUEUED", attempts |-> 0]
  /\ worker = Idleness
  /\ analyst = [a \in Analyst |-> Idleness]
  /\ faults = 0

-----------------------------------------------------------------------------
(* analyze_session.                                                        *)

\* What a caption hints at is evidence, and a flag all the same.
Flags(r) ==
  (IF r.confident THEN {} ELSE {"OCR_LOW_CONFIDENCE"})
    \cup (IF r.vendor THEN {} ELSE {"VENDOR_UNKNOWN"})
    \cup (IF r.project THEN {} ELSE {"PROJECT_UNKNOWN"})

Verdict(r) == IF Flags(r) = {} THEN "MATCHED" ELSE "REVIEW_REQUIRED"

\* caption.lower() of a message without caption.
Raises(r) == ~r.project /\ caption = "none"

Analysed(r) ==
  /\ ~Raises(r)
  /\ verdict' = Verdict(r)
  /\ evidence' = evidence \cup {r}

RouteReads(a) ==
  /\ analyst[a].pc = "idle"
  /\ analyst' = [analyst EXCEPT ![a] = [pc |-> "analysing", reading |-> facts]]
  /\ UNCHANGED <<caption, paper, facts, verdict, evidence, job, worker, faults>>

RouteCommits(a) ==
  /\ analyst[a].pc = "analysing"
  /\ Analysed(analyst[a].reading)
  /\ analyst' = [analyst EXCEPT ![a] = Idleness]
  /\ UNCHANGED <<caption, paper, facts, job, worker, faults>>

RouteRaises(a) ==
  /\ analyst[a].pc = "analysing"
  /\ Raises(analyst[a].reading)
  /\ analyst' = [analyst EXCEPT ![a] = Idleness]
  /\ UNCHANGED <<caption, paper, facts, verdict, evidence, job, worker, faults>>

-----------------------------------------------------------------------------
(* handle_document_deferred_analysis, under the job's lease.               *)

\* Mutation: what a dead worker held is left alone.
JobClaimableQueued == worker.pc = "idle" /\ job.status = "QUEUED"

\* A dead worker's lease expires; at the last attempt nobody claims it again.
JobClaimable ==
  \/ worker.pc = "idle" /\ job.status = "QUEUED"
  \/ worker.pc = "dead" /\ job.status = "RUNNING"

WorkerAcquires ==
  /\ JobClaimable
  /\ job.attempts < MaxAttempts
  /\ job' = [status |-> "RUNNING", attempts |-> job.attempts + 1]
  \* A document that has never been read is read first, whatever comes of it.
  /\ \E f \in IF paper = "UPLOADED" THEN Facts ELSE {facts} :
       worker' = [pc |-> "analysing", reading |-> f]
  /\ UNCHANGED <<caption, paper, facts, verdict, evidence, analyst, faults>>

\* Extraction and analysis are committed together.
WorkerCommits ==
  /\ worker.pc = "analysing"
  /\ Analysed(worker.reading)
  /\ IF paper = "UPLOADED" THEN paper' = "EXTRACTED" /\ facts' = worker.reading
                           ELSE UNCHANGED <<paper, facts>>
  /\ worker' = [worker EXCEPT !.pc = "done"]
  /\ UNCHANGED <<caption, job, analyst, faults>>

WorkerRaises ==
  /\ worker.pc = "analysing"
  /\ Raises(worker.reading)
  /\ worker' = [worker EXCEPT !.pc = "raised"]
  /\ UNCHANGED <<caption, paper, facts, verdict, evidence, job, analyst, faults>>

Outcome ==
  IF worker.pc = "done" THEN "COMPLETED"
  ELSE IF job.attempts < MaxAttempts THEN "QUEUED" ELSE "FAILED"

WorkerReports ==
  /\ worker.pc \in {"done", "raised"}
  /\ job' = [job EXCEPT !.status = Outcome]
  /\ worker' = Idleness
  /\ UNCHANGED <<caption, paper, facts, verdict, evidence, analyst, faults>>

WorkerDies ==
  /\ worker.pc \in {"analysing", "done", "raised"}
  /\ faults < MaxFaults
  /\ worker' = [Idleness EXCEPT !.pc = "dead"]
  /\ faults' = faults + 1
  /\ UNCHANGED <<caption, paper, facts, verdict, evidence, job, analyst>>

-----------------------------------------------------------------------------
\* Somebody adds the vendor or the project that the document names.
MasterDataGrows ==
  /\ paper = "EXTRACTED"
  /\ \E f \in {[facts EXCEPT !.vendor = TRUE], [facts EXCEPT !.project = TRUE]} :
       f # facts /\ facts' = f
  /\ UNCHANGED <<caption, paper, verdict, evidence, job, worker, analyst, faults>>

WorkerStep == WorkerAcquires \/ WorkerCommits \/ WorkerRaises \/ WorkerReports

AnalysisNext ==
  \/ WorkerStep \/ WorkerDies
  \/ \E a \in Analyst : RouteReads(a) \/ RouteCommits(a) \/ RouteRaises(a)
  \/ MasterDataGrows

AnalysisSafety == AnalysisInit /\ [][AnalysisNext]_analysisVars

\* The worker's loop runs and restarts; nobody has to use the route.
AnalysisFairness == WF_analysisVars(WorkerStep)

AnalysisSpec == AnalysisSafety /\ AnalysisFairness

-----------------------------------------------------------------------------
(* Properties.                                                             *)

(* A session whose message has a caption does not stay PENDING, although   *)
(* the worker dies while it has attempts left.                             *)
CaptionedIsAnalysed == caption # "none" ~> verdict # "PENDING"
=============================================================================
