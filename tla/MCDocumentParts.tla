-------------------------- MODULE MCDocumentParts --------------------------
(***************************************************************************)
(* The life of a document in five parts, small enough for TLC: each        *)
(* behaviour of Parts plays one of them, and in each the first worker has  *)
(* another kind of company.                                                *)
(***************************************************************************)
EXTENDS MCDocumentLifecycle

CONSTANTS w1, w2, safe, other

VARIABLE part

vars == <<part, lifeVars>>

\* The company that a part does without.
OneWorker == worker'[w2] = worker[w2]
NoBackground == bg[d1].pc = "scheduled" => bg'[d1].pc = "scheduled"
NoRetry == retries' = 0
NoFault == faults' = 0
AutoSafeOnly == doc'[d1].content # other
UserPosts == doc'[d1].content # safe
Financial == ~doc'[d1].evidence

\* Nobody looks at the document but the workers.
Unattended ==
  \/ \E w \in Worker : WorkerLoop(w) \/ WorkerFault(w)
  \/ TimeStep /\ UNCHANGED docVars
  \/ RequestStarts(up, d1) \/ RequestGoesOn(up, d1)

Init == LifeInit /\ part \in {"background task", "retry", "crash", "second worker", "user"}

Next ==
  /\ UNCHANGED part
  /\ \/ part = "background task" /\ LifeNext /\ OneWorker /\ NoRetry /\ NoFault /\ AutoSafeOnly /\ Financial
     \/ part = "retry" /\ LifeNext /\ OneWorker /\ NoBackground /\ NoFault /\ AutoSafeOnly /\ Financial
     \/ part = "crash" /\ LifeNext /\ OneWorker /\ NoBackground /\ NoRetry /\ AutoSafeOnly
     \/ part = "second worker" /\ Unattended /\ NoBackground /\ NoRetry /\ AutoSafeOnly
     \/ part = "user" /\ LifeNext /\ OneWorker /\ NoBackground /\ NoRetry /\ NoFault /\ UserPosts

\* LifeFairness, in the part of a worker that is alone, crashes and is restarted.
Fairness ==
  /\ WF_lifeVars(part = "crash" /\ WorkerLoop(w1))
  /\ \A j \in Job : /\ WF_lifeVars(part = "crash" /\ LeaseExpires(j) /\ UNCHANGED docVars)
                    /\ WF_lifeVars(part = "crash" /\ BecomesAvailable(j) /\ UNCHANGED docVars)
  /\ \A c \in Client :
       WF_lifeVars(part = "crash" /\ (RequestFails(c) \/ \E d \in Doc : RequestGoesOn(c, d)))

Parts == Init /\ [][Next]_vars /\ Fairness

\* With the one worker process that the start script runs, a QUEUED document is always settled,
\* although fail_job and recovery write what they have read before: whatever order the worker's
\* crash, its lease, its attempts and its recovery scans come in, recovery or the last attempt
\* ends the document's wait.
QueuedIsSettled == \A d \in Doc :
  part = "crash" /\ doc[d].status = "QUEUED" ~> doc[d].status # "QUEUED"
=============================================================================
