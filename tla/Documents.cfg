\* A Hermes upload (background task beside the job), two workers, one retry request, one fault.
SPECIFICATION Parts
CONSTANTS
  d1 = d1
  p1 = p1
  p2 = p2
  q1 = q1
  up = up
  ap = ap
  w1 = w1
  w2 = w2
  safe = safe
  other = other
  Doc = {d1}
  HermesDoc = {d1}
  Key <- MCKey
  SweptKey <- MCSweptKey
  Job <- MCJob
  KeyOf <- MCKeyOf
  Client = {up, ap}
  AsksFor <- MCAsksFor
  Worker = {w1, w2}
  NoWorker = NoWorker
  NoJob = NoJob
  MaxAttempts = 2
  MaxFaults = 1
  Content = {safe, other}
  NoContent = NoContent
  AutoSafe = {safe}
  Supported = {safe, other}
  Unseen = Unseen
  MaxRetries = 1
INVARIANTS
  DocTypeOK
  AtMostOnePosting
  PostedAfterApproval
  
PROPERTIES
  QueueSafety
  QueuedIsSettled
