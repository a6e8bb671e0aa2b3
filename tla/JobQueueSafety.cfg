\* Two workers, a request at a time, and a key with two rows that recovery sweeps.
SPECIFICATION QueueSafety
CONSTANTS
  document = document
  post = post
  j1 = j1
  j2 = j2
  j3 = j3
  c1 = c1
  Job <- DocumentJob
  Key <- DocumentKey
  KeyOf <- DocumentKeyOf
  SweptKey <- DocumentSweptKey
  Client = {c1}
  AsksFor <- DocumentAsksFor
  Worker = {w1, w2}
  NoWorker = NoWorker
  NoJob = NoJob
  MaxAttempts = 2
  MaxFaults = 1
SYMMETRY Symmetry
INVARIANTS
  TypeOK
  OneActivePerKey
  FailedOnlyWhenExhausted
  LiveLeaseIsWorked
PROPERTIES
  CompletedForGood
  AttemptsRestartOnlyByRequest
