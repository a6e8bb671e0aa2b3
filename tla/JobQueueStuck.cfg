\* One worker, one job whose key recovery does not look at, one crash.
SPECIFICATION QueueSpec
CONSTANTS
  document = document
  post = post
  j1 = j1
  j2 = j2
  j3 = j3
  c1 = c1
  Job <- PostJob
  Key <- PostKey
  KeyOf <- PostKeyOf
  SweptKey <- PostSweptKey
  Client = {c1}
  AsksFor <- PostAsksFor
  Worker = {w1}
  NoWorker = NoWorker
  NoJob = NoJob
  MaxAttempts = 2
  MaxFaults = 1
PROPERTY ExpiredLeaseIsRecovered
