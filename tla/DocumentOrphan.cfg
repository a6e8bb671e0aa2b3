\* A web upload, one worker, one retry request.
SPECIFICATION LifeSpec
CONSTANTS
  d1 = d1
  p1 = p1
  p2 = p2
  q1 = q1
  up = up
  ap = ap
  Doc = {d1}
  HermesDoc = {}
  Key <- MCKey
  SweptKey <- MCSweptKey
  Job <- MCJob
  KeyOf <- MCKeyOf
  Client = {up, ap}
  AsksFor <- MCAsksFor
  Worker = {w1}
  NoWorker = NoWorker
  NoJob = NoJob
  MaxAttempts = 1
  MaxFaults = 0
  Content = {safe, other}
  NoContent = NoContent
  AutoSafe = {safe}
  Supported = {safe, other}
  Unseen = Unseen
  MaxRetries = 1
PROPERTY OrphanIsRecovered
