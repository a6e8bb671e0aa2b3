\* The intake of Intake.cfg, a crash or a failed send among the rest.
SPECIFICATION Spec
CONSTANTS
  m1 = m1
  m2 = m2
  f1 = f1
  c1 = c1
  c2 = c2
  o1 = o1
  w1 = w1
  w2 = w2
  p1 = p1
  Message = {m1, m2}
  Barred = {}
  BadMedia = {m2}
  File = {f1}
  NoFile = none
  FileOf <- MCFileOf
  Client = {c1, c2}
  Operator = {o1}
  Deployments <- MCDeployments
  Limit = 2
  MaxCrashes = 1
  Wamid = {w1, w2}
  Phone = {p1}
  SentBy <- MCSentBy
  KindOf <- MCKindOf
  At <- MCAt
  Handler = {h1, h2}
  Notifier = {n1, n2}
  NoWamid = none
  Quiet = 1
  HardMax = 2
  Slack = 0
  LateWindow = 5
  Horizon = 2
  MaxTrouble = 1
  MaxBatches = 1
  Analyst = {a1}
  MaxAttempts = 3
  MaxFaults = 2
INVARIANT
  OneAckPerSession
CHECK_DEADLOCK FALSE
