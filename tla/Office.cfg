SPECIFICATION Spec
CONSTANTS
  Asset = {1, 2}
  Date = {1, 2, 3, 4}
  MonthOf <- MCMonthOf
  ClosedMonth = {3}
  Cost <- MCCost
  AvailableFrom <- MCAvailableFrom
  Salvages = {0, 1}
  Lives = {2}
  Statuses = {"ACTIVE"}
  Session = {s1, s2}
  MaxAttempts = 3
  MaxRequests = 4
  i1 = i1
  i2 = i2
  j1 = j1
  v1 = v1
  v2 = v2
  t1 = t1
  r1 = r1
  a1 = a1
  Import = {i1, i2}
  AccountOf <- MCAccountOf
  Line = {1, 2, 3, 4}
  LineOf <- MCLineOf
  Face = {j1, v1, v2, t1}
  FaceOf <- MCFaceOf
  NoReference = none
  Clerk = {c1, c2}
  MaxUploads = 2
  MaxMatches = 3
  Order <- MCOrder
  Day = {1, 2}
  YearStart <- MCYearStart
  Project = {"p1"}
  PaymentAccount = {"bank", "kas"}
  NewAccounts <- MCNewAccounts
  Retired = {6107}
  MaxEntries = 3
  kas = kas
  bca = bca
  Party = {1, 2, 3}
  RolesOf <- MCRolesOf
  Target = {11, 12, 21, 22, 23}
  About <- MCAbout
  Document <- MCDocument
  Blank = blank
  Instalments = {3}
  MaxChanged = 1
INVARIANTS
  OneDepreciationPerMonth
  RegisterMatchesHistory
  NumberedWithoutGap
  PassedChecksHold
  MatchedLinesAgree
  StatementsAgree
  SubledgersTie
  ProjectsTie
  
  
CHECK_DEADLOCK FALSE
