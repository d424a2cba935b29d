SPECIFICATION RecoverySpec
CONSTANTS
  NSteps = 3
  Runners = {r1}
  ActMidRun = FALSE
  DispatchKeys = {k1, k2}
  MaxDispatchAttempts = 2
  Drivers = {d1, d2}
  RunTwice = FALSE
  MaxDriverDeaths = 2
  NRecords = 2
  Declined = {2}
  BatchSize = 1
  MaxFailures = 0
  Operators = {o1, o2}
  MaxRevision = 3
  Hooks <- MCHooks
  Questions = {q1, q2}
  Networks = {n1, n2}
  HookCalls = {c1, c2}
  LastPage = 1
  TestNetwork = n1
  Accounts = {a1, a2}
  HistoryPages = 2
  LastPageFull = TRUE
  Filters = {f}
  BrowserCalls = {c1, c2}
INVARIANTS
  CalledInOrder
  DoneStaysDone
  NothingPassedOver
  ShowsWhatWasAsked
  BrowserShowsAsked
PROPERTIES
  NeverRecalled
  EveryOperationCloses
CHECK_DEADLOCK FALSE
