INIT PartiesInit
NEXT PartiesNext
CONSTANTS
  Proposals = {p1, p2}
  Resources = {t1, t2}
  Parties = {a, b}
  TransferKeys = {k1}
  Intents = {i1, i2}
  Maintainers = {m1, m2}
  Executions = {e1, e2}
  Thresholds = {1, 2}
  SessionIds = {s1}
  Devices = {d1, d2, d3}
  Users = {u}
  StateKeys = {key}
  StateValues = {x, y}
  MaxDevices = 2
  PrimaryStrategy = "most-recent"
  ConflictStrategy = "last-write-wins"
  SyncTies = FALSE
  StaleAfter = 1
  MaxClock = 2
  MaxTokens = 3
  Grants = {g1, g2}
  Grantors = {giver}
  Grantees = {taker}
  MaxRenewals = 2
  NEvents = 2
  Poison = {2}
  ReplayBatch = 2
  Versions = {1, 2}
  RunOptions <- MCRunOptions
  Replays = {r1, r2}
SYMMETRY Alike
INVARIANTS
  OnePending
  HandledOnce
  
  ChangesAreRecorded
  ProjectionIsPrefix
CHECK_DEADLOCK FALSE
