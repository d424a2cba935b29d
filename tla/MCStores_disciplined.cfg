INIT StoresInit
NEXT StoresNext
CONSTANTS
  t1 = t1
  t2 = t2
  t3 = t3
  ann = ann
  bob = bob
  eve = eve
  org = org
  p1 = p1
  c1 = c1
  c2 = c2
  TicketIds = {t1, t2, t3}
  Addresses = {ann, bob, eve, org}
  Blacklist = {eve}
  Reviewers = {org}
  IssueTo = {bob, eve}
  Capacity = 2
  TransferRequests <- MCRequests
  SafeRequests <- MCSafeRequests
  SeedTickets <- MCSeeds
  ReuseTicketIds = FALSE
  Proposals = {p1}
  Resources = {t1}
  Parties = {ann, bob}
  TransferKeys = {}
  Callers = {c1, c2}
  MaxCommitAttempts = 2
  AcceptAlone = TRUE
  MaxCommits = 4
  MaxJobs = 3
  Operations = {g1, o1}
  DedupeKeys = {k1}
  NoKey = NoKey
  Gated = {g1}
  Ceiling = 2
  Capacity0 = 1
  Policy = "drop_oldest"
  CanLower = TRUE
  BypassGate = FALSE
  MaxWaiters = 1
  Principals = {p1, p2}
  QuotaLimit = 2
  GlobalLimit = 3
  Costs = {1, 2}
  OverrideLimits = {0, 3}
  Reentry = "foreign"
  MaxQuotaCalls = 3
  CacheKeys = {x1, x2}
  MaxEntries = 1
  Loads = {l1, l2}
  MaxSourceVersion = 2
  Bodies = {b1, b2}
  LedgerLimit = 2
  MaxSeq = 3
  MaxNow = 1
  MaxDamages = 1
  Groups = {d1, d2, d3}
  Tabs = {t1}
  SaveRefused = FALSE
SYMMETRY Symmetric
INVARIANTS
  OwnershipChain
  
  AuditExplains
  FreshAfterInvalidate
  UndamagedVerifies
PROPERTIES
  ReviewsHold
  TicketSpec
  NeverOverfilled
  SpendsAreCounted
  
CHECK_DEADLOCK FALSE
