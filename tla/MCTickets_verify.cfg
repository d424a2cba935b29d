\* Does what the mutations make pass the code's own verifier?
SPECIFICATION CommitSpec
CONSTANTS
  t1 = t1
  t2 = t2
  t3 = t3
  ann = ann
  bob = bob
  eve = eve
  org = org
  p1 = p1
  c1 = c1
  c2 = c2
  TicketIds = {t1, t2, t3}
  Addresses = {ann, bob, eve, org}
  Blacklist = {eve}
  Reviewers = {org}
  IssueTo = {bob, eve}
  Capacity = 2
  TransferRequests <- MCRequests
  SafeRequests <- MCSafeRequests
  SeedTickets <- MCSeeds
  ReuseTicketIds = FALSE
  Proposals = {p1}
  Resources = {t1}
  Parties = {ann, bob}
  TransferKeys = {}
  Callers = {c1, c2}
  MaxCommitAttempts = 2
  AcceptAlone = TRUE
  MaxCommits = 4
SYMMETRY Symmetric
INVARIANT StateVerifies
CHECK_DEADLOCK FALSE
