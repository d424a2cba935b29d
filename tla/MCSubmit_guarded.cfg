SPECIFICATION SubmitSpec
CONSTANTS
  MaxJobs = 2
  Operations = {g1, o1}
  DedupeKeys = {d1}
  NoKey = NoKey
  Gated = {g1}
  Ceiling = 1
  Capacity0 = 1
  Policy = "drop_oldest"
  CanLower = FALSE
  BypassGate = FALSE
  MaxWaiters = 0
  SubmitKeys = {k1}
  QuotaLimit = 1
  MaxEpochs = 1
  MaxRemovals = 1
  StorageCanFail = TRUE
INVARIANTS
  OneJobPerKey
