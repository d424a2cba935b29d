SPECIFICATION Spec
CONSTANTS
  Keys = {"k1"}
  Requests = {"r1", "r2"}
  Tabs = {"t1", "t2"}
  Values = {"plain", "secret"}
  CallsPerTab = 1
  MaxStarts = 3
  FreeWhileRunning = FALSE
  ExpireWhileRunning = FALSE
  StorageCanFail = FALSE
  Digest <- MCDigest
INVARIANTS
  ServesOnce
