SPECIFICATION FairSpec
CONSTANTS
  Keys = {"k1"}
  Requests = {"r1", "r2"}
  Tabs = {"t1", "t2"}
  Values = {"plain", "unwritable"}
  CallsPerTab = 1
  MaxStarts = 3
  FreeWhileRunning = TRUE
  ExpireWhileRunning = TRUE
  StorageCanFail = TRUE
  Digest <- MCDigest
PROPERTIES
  OutcomeIsFinal
  EveryClaimEnds
