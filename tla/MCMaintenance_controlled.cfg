INIT MaintenanceInit
NEXT MaintenanceNext
CONSTANTS
  Worlds <- MCWorlds
  DropDuplicates = FALSE
  MaxMoves = 1
  Rows = {1, 2, 3, 4}
  ReservedRows = {2}
  PageSize = 2
  ChunkSize = 2
  QuotaLimit = 3
  MaxChanges = 2
  Ids = {1, 2}
  ArchValues = {"a", "broken"}
  Broken = {"broken"}
  MaxSchema = 2
  MaxLedger = 1
  MaxWrites = 2
  Texts <- MCTexts
  DataSets <- MCDataSets
  MaxRetries = 1
  MaxRuns = 2
  Subjects = {"low", "high"}
  Bucket <- MCBucket
  Configs <- MCConfigs
  FlagDefault = TRUE
  Env = "unset"
  Guards = {"g1"}
  ConsecutiveLimit = 2
  MinSamples = 2
  Threshold = 50
  MaxReports = 3
  Published = {"api"}
  Internal = {"db"}
  LastInstant = 2
  HistoryMs = 1
INVARIANTS
  
  
  PulledStaysOff
PROPERTIES
  RepairsAreJustified
  
  
  StatusIsTold
CHECK_DEADLOCK FALSE
