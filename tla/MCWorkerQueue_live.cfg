SPECIFICATION PlatformSpec
CONSTANTS
  MaxJobs = 2
  Operations = {op1}
  DedupeKeys = {}
  NoKey = NoKey
  Budgets = {2}
  MaxRetries = 0
  MaxDepth = 3
  MaxOverlap = 2
  MaxDrains = 0
  ReentrantHandlers = FALSE
  ReprocessRunning = FALSE
  ResetWhileStopping = FALSE
PROPERTIES
  EveryJobSettles
