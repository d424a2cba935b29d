SPECIFICATION Spec
CONSTANTS
  MaxJobs = 2
  Operations = {op1}
  DedupeKeys = {k1}
  NoKey = NoKey
  Budgets = {2}
  MaxRetries = 1
  MaxDepth = 3
  MaxOverlap = 2
  MaxDrains = 0
  ReentrantHandlers = FALSE
  ReprocessRunning = FALSE
  ResetWhileStopping = FALSE
INVARIANTS
  OneHandlerPerJob
  WithinBudget
PROPERTIES
  ReportSound
  NoSuccessAfterAbort
  ImplementsBoard
