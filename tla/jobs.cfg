CONSTANTS
  r1 = r1
  r2 = r2
  Execs = {r1, r2}
  Runs = {r1, r2}
  EffortOf <- MCEffortOf
  EFFORT_RETRY_LIMITS <- MCLimits
  WithSession <- MCWithSession
  MaxConcurrentRuns = 1
  Attempts = 2
  MaxStarted = 2
  Concurrency = 2
  MaxInflight = 1
  MaxRollbackRuns = 1
  MaxCrashes = 1
SPECIFICATION JobsSpec
INVARIANT JobsTypeOK
INVARIANT DraftBudget
INVARIANT ListenersOfLiveRuns
INVARIANT PressureBalanced
INVARIANT DeadLettersFinal
PROPERTY OnlyLiveRunsStage
PROPERTY SlotsReturn
PROPERTY JobsSettle
CHECK_DEADLOCK FALSE
