SPECIFICATION FairSpec
CONSTANTS
  Calls = {1, 2, 3}
  NoRun = NoRun
  MaxMishaps = 1
  MaxCancels = 1
INVARIANTS ApprovalSingleUse OneActiveExecutor
PROPERTIES FinishedStays ImplementsExecutionLock RunningEnds
CHECK_DEADLOCK FALSE
