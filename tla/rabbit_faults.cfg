\* a fault may leave the job or its Workflow behind for good: see the liveness runs
SPECIFICATION Spec
CONSTANTS
  Budgets <- FaultsBudgets
  StrictWebhook = TRUE
  EpilogTimeout = TRUE
  Timers = {"postrun", "teardown_after"}
INVARIANTS
  TypeOK
  StorageWhileRunning
  CleanEpilogMeansTornDown
  PerilogsBalanced
  OneEpilogPerJob
PROPERTIES
  OnlyTeardownAfterToredown
CHECK_DEADLOCK FALSE
