\* a fault may leave the job or its Workflow behind for good: see the liveness runs
SPECIFICATION FairSpec
CONSTANTS
  Budgets <- LastResortBudgets
  StrictWebhook = TRUE
  EpilogTimeout = TRUE
  Timers = {}
INVARIANTS
  FinalizerUntilTeardown
  CacheForgotten
PROPERTIES
  JobEnds
CHECK_DEADLOCK FALSE
