SPECIFICATION FairSpec
CONSTANTS
  Budgets <- LiveBudgets
  StrictWebhook = TRUE
  EpilogTimeout = FALSE
  Timers = {"setup", "prerun", "postrun", "teardown_after"}
PROPERTIES
  JobEnds
  NoOrphan
  PrologReleased
