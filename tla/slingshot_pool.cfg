\* the jobs of the plugin alone end in INACTIVE
SPECIFICATION PluginSpec
CONSTANTS
  Jobs = {j1, j2, j3}
  ValidVnis <- MCValidVnis
  MaxVnis = 2
  Requests <- AllRequests
  Configs <- AllConfigs
  Budgets <- PoolFaults
  CarefulAdmin = TRUE
SYMMETRY JobSymmetry
INVARIANTS
  PluginTypeOK
  UniqueVnis
  NoVniLost
PROPERTIES
  RoundRobin
  VnisAreAllocated
CHECK_DEADLOCK FALSE
