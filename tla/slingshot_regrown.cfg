\* the jobs of the plugin alone end in INACTIVE
SPECIFICATION PluginSpec
CONSTANTS
  Jobs = {j1, j2, j3}
  ValidVnis <- MCValidVnis
  MaxVnis = 2
  Requests <- OneVni
  Configs <- ShrinkGrow
  Budgets <- ConfigFaults
  CarefulAdmin = FALSE
SYMMETRY JobSymmetry
INVARIANTS
  UniqueVnis
CHECK_DEADLOCK FALSE
