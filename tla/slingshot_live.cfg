SPECIFICATION FairSpec
CONSTANTS
  Jobs = {j1, j2}
  ValidVnis <- MCValidVnis
  MaxVnis = 2
  Requests <- OneVni
  Configs <- SmallPool
  Budgets <- LiveFaults
  CarefulAdmin = FALSE
  Devices = {d1}
  Owner <- MCOwner
PROPERTIES
  CleanedOrDrained
