SPECIFICATION Spec
CONSTANTS
  Jobs = {j1, j2}
  ValidVnis <- MCValidVnis
  MaxVnis = 2
  Requests <- OneVni
  Configs <- NarrowPools
  Budgets <- NoFaults
  CarefulAdmin = TRUE
  Devices = {d1}
  Owner <- MCOwner
INVARIANTS
  NoReuseBeforeDestruction
