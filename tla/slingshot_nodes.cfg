SPECIFICATION Spec
CONSTANTS
  Jobs = {j1, j2}
  ValidVnis <- MCValidVnis
  MaxVnis = 2
  Requests <- OneOrOff
  Configs <- NarrowPools
  Budgets <- NodeFaults
  CarefulAdmin = TRUE
  Devices = {d1, d2}
  Owner <- MCOwner
CONSTRAINT NoClash
SYMMETRY JobDeviceSymmetry
INVARIANTS
  ServicesWhileRunning
  OwnServiceIds
  LingeringServiceDrains
