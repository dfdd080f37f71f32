SPECIFICATION FairSpec
CONSTANTS
  Jobs = {j1, j2}
  Configs <- MCConfigs
  MinSize = 5
  PortBudget <- MCPortBudget
  Watched = {j1}
  Options <- MCOptions
  ShellFaults = 1
INVARIANTS
  TypeOK
  UniquePorts
  PortsComeBack
  SamePorts
  OwnBootstrap
PROPERTIES
  PortsAreAllocated
  InitEnds
