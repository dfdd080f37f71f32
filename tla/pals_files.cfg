SPECIFICATION Spec
CONSTANTS
  Versions = {1, 5, 42}
  Nodelists <- MCNodelists
  Taskmaps <- MCTaskmaps
  Jobspecs <- MCJobspecs
  Paths <- MCPaths
  PmiDir = "pmi"
INVARIANTS
  FileDecodes
  DescribesJob
  NoFluxPmi
