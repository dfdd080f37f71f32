SPECIFICATION Spec
CONSTANTS
  r1 = r1
  r2 = r2
  n1 = n1
  n2 = n2
  n3 = n3
  n4 = n4
  Jobs = {j1, j2}
  RabbitSeq <- MCRabbitSeq
  HostsOf <- MCHostsOf
  Excluded = {n4}
  DrainQueue = {n1, n3}
  Cases <- MCCases
  Breakdowns <- MCBreakdowns
  MinAlloc = 2
SYMMETRY MCSymmetry
INVARIANTS
  AvoidsTrouble
  AllocMarks
  StatusExact
  BreakdownsFit
CHECK_DEADLOCK FALSE
