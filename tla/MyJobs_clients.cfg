SPECIFICATION Spec
CONSTANTS
  w1 = w1
  w2 = w2
  n1 = n1
  MaxJobs = 2
  Workers = {w1, w2}
  Names = {}
  QNames = {}
  Clients = {"c1"}
  Timeouts = {TRUE}
  MaxFaults = 0
  MaxStarts = 1
SYMMETRY Symmetry
CHECK_DEADLOCK FALSE
INVARIANT DependencyOrder AtMostOncePerPut
