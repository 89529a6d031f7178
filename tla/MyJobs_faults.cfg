SPECIFICATION Spec
CONSTANTS
  w1 = w1
  w2 = w2
  n1 = n1
  MaxJobs = 2
  Workers = {w1, w2}
  Names = {n1}
  QNames = {"qa"}
  Clients = {}
  Timeouts = {FALSE}
  MaxFaults = 1
  MaxStarts = 0
SYMMETRY Symmetry
CHECK_DEADLOCK FALSE
INVARIANT TypeOK DependencyOrder NoSilentLoss PostedOncePerRun ResultsPosted
PROPERTY ServesJobs
