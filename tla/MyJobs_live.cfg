SPECIFICATION FairSpec
CONSTANTS
  w1 = w1
  w2 = w2
  n1 = n1
  MaxJobs = 3
  Workers = {w1, w2}
  Names = {}
  QNames = {}
  Clients = {}
  Timeouts = {FALSE}
  MaxFaults = 0
  MaxStarts = 0
CHECK_DEADLOCK FALSE
PROPERTY EveryJobFinishes ServesJobsFairly
INVARIANT DependencyOrder
