SPECIFICATION Spec
CONSTANTS
  w1 = w1
  w2 = w2
  n1 = n1
  MaxJobs = 1
  Workers = {w1}
  Names = {}
  QNames = {}
  Clients = {"c1"}
  Timeouts = {TRUE}
  MaxFaults = 0
  MaxStarts = 0
CHECK_DEADLOCK FALSE
PROPERTY OkIsFinal
