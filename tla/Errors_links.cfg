SPECIFICATION Spec
CHECK_DEADLOCK FALSE
CONSTANTS
  p = p
  q = q
  Procs = {p, q}
  Batch = 1
  Keep = 1
  Drop = 0
  Callers = {p, q}
  MaxLogs = 3
  MaxFaults = 1
  AppErrors = {e}
  DumpError = d
  Msgs = {e, d}
  MaxAlerts = 3
  MaxRaise = 2
  MaxDelete = 1
  None = None
INVARIANTS LinkResolves
SYMMETRY Symmetry
