SPECIFICATION LogSpec
CHECK_DEADLOCK FALSE
CONSTANTS
  p = p
  q = q
  Procs = {p, q}
  Batch = 2
  Keep = 1
  Drop = 0
  MaxLogs = 8
  MaxFaults = 1
INVARIANTS LogTypeOK NewestInRedis LostOnlyIfHurt WalkSees
SYMMETRY Symmetry
