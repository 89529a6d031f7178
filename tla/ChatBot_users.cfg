SPECIFICATION FairSpec
CHECK_DEADLOCK FALSE
CONSTANTS
  u1 = u1
  u2 = u2
  Users = {u1, u2}
  Steps <- ShortFlow
  MaxMoves = 1
  MaxFaults = 0
  None = None
INVARIANTS OwnMessages
PROPERTIES Completes
