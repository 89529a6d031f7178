SPECIFICATION Spec
CHECK_DEADLOCK FALSE
CONSTANTS
  u1 = u1
  u2 = u2
  Users = {u1}
  Steps <- LongFlow
  MaxMoves = 3
  MaxFaults = 1
  None = None
INVARIANTS TypeOK OneGreenlet AnswersFit
