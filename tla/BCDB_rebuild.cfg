SPECIFICATION Spec
CONSTANTS
  p1 = p1
  p2 = p2
  a = a
  b = b
  None = None
  MaxId = 3
  Names = {a, b}
  Procs = {p1}
  Stor = "RDB"
  Ops = {"crash", "rebuild", "model_rebuild", "destroy"}
CHECK_DEADLOCK FALSE
INVARIANT IndexAgrees
PROPERTY RebuildRestores
