SPECIFICATION Spec
CONSTANTS
  p1 = p1
  p2 = p2
  a = a
  b = b
  None = None
  MaxId = 2
  Names = {a, b}
  Procs = {p1, p2}
  Stor = "RDB"
  Ops = {"crash", "destroy"}
SYMMETRY Symmetry
CHECK_DEADLOCK FALSE
INVARIANT TypeOK FreshIds Consistent
