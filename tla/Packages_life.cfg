SPECIFICATION Spec
CHECK_DEADLOCK FALSE
CONSTANTS
  app = app
  base = base
  one = one
  two = two
  Boot = boot
  None = None
  Pkgs = {app, base}
  Core = {base}
  Files = {one, two}
  Code <- CodeOf
  Clients = {c1, c2}
  Ops = {"install", "start", "stop", "uninstall", "disable", "enable", "reload"}
  MaxOps = 2
  MaxFaults = 1
  MaxCrash = 1
  MaxEdits = 2
INVARIANTS TypeOK DisabledStaysDown LoadedOnce RunsWithModels
PROPERTIES BootLeavesNoneBehind
SYMMETRY Symmetry
