SPECIFICATION Spec
CONSTANTS
  Requests = {r1, r2, r3}
  Tabs = {t1}
  Calls = {}
  MinPort = 1
  MaxPort = 4
  ForeignPorts = {}
  None = None
SYMMETRY RequestSymmetry
INVARIANTS
  OneServingChildPerTab
CHECK_DEADLOCK FALSE
