SPECIFICATION Spec
CONSTANTS
  Requests = {r1, r2}
  Tabs = {t1}
  Calls = {}
  MinPort = 1
  MaxPort = 4
  ForeignPorts = {2}
  None = None
SYMMETRY RequestSymmetry
INVARIANTS
  AssignedPortsDistinct
CHECK_DEADLOCK FALSE
