SPECIFICATION FairSpec
CONSTANTS
  Requests = {r1, r2}
  Tabs = {t1, t2}
  Calls = {k1}
  MinPort = 1
  MaxPort = 3
  ForeignPorts = {2}
  None = None
INVARIANTS
  TypeOK
  PendingMatchesProbes
  RegistryIsServed
  AnsweredPortIsItsOwn
PROPERTIES
  ChildrenKeepPromise
  CallIsAnswered
CHECK_DEADLOCK FALSE
