SPECIFICATION FairSpec
CONSTANTS
  Runs = {1, 2, 3}
  Ids = {i1, i2, i3}
  MaxJobs = 2
  None = None
INVARIANTS
  TypeOK
  RegistryHoldsRunning
  InterruptedOnce
  JobsFollowRuns
  StoppedIsNoSuccess
PROPERTIES
  Settles
CHECK_DEADLOCK FALSE
