SPECIFICATION Spec
CONSTANTS
  Calls <- TwoJobCalls
  Replies <- TwoJobReplies
  Outputs = {"x"}
  MaxTurns = 3
  MaxCalls = 2
  MaxRepairs = 2
  MaxIdle = 3
  Tasks <- OneTask
  FreshIds = FALSE
  None = None
INVARIANTS
  NothingLeftRunning
CHECK_DEADLOCK FALSE
