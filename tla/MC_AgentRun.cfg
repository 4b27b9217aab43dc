SPECIFICATION FairSpec
CONSTANTS
  Calls <- MixedCalls
  Replies <- MixedReplies
  Outputs = {"x"}
  MaxTurns = 3
  MaxCalls = 2
  MaxRepairs = 1
  MaxIdle = 2
  Tasks <- MixedTasks
  FreshIds = TRUE
  None = None
INVARIANTS
  TypeOK
  FinalIsBacked
  ToolsAnswered
  WithinLimits
  NothingLeftRunning
PROPERTIES
  OverIsFinal
  DeletesWait
  StopSettles
CHECK_DEADLOCK FALSE
