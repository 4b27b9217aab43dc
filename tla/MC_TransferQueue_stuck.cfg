SPECIFICATION FairSpec
CONSTANTS
  Transfers = {1, 2}
  Cross = {1, 2}
  MaxTransport = 1
  NoTransfer = NoTransfer
  MaxClicks = 1
PROPERTIES
  QueueGoesOn
CHECK_DEADLOCK FALSE
