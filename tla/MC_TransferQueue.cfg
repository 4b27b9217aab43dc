SPECIFICATION FairSpec
CONSTANTS
  Transfers = {1, 2, 3}
  Cross = {1, 2}
  MaxTransport = 1
  NoTransfer = NoTransfer
  MaxClicks = 2
INVARIANTS
  TypeOK
  PlacesKept
PROPERTIES
  NoIdlePlace
  OverLeaves
CHECK_DEADLOCK FALSE
