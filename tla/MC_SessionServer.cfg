SPECIFICATION FairSpec
CONSTANTS
  Files = {f1}
  Slots = {1, 2}
  MaxOutput = 3
INVARIANTS
  TypeOK
  Reachable
  OutputInOrder
PROPERTIES
  ImplementsSessionChild
  EndsReachTheClient
CHECK_DEADLOCK FALSE
