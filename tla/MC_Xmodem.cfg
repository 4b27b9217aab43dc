SPECIFICATION FairSpec
CONSTANTS
  Sizes = {0, 1, 5, 8, 9}
  BlockSize = 2
  Modulus = 4
  MaxRetries = 2
  MaxTries = 2
  MaxFaults = 3
INVARIANTS
  TypeOK
  DeviceHasTheFile
  SavedIsTheFile
PROPERTIES
  SessionEnds
CHECK_DEADLOCK FALSE
