SPECIFICATION FairSpec
CONSTANTS
  FileSizes = {0, 1, 5}
  ChunkSize = 2
  Concurrency = 2
  None = None
INVARIANTS
  TypeOK
  RequestsApart
  WritesOwnData
  ReportedClosesOnce
PROPERTIES
  ImplementsFileCopy
  KnownHandlesClosed
  Settles
CHECK_DEADLOCK FALSE
