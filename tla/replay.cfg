SPECIFICATION FairSpec
CONSTANTS
  File <- MCFile
  MaxPasses = 2
  QueueSize = 1
  RingSize = 2
  ImuInterval = 1
  MaxMetadata = 2
INVARIANTS
  TypeOK
  StampKeepsUp
PROPERTIES
  PublishedInOrder
  UnloadReturns
  ReplacementEnds
CHECK_DEADLOCK FALSE
