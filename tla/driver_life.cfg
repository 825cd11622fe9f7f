SPECIFICATION FairSpec
CONSTANT MaxStarts = 3
INVARIANTS
    TypeOK
    PublishersOutliveScans
    ReplacedAtRest
PROPERTY UnloadReturns
CHECK_DEADLOCK FALSE
