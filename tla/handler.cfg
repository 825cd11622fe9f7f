SPECIFICATION FairSpec
CONSTANTS
    Capacity = 4
    SizeModulus = 16
    ThrottleAbove = 2
    Processors = 2
    PacketsPerScan = 2
    MinPackets = 2
    MaxFrames = 5
    Lossy = TRUE
INVARIANTS
    TypeOK
    WriterElsewhere
    RingNeverRefuses
    StampNeverEarlier
PROPERTIES
    ImplementsScanQueue
    ScansLeave
    DestructorReturns
    PacketThreadReturns
