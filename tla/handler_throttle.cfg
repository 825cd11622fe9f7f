SPECIFICATION Spec
CONSTANTS
    Capacity = 4
    SizeModulus = 16
    ThrottleAbove = 2
    Processors = 1
    PacketsPerScan = 2
    MinPackets = 0
    MaxFrames = 7
    Lossy = FALSE
INVARIANTS
    ThrottleOnlyWhenFull
