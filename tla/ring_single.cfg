\* One element per call, as the driver writes: capacity 4 lets both indices
\* wrap independently; size_t is 4 bits wide.
SPECIFICATION Spec
CONSTANTS
    Capacity = 4
    SizeModulus = 16
    WriteCounts = {1}
    ReadCounts = {1}
INVARIANTS
    TypeOK
    NoOverrun
PROPERTIES
    ImplementsBoundedQueue
