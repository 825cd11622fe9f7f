SPECIFICATION Spec
CONSTANTS
    Width = 4
    Spacing = 4
    Offset <- MCOffset
    Clocks = {2, 40}
    LoseFrames = TRUE
    MaxFrames = 4
INVARIANTS
    TypeOK
    ExactWhenConsecutive
    BetweenNeighbours
CHECK_DEADLOCK FALSE
