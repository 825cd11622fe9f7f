SPECIFICATION Spec
CONSTANTS
    Configs = {c1, c2}
    c1 = c1
    c2 = c2
    Multicast = {c2}
    AutoDest <- MCAutoDest
    NoConfig = none
    MaxAttempts = 1
    MaxPollErrors = 1
    MaxReadErrors = 1
    MaxCalls = 1
    MaxReinits = 1
    PowerCycles = FALSE
INVARIANTS
    PersistHonoured
CHECK_DEADLOCK FALSE
