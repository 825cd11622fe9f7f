SPECIFICATION FairSpec
CONSTANTS
    Configs = {c1, c2}
    c1 = c1
    c2 = c2
    Multicast = {c2}
    AutoDest <- MCAutoDest
    NoConfig = none
    MaxAttempts = 1
    MaxPollErrors = 1
    MaxReadErrors = 0
    MaxCalls = 1
    MaxReinits = 2
    PowerCycles = TRUE
INVARIANTS
    TypeOK
    StartAlone
    ClientAlive
    GiveUpJustified
    AttemptsBounded
    ConnectedConfig
    NoSelfInflictedReset
PROPERTIES
    MissedOnlyOnce
    Recovers
    JoinReturns
CHECK_DEADLOCK FALSE
