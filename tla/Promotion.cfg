SPECIFICATION FairSpec
CONSTANTS
    b1 = b1
    b2 = b2
    Builds <- MCBuilds
    Old = b1
    New = b2
    AnyVersion = any
    NoBuild = none
    NumServices = 2
    NegServices <- MCNegServices
    LostAnswers <- MCLostAnswers
    PrepWindow = 2
    Grace = 1
    MaxTime = 2
    Capacity = 2
    ChartMin = 1
    MaxRuns = 2
    MaxFaults = 1
INVARIANTS
    AlwaysABackend
    CleanExit
    ForwardingHonoured
PROPERTIES
    CleanupSparesServing
    StandbyRetired
CHECK_DEADLOCK FALSE
