SPECIFICATION FairCrossSpec
CONSTANTS
    f1 = f1
    f2 = f2
    t1 = t1
    t2 = t2
    t3 = t3
    p1 = p1
    None = None
    Tasks <- ThreeTasks
    Features <- TwoFeatures
    Paths <- OnePath
    FeatureOf <- TwoInSecond
    Wants <- FirstTwoMeet
    Reserved <- FirstTwoMeet
    DependsOn <- Unrelated
    Age <- ByName
    MaxClaims = 2
    MaxReplans = 1
    MaxFaults = 1
    MaxTurns = 3
CHECK_DEADLOCK FALSE
INVARIANTS
    CrossTypeOK
    SecondaryPaused
    SuspendedAreBlocked
PROPERTIES
    OverlapsCoordinated
    BlockedUntilLanded
    LandingReleases
