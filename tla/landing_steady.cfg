SPECIFICATION FairIntegrationSpec
CONSTANTS
    f1 = f1
    f2 = f2
    nobody = nobody
    NoFeature <- nobody
    Features <- MCFeatures
    DependsOn <- Independent
    PlannerEdges <- NoEdges
    ManualPosition <- NoPositions
    SkipSummary = TRUE
    MaxEntries = 2
    MaxCrashes = 0
    MaxRevisions = 2
    MaxPushes = 0
    MaxGitErrors = 1
CHECK_DEADLOCK FALSE
INVARIANTS
    NoneStranded
PROPERTIES
    FifoAmongEquals
    QueueDrains
    LandedNeverReplanned
    IntegrationEnds
