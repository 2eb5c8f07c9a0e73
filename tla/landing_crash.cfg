SPECIFICATION IntegrationSpec
CONSTANTS
    f1 = f1
    f2 = f2
    nobody = nobody
    NoFeature <- nobody
    Features <- MCFeatures
    DependsOn <- Independent
    PlannerEdges <- NoEdges
    ManualPosition <- NoPositions
    SkipSummary = FALSE
    MaxEntries = 1
    MaxCrashes = 1
    MaxRevisions = 1
    MaxPushes = 1
    MaxGitErrors = 1
CHECK_DEADLOCK FALSE
INVARIANTS
    IntegrationTypeOK
    LandedAsVerified
    MergedIsOnMain
    MarkerFollowsTrain
PROPERTIES
    MainOnlyGrows
    StepsAreLifecycleSteps
