SPECIFICATION Spec
CONSTANTS
    f1 = f1
    f2 = f2
    Features <- MCFeatures
    DependsOn <- Independent
    PlannerEdges <- LateEdge
    ManualPosition <- SecondPlaced
    SkipSummary = FALSE
    MaxEntries = 2
    MaxCrashes = 1
CHECK_DEADLOCK FALSE
INVARIANTS
    TypeOK
    AtMostOneIntegrating
    TrainAwaitsMerge
PROPERTIES
    ReentryGoesFirst
    QueuedAfterDependencies
