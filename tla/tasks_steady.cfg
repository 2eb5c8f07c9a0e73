SPECIFICATION FairTasksSpec
CONSTANTS
    t1 = t1
    t2 = t2
    p1 = p1
    nobody = nobody
    NoRun <- nobody
    Runs <- MCTasks
    Paths <- MCPaths
    Order <- InOrder
    Deps <- Independent
    Reserved <- NothingReserved
    Slots <- OneSlot
    MaxConcurrency = 2
    RetryCap = 1
    MaxSquashRetries = 2
    MaxLateReads = 0
    MaxAsks = 0
    Askers <- OnlyFirst
    MaxClaims = 2
    MaxTimeouts = 0
    MaxCrashes = 0
    MaxGitErrors = 0
    MaxCancels = 0
    MaxFaults = 0
CHECK_DEADLOCK FALSE
INVARIANTS
    TasksTypeOK
    ExclusiveWriters
    RunningTasksAttended
PROPERTIES
    LocksAreMutex
    ClaimsAnswered
    RetryWaitEnds
