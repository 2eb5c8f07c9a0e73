SPECIFICATION TasksSpec
CONSTANTS
    t1 = t1
    t2 = t2
    p1 = p1
    nobody = nobody
    NoRun <- nobody
    Runs <- MCTasks
    Paths <- MCPaths
    Order <- InOrder
    Deps <- Independent
    Reserved <- SameReserved
    Slots <- TwoSlots
    MaxConcurrency = 1
    RetryCap = 1
    MaxSquashRetries = 1
    MaxLateReads = 1
    MaxAsks = 1
    Askers <- OnlyFirst
    MaxClaims = 0
    MaxTimeouts = 1
    MaxCrashes = 1
    MaxGitErrors = 1
    MaxCancels = 1
    MaxFaults = 1
CHECK_DEADLOCK FALSE
INVARIANTS
    OneWorkerPerTask
    RetryBounded
PROPERTIES
    LaunchWithinPool
