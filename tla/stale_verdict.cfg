SPECIFICATION PhasesSpec
CONSTANTS
    MaxPasses = 2
    LastCrashPass = 2
    MaxRetries = 0
    MaxQueue = 1
    MaxTurns = 1
CHECK_DEADLOCK FALSE
INVARIANTS
    VerifiedBeforeMerge
