SPECIFICATION FairPhasesSpec
CONSTANTS
    MaxPasses = 2
    LastCrashPass = 1
    MaxRetries = 1
    MaxQueue = 2
    MaxTurns = 2
CHECK_DEADLOCK FALSE
INVARIANTS
    PhaseTypeOK
    VerifiedBeforeMerge
    RunsAttended
PROPERTIES
    PhasesMoveOn
