SPECIFICATION WorkerSpec
CONSTANTS
    MaxCalls = 3
    MaxDeaths = 2
    MaxFailedSaves = 1
CHECK_DEADLOCK FALSE
INVARIANTS
    AnswersKept
