SPECIFICATION FairWorkerSpec
CONSTANTS
    MaxCalls = 2
    MaxDeaths = 1
    MaxFailedSaves = 0
CHECK_DEADLOCK FALSE
PROPERTIES
    EveryWaitEnds
