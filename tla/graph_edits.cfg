SPECIFICATION SpecPlanning
CHECK_DEADLOCK FALSE
CONSTANTS
    Starts <- StartGraphs
INVARIANTS
    GraphValid
    PreviewIsApplied
PROPERTIES
    AppliedToItsBaseline
    HeaviestChainFirst
