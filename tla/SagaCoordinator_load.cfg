SPECIFICATION FairSpec

CONSTANTS
    Executions = {"x1"}
    NumSteps = 2
    StepResults <- AllResults
    Calls = {"c1"}
    Platforms <- ParsedJsonb
    MaxDepth = 1

PROPERTIES
    RunningIsRecovered

CHECK_DEADLOCK FALSE
