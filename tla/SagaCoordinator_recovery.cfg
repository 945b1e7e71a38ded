SPECIFICATION Spec

CONSTANTS
    Executions = {"x1"}
    NumSteps = 2
    StepResults <- SomeResults
    Calls = {c1, c2}
    Platforms <- AllPlatforms
    MaxDepth = 2

INVARIANTS
    TypeOK
    StepsInOrder
    RecordedStepsUndone

SYMMETRY Interchangeable
CHECK_DEADLOCK FALSE
