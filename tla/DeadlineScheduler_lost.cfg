SPECIFICATION Spec

CONSTANTS
    Nodes = {"n1"}
    PoolSize = 1
    Deadlines <- OneDeadline
    Ticks = {"t1"}
    Window = 1
    Day = 0
    Stores = {"postgres"}
    Known = {}
    MaxHolds = 3
    MaxTime = 1

INVARIANTS
    ProcessedIsEmitted

CHECK_DEADLOCK FALSE
