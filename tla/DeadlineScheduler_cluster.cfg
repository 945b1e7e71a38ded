SPECIFICATION Spec

CONSTANTS
    Nodes = {n1, n2}
    PoolSize = 2
    Deadlines <- OneDeadline
    Ticks = {t1, t2}
    Window = 1
    Day = 0
    Stores = {"memory", "postgres"}
    Known = {}
    MaxHolds = 3
    MaxTime = 1

INVARIANTS
    TypeOK
    AtMostOnce
    ExecutedIsEmitted
    OneNodeAtATime

SYMMETRY Interchangeable
CHECK_DEADLOCK FALSE
