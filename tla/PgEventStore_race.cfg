SPECIFICATION FairSpec

CONSTANTS
    Aggregates = {"a1", "a2"}
    EventTypes = {"Changed"}
    Versions = {1, 2}
    Actors <- MCActors
    NoOne = "nobody"
    Causations = {"absent", "complete", "nulls"}
    Requests <- PlainRequests
    Appenders = {"w1", "w2"}
    Pollers = {"p1"}
    Hashes = {0}
    Digest <- FlatDigest
    Genesis = 0
    MaxEvents = 3

INVARIANTS
    TypeOK
    VersionsSequential
    PollersMissNothing

PROPERTIES
    ImplementsLedger
    PollersCatchUp

CHECK_DEADLOCK FALSE
