SPECIFICATION Spec
CONSTANTS
    Aggregates = {"a1", "a2"}
    EventTypes = {"Changed"}
    Versions = {1, 2}
    Actors <- MCActors
    NoOne = "nobody"
    Causations = {"absent", "complete", "nulls"}
    Requests <- BareRequests
    Appenders = {"w1"}
    Pollers = {}
    Hashes <- MCHashes
    Digest <- MCDigest
    Genesis = 0
    MaxEvents = 2
INVARIANTS
    IntactLogVerifies
CHECK_DEADLOCK FALSE
