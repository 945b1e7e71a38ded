SPECIFICATION FairSpec

CONSTANTS
    AggregateTypes = {"Party", "Asset"}
    EntityIds = {"x"}
    EventTypes = {"Created", "Updated"}
    Versions = {1, 2}
    Subscribers = {"s1"}
    Filters <- MCFilters
    Hashes <- MCHashes
    Digest <- MCDigest
    Genesis = 0
    MaxEvents = 3

INVARIANTS
    TypeOK
    GaplessSequence
    EveryRangeVerifies
    IndexAgreesWithLog
    TamperEvident
    SubscribersMissNothing

PROPERTIES
    ImplementsLedger
    QueuesDrain

CHECK_DEADLOCK FALSE
