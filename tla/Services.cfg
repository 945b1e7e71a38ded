SPECIFICATION Spec

CONSTANTS
    Templates = {"Manager", "AssetOwner"}
    Regulations <- ModelRegulations
    BuiltInAsks <- ModelBuiltInAsks
    Parent <- ModelParents
    RealmLists = {{"undefined"}, {"Person"}}
    ContextCalls = {1}
    ContextChanges = 2

INVARIANTS
    TypeOK
    SuccessIsRecorded
    EffectsFollowCauses
    KeptUntilDeleted
    
    SubscribedIsServed

CHECK_DEADLOCK FALSE
