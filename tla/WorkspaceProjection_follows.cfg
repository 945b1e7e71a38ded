SPECIFICATION FairSpec

CONSTANTS
    Processes = {"p1"}
    Jobs = {"j1", "j2"}
    Workspaces = {"w"}
    Files = {"f"}
    None = "none"
    EventTypes = {"FileUploaded", "FileModified", "FileDeleted", "WorkspaceCreated", "FunctionRegistered", "FunctionExecuted"}
    Payloads = {"declared", "emitted"}
    MaxVersion = 11110
    MaxLog = 4
    MaxDisturbances = 2

INVARIANTS
    TypeOK
    FollowsLog
    FilesFollowLog

PROPERTIES
    CatchesUp

CHECK_DEADLOCK FALSE
