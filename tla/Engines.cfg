SPECIFICATION MCSpec

CONSTANTS
    Transitions <- AgreementTransitions
    InitialState = "Draft"
    TerminalStates <- AgreementTerminal
    Targets <- Deal
    InstanceIds = {"i1"}
    Actors <- DealActors
    Parties <- DealParties
    Principals = {"ann", "bob"}
    Roles = {}
    Conditions = {"agreement-minimum-parties"}
    Calls = {"c1", "c2"}
    VersionChecked = TRUE
    MayFail = TRUE
    MayRestart = TRUE
    MaxLog = 6
    Flows <- ModelFlows
    Resumes = {"resume1", "resume2"}
    Cancels = {"cancel"}
    Checkeds = {TRUE, FALSE}
    MaxEvents = 4
    MaxConns = 3
    Exports = {"e1", "e2"}

INVARIANTS
    LogIsARun
    Unanimous
    PartsTyped
    NothingAhead
    OnlyUnseenAreMissed

PROPERTIES
    BegunEnds

CHECK_DEADLOCK FALSE
