SPECIFICATION StartsSpec

CONSTANTS
    Transitions <- AgreementTransitions
    InitialState = "Draft"
    TerminalStates <- AgreementTerminal
    Targets <- Deal
    InstanceIds = {"i1", "i2"}
    Actors <- DealActors
    Parties <- DealParties
    Principals = {"ann", "bob"}
    Roles = {}
    Conditions = {"agreement-minimum-parties"}
    Calls = {"c1", "c2"}
    VersionChecked = TRUE
    MayFail = FALSE
    MayRestart = FALSE
    MaxLog = 6
    Flows <- ModelFlows
    Resumes = {}
    Cancels = {}
    Checkeds = {TRUE}
    MaxEvents = 1
    MaxConns = 1
    Exports = {}

INVARIANTS
    OneWorkflowPerAggregate

CHECK_DEADLOCK FALSE
