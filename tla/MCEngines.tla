------------------------------ MODULE MCEngines ------------------------------
(***************************************************************************)
(* The parts whose work goes on by itself, on small instances: the         *)
(* workflow engine with each of the two definitions it ships with (the     *)
(* module extended is the engine of the agreements, Asset the other), the  *)
(* flow orchestrator with its sale flow and with flows that have what that *)
(* one lacks, the stream of events a client follows, and exports.  They    *)
(* do not interact: part says which of them the behaviour is about, and    *)
(* the variables of the others keep the value they begin with.             *)
(***************************************************************************)
EXTENDS WorkflowEngine

CONSTANTS
    Flows, Resumes, Cancels, Checkeds,  \* of FlowOrchestrator
    MaxEvents,      \* bound: events a stream follows, events that are exported
    MaxConns,       \* bound: connections of a stream's client
    Exports         \* requests of exports

VARIABLES
    part,       \* "agreement", "asset", "starts", "flow", "stream" or "export"
    assetLog, assets, assetIds, assetCalls, assetWorld,             \* Asset
    flow, checked, flowLog, instance, run, armed, done,             \* FlowOrchestrator
    atOnce, length, phase, isOpen, pos, upto, received, before, unseen, \* EventStream
    mayFail, named, state, error, result, asked, collected, worker, events \* ExportService

assetVars == <<assetLog, assets, assetIds, assetCalls, assetWorld>>
flowVars == <<flow, checked, flowLog, instance, run, armed, done>>
streamVars == <<atOnce, length, phase, isOpen, pos, upto, received, before, unseen>>
exportVars == <<mayFail, named, state, error, result, asked, collected, worker, events>>
partVars == <<part, vars, assetVars, flowVars, streamVars, exportVars>>

-----------------------------------------------------------------------------
(* The two workflow definitions the engine ships with, AGREEMENT_WORKFLOW  *)
(* and ASSET_WORKFLOW: transitions, who may trigger them, what guards them.*)

Role(r) == [type |-> "Role", role |-> r]
AgreementParty(r) == [type |-> "AgreementParty", role |-> r]
System == [type |-> "System"]
Self == [type |-> "Self"]

Custom(id) == [type |-> "Custom", validatorId |-> id]
ConsentOfAll == [type |-> "HasConsent", fromAll |-> TRUE]

Transition(name, from, to, allowedActors, guards) ==
    [name |-> name, from |-> from, to |-> to,
     allowedActors |-> allowedActors, guards |-> guards]

AgreementTransitions == {
    Transition("propose", {"Draft"}, "Proposed",
        {AgreementParty("Proposer"), Role("Admin")},
        {Custom("agreement-minimum-parties")}),
    Transition("review", {"Proposed"}, "UnderReview",
        {AgreementParty("Buyer"), AgreementParty("Seller"), AgreementParty("Principal")},
        {}),
    Transition("accept", {"Proposed", "UnderReview"}, "Active",
        {AgreementParty("Buyer"), AgreementParty("Principal")},
        {ConsentOfAll}),
    Transition("fulfill", {"Active"}, "Fulfilled",
        {System, Role("Admin")},
        {Custom("all-obligations-met")}),
    Transition("breach", {"Active"}, "Breached",
        {AgreementParty("Buyer"), AgreementParty("Seller"), Role("Arbitrator")},
        {}),
    Transition("terminate", {"Draft", "Proposed", "UnderReview", "Active", "Breached"},
        "Terminated",
        {Role("Admin"), AgreementParty("Proposer")},
        {}),
    Transition("expire", {"Active"}, "Expired",
        {System},
        {Custom("past-expiry-date")}) }

AgreementTerminal == {"Fulfilled", "Breached", "Terminated", "Expired"}

AssetTransitions == {
    Transition("stock", {"Created"}, "InStock",
        {Role("InventoryManager"), Role("Admin")}, {}),
    Transition("reserve", {"InStock"}, "Reserved",
        {Role("Salesperson"), System}, {}),
    Transition("release", {"Reserved"}, "InStock",
        {Role("Salesperson"), System}, {}),
    Transition("sell", {"InStock", "Reserved"}, "Sold",
        {Role("Salesperson"), Role("Admin")}, {Custom("has-sale-agreement")}),
    Transition("transfer", {"Sold", "Created"}, "Transferred",
        {Role("Admin"), Self}, {Custom("has-transfer-agreement")}),
    Transition("consume", {"InStock", "Transferred"}, "Consumed",
        {Self, Role("Admin")}, {}),
    Transition("destroy", {"Created", "InStock", "Sold", "Transferred"}, "Destroyed",
        {Role("Admin")}, {}) }

AssetTerminal == {"Consumed", "Destroyed"}

-----------------------------------------------------------------------------
(***************************************************************************)
(* The flow it ships with, SALE_FLOW.                                      *)
(***************************************************************************)

ActionStep(next) == [type |-> "Action", next |-> next]
WorkflowStep(next) == [type |-> "Workflow", next |-> next]
WaitStep(event, next) == [type |-> "Wait", event |-> event, next |-> next]
DecisionStep(branches, default) ==
    [type |-> "Decision", branches |-> branches, default |-> default, next |-> ""]

SALE_FLOW ==
    [start |-> "create", ends |-> {"complete", "cancelled"},
     steps |->
       [create   |-> ActionStep("reserve"),
        reserve  |-> ActionStep("workflow"),
        workflow |-> WorkflowStep("check"),
        check    |-> DecisionStep({"payment", "release"}, {"release"}),
        payment  |-> WaitStep("PaymentReceived", "transfer"),
        transfer |-> ActionStep("complete"),
        release  |-> ActionStep("cancelled"),
        complete |-> ActionStep(""), cancelled |-> ActionStep("")]]

-----------------------------------------------------------------------------
(* An agreement between a proposer, who is also the buyer, and a seller.   *)

Ann == [type |-> "Party", id |-> "ann"]
Daemon == [type |-> "System", id |-> "daemon"]

Deal == {[type |-> "Agreement", id |-> "deal"]}
DealActors == {Ann, Daemon}
DealParties ==
    { [agreement |-> "deal", partyId |-> "ann", role |-> r] : r \in {"Proposer", "Buyer"} }
        \cup { [agreement |-> "deal", partyId |-> "bob", role |-> "Seller"] }

(* An asset, with as many calls that neither fail nor are cut off.         *)
Asset == INSTANCE WorkflowEngine WITH
    Transitions <- AssetTransitions, InitialState <- "Created",
    TerminalStates <- AssetTerminal,
    Targets <- {[type |-> "Asset", id |-> "car"]},
    Actors <- {Ann}, Parties <- {}, Principals <- {},
    Roles <- {[actor |-> Ann, role |-> "Admin"]},
    Conditions <- {"has-sale-agreement"},
    VersionChecked <- TRUE, MayFail <- FALSE, MayRestart <- FALSE,
    log <- assetLog, instances <- assets, instancesByAggregate <- assetIds,
    calls <- assetCalls, world <- assetWorld

-----------------------------------------------------------------------------
(* SALE_FLOW, whose workflow step nothing ever completes; the same flow    *)
(* from the step after it; a wait without an event and a decision without  *)
(* a branch that applies; a wait for an event and then one for a time; and *)
(* a parallel step for each way to join.                                   *)

Deliver == [SALE_FLOW EXCEPT !.start = "check"]
Undecided ==
    [start |-> "check", ends |-> {"release"},
     steps |-> [check |-> DecisionStep({"wait"}, {"none"}), wait |-> WaitStep("", "release"),
                release |-> ActionStep("")]]
Reminded ==
    [start |-> "payment", ends |-> {"wait"},
     steps |-> [payment |-> WaitStep("PaymentReceived", "wait"), wait |-> WaitStep("", "")]]
Both(join) ==
    [start |-> "both", ends |-> {"after", "left"},
     steps |-> [both |-> [type |-> "Parallel", branches |-> {"left", "right"},
                          join |-> join, next |-> "after"],
                left |-> ActionStep(""), right |-> ActionStep(""), after |-> ActionStep("")]]

ModelFlows == {SALE_FLOW, Deliver, Undecided, Reminded, Both("All"), Both("Any"), Both("First")}

Flow == INSTANCE FlowOrchestrator WITH log <- flowLog

\* A definition names its own steps, and a wait for an event says what is next.
IsFlow(f) ==
    /\ f.start \in DOMAIN f.steps
    /\ \A s \in DOMAIN f.steps :
          LET step == f.steps[s] IN
          /\ step.type \in {"Action", "Workflow", "Wait", "Decision", "Parallel"}
          /\ step.next \in DOMAIN f.steps \cup {""}
          /\ step.type = "Decision" =>
                step.branches \cup (step.default \ {"none"}) \subseteq DOMAIN f.steps
          /\ step.type = "Parallel" => step.branches \subseteq DOMAIN f.steps
          /\ step.type = "Wait" /\ step.event # "" => step.next # ""

-----------------------------------------------------------------------------
(* A client that connects again and again while events are appended; and   *)
(* exports of an aggregate that grows.                                     *)

Stream == INSTANCE EventStream

Export == INSTANCE ExportService WITH length <- events

ASSUME EnginesAssumption ==
    /\ MaxEvents \in Nat /\ MaxConns \in Nat
    /\ Checkeds \subseteq BOOLEAN
    /\ \A f \in Flows : IsFlow(f)

-----------------------------------------------------------------------------
(* The parts a behaviour is not about.                                     *)
NoFlow ==
    /\ flow = 0 /\ checked = 0 /\ flowLog = 0 /\ instance = 0 /\ run = 0
    /\ armed = 0 /\ done = 0
NoStream == atOnce = TRUE /\ Stream!Init
NoExport == mayFail = TRUE /\ named = Exports /\ Export!Init

MCInit ==
    /\ Init /\ Asset!Init
    /\ \/ part \in {"agreement", "asset"} /\ NoFlow /\ NoStream /\ NoExport
       \/ part = "flow" /\ Flow!Init /\ NoStream /\ NoExport
       \/ part = "stream" /\ Stream!Init /\ NoFlow /\ NoExport
       \/ part = "export" /\ Export!Init /\ NoFlow /\ NoStream

MCNext ==
    /\ \/ part = "agreement" /\ Next /\ UNCHANGED <<assetVars, flowVars, streamVars, exportVars>>
       \/ part = "asset" /\ Asset!Next /\ UNCHANGED <<vars, flowVars, streamVars, exportVars>>
       \/ part = "flow" /\ Flow!Next /\ UNCHANGED <<vars, assetVars, streamVars, exportVars>>
       \/ part = "stream" /\ Stream!Next /\ UNCHANGED <<vars, assetVars, flowVars, exportVars>>
       \/ part = "export" /\ Export!Next /\ UNCHANGED <<vars, assetVars, flowVars, streamVars>>
    /\ UNCHANGED part

\* The fairness each of the modules states: every promise a call of the
\* workflow engine awaits settles, every handler of the stream goes on, and
\* every query of an export ends.
Fairness ==
    /\ \A c \in Calls : WF_assetVars(part = "asset" /\ Asset!CallStep(c))
    /\ \A k \in 1 .. MaxConns :
           /\ WF_streamVars(part = "stream" /\ Stream!Replay(k))
           /\ WF_streamVars(part = "stream" /\ Stream!Subscribe(k))
           /\ WF_streamVars(part = "stream" /\ Stream!KeepAlive(k))
    /\ \A e \in Exports : WF_exportVars(part = "export" /\ Export!ProcessExport(e))

MCSpec == MCInit /\ [][MCNext]_partVars /\ Fairness

\* Two calls about the agreement that may each start its workflow.
StartsSpec ==
    /\ part = "starts" /\ Init /\ Asset!Init /\ NoFlow /\ NoStream /\ NoExport
    /\ [][Next /\ UNCHANGED <<part, assetVars, flowVars, streamVars, exportVars>>]_partVars

-----------------------------------------------------------------------------
(***************************************************************************)
(* Properties.  Those of the agreements are the ones of WorkflowEngine.    *)
(***************************************************************************)

(* The types of every part.                                                *)
PartsTyped ==
    /\ part = "agreement" => TypeOK
    /\ part = "asset" => Asset!TypeOK
    /\ part = "flow" => Flow!TypeOK
    /\ part = "stream" => Stream!TypeOK
    /\ part = "export" => Export!TypeOK

(* Nothing is remembered, said or done that the store does not bear out.   *)
(* - WorkflowEngine!CacheBehindLog, FlowOrchestrator!MapBehindLog:         *)
(*   whatever fails, the maps of instances and of flows are never ahead of *)
(*   the log; WorkflowEngine!CacheIsLog: when no call fails, memory and    *)
(*   log agree between the calls.                                          *)
(* - WorkflowEngine!NothingAfterCompletion, FlowOrchestrator!EndedIsOver:  *)
(*   with a store that checks versions, an instance or a flow that has     *)
(*   ended is never heard of again.                                        *)
(* - WorkflowEngine!LogIsARun, of the assets.                              *)
(* - FlowOrchestrator!DoneIsEntered: an action of a step runs at most as   *)
(*   often as the log has entries of the step.                             *)
(* - ExportService!CompletedIsWhole: a completed export has all that was   *)
(*   there when it was asked for, of the aggregate it names.               *)
NothingAhead ==
    /\ part = "agreement" => CacheBehindLog /\ NothingAfterCompletion
    /\ part = "asset" => Asset!CacheIsLog /\ Asset!LogIsARun /\ Asset!NothingAfterCompletion
    /\ part = "flow" => Flow!MapBehindLog /\ Flow!EndedIsOver /\ Flow!DoneIsEntered
    /\ part = "export" => Export!CompletedIsWhole

(* Over all its connections a client gets each event at most once, in      *)
(* their order (EventStream!NoneTwice), and misses only those that were    *)
(* appended between a replay's query and the subscription                  *)
(* (EventStream!OnlyUnseenAreMissed).                                      *)
OnlyUnseenAreMissed ==
    part = "stream" => Stream!NoneTwice /\ Stream!OnlyUnseenAreMissed

(* What was begun ends, and is not begun again: a terminal transition is   *)
(* followed by the completion of its instance                              *)
(* (WorkflowEngine!TerminalIsCompleted), the subscription of a closed      *)
(* stream is given back (EventStream!ClosedIsReleased), an export ends     *)
(* when no query fails (ExportService!RequestedEnds), and then stays as it *)
(* is (ExportService!EndedStays), and with a store that checks versions no *)
(* step of a flow is entered twice unless the flow waited for something    *)
(* else after an event (FlowOrchestrator!EnteredOnce).                     *)
BegunEnds ==
    /\ part = "asset" => Asset!TerminalIsCompleted
    /\ part = "stream" => Stream!ClosedIsReleased
    /\ part = "export" => Export!RequestedEnds
    /\ [](part = "flow" => Flow!EnteredOnce)
    /\ [][part = "export" => Export!EndedStays]_partVars
=============================================================================
