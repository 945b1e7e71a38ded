--------------------------- MODULE WorkflowEngine ---------------------------
(***************************************************************************)
(* The workflow engine of one process (createWorkflowEngine): a map of     *)
(* running instances kept beside the event log.                            *)
(*                                                                         *)
(* startWorkflow and transition are asynchronous.  A call reads its        *)
(* instance from the map once, at its start, and uses that copy across     *)
(* every await: authorization, guards, actions, the append of the          *)
(* transition, the actions of the new state, the append of the completion; *)
(* then it puts its own updated copy into the map.  Calls interleave at    *)
(* the awaits.                                                             *)
(*                                                                         *)
(* The event store is either of the two: VersionChecked says whether it    *)
(* refuses an event whose version is not the next of its aggregate         *)
(* (PgEventStore does, EventStore does not).  Any await may throw.         *)
(***************************************************************************)
EXTENDS Naturals, Sequences, FiniteSets

CONSTANTS
    Transitions,       \* definition.transitions
    InitialState,      \* definition.initialState
    TerminalStates,    \* definition.terminalStates
    Targets,           \* target aggregates: [type, id]
    InstanceIds,       \* what generateId returns
    Actors,            \* [type, id]
    Parties,           \* the parties of the agreements: [agreement, partyId, role]
    Principals,        \* partyIds whose consent an agreement needs
    Roles,             \* [actor, role]: the roles that may be held
    Conditions,        \* custom validators, statuses and durations
    Calls,             \* calls of startWorkflow and transition in flight
    VersionChecked,    \* does the store check versions?
    MayFail,           \* may an await throw?
    MayRestart,        \* may the process restart?
    MaxLog             \* bound: length of the log (see Room)

VARIABLES
    log,                    \* the Workflow events of the store
    instances,              \* Map: id -> instance
    instancesByAggregate,   \* Map: target -> id
    calls,                  \* local state of each call
    world                   \* what the services answer

vars == <<log, instances, instancesByAggregate, calls, world>>

-----------------------------------------------------------------------------
(***************************************************************************)
(* Authorization and guards.                                               *)
(***************************************************************************)

\* One constraint of transition.allowedActors.
Satisfies(actor, constraint, target) ==
    \/ /\ constraint.type = "System"
       /\ actor.type = "System"
    \/ /\ constraint.type = "Role"
       /\ [actor |-> actor, role |-> constraint.role] \in world.roles
    \/ /\ constraint.type = "Party"
       /\ actor.type = "Party" /\ actor.id = constraint.partyId
    \/ /\ constraint.type = "Self"
       /\ actor.type = "Party" /\ actor.id = target.id
    \/ /\ constraint.type = "AgreementParty"
       /\ actor.type = "Party" /\ target.type = "Agreement"
       /\ [agreement |-> target.id, partyId |-> actor.id,
           role |-> constraint.role] \in Parties

CheckActorAuthorization(actor, transition, target) ==
    \/ transition.allowedActors = {}
    \/ \E c \in transition.allowedActors : Satisfies(actor, c, target)

\* Mutant of ConsentGiven: some where the code says every.
ConsentBySome(condition) == Principals \cap world.consents # {}

ConsentGiven(condition) ==
    IF condition.fromAll THEN Principals \subseteq world.consents
    ELSE Principals \cap world.consents # {}

EvaluateGuard(condition, actor, instance) ==
    \/ /\ condition.type = "HasRole"
       /\ [actor |-> actor, role |-> condition.roleType] \in world.roles
    \/ /\ condition.type = "HasConsent"
       /\ ConsentGiven(condition)
    \/ /\ condition.type = "TimeElapsed"
       /\ \E k \in DOMAIN instance.history : instance.history[k].to = condition.since
       /\ condition.duration \in world.conditions
    \/ /\ condition.type \in {"AssetInStatus", "AgreementInStatus"}
       /\ condition.status \in world.conditions
    \/ /\ condition.type = "Custom"
       /\ condition.validatorId \in world.conditions

-----------------------------------------------------------------------------
(***************************************************************************)
(* The store.                                                              *)
(***************************************************************************)

EventsOf(id) == {k \in DOMAIN log : log[k].id = id}

\* append throws unless the version is the next one, if the store checks it.
Accepts(id, version) ==
    VersionChecked => version = Cardinality(EventsOf(id)) + 1

\* The bound; it leaves room for the completion of an instance.
Room == Len(log) + 1 < MaxLog

WorkflowEvent(type, id, version, name, from, to) ==
    [type |-> type, id |-> id, version |-> version, name |-> name,
     from |-> from, to |-> to]

-----------------------------------------------------------------------------
(***************************************************************************)
(* startWorkflow.                                                          *)
(***************************************************************************)

Idle == [phase |-> "idle"]

Set(c, local) == calls' = [calls EXCEPT ![c] = local]

\* Mutant of NewInstance: starts at the rehydrator's version 0.
NewInstanceZero(target) ==
    [target |-> target, currentState |-> InitialState, version |-> 0,
     history |-> << >>, isComplete |-> FALSE]

NewInstance(target) ==
    [target |-> target, currentState |-> InitialState, version |-> 1,
     history |-> << >>, isComplete |-> FALSE]

\* Ids nobody uses yet (generateId: time and random digits).
FreshIds ==
    {id \in InstanceIds :
        /\ EventsOf(id) = {}
        /\ \A c \in Calls : calls[c].phase # "idle" => calls[c].id # id}

Start(c, target) ==
    /\ calls[c].phase = "idle"
    /\ target \notin DOMAIN instancesByAggregate
    /\ \E id \in FreshIds :
          Set(c, [phase |-> "creating", id |-> id, instance |-> NewInstance(target)])
    /\ UNCHANGED <<log, instances, instancesByAggregate, world>>

AppendCreated(c) ==
    /\ calls[c].phase = "creating"
    /\ Accepts(calls[c].id, 1) /\ Room
    /\ log' = Append(log, WorkflowEvent("WorkflowInstanceCreated", calls[c].id, 1,
                                        "", "", InitialState))
    /\ Set(c, [calls[c] EXCEPT !.phase = "created"])
    /\ UNCHANGED <<instances, instancesByAggregate, world>>

\* The actions of the initial state have run.
StoreCreated(c) ==
    LET target == calls[c].instance.target IN
    /\ calls[c].phase = "created"
    /\ instances' = [id \in DOMAIN instances \cup {calls[c].id} |->
                        IF id = calls[c].id THEN calls[c].instance ELSE instances[id]]
    /\ instancesByAggregate' =
          [t \in DOMAIN instancesByAggregate \cup {target} |->
              IF t = target THEN calls[c].id ELSE instancesByAggregate[t]]
    /\ Set(c, Idle)
    /\ UNCHANGED <<log, world>>

-----------------------------------------------------------------------------
(***************************************************************************)
(* transition.                                                             *)
(***************************************************************************)

\* A request that finds no instance, a complete one, or no transition of that
\* name from its state returns an error and changes nothing.
Request(c, id, t, actor) ==
    /\ calls[c].phase = "idle"
    /\ ~instances[id].isComplete
    /\ instances[id].currentState \in t.from
    /\ Set(c, [phase |-> "authorizing", id |-> id, instance |-> instances[id],
               transition |-> t, actor |-> actor])
    /\ UNCHANGED <<log, instances, instancesByAggregate, world>>

Authorize(c) ==
    /\ calls[c].phase = "authorizing"
    /\ Set(c, IF CheckActorAuthorization(calls[c].actor, calls[c].transition,
                                         calls[c].instance.target)
              THEN [calls[c] EXCEPT !.phase = "guarding"] ELSE Idle)
    /\ UNCHANGED <<log, instances, instancesByAggregate, world>>

EvaluateGuards(c) ==
    /\ calls[c].phase = "guarding"
    /\ Set(c, IF \A g \in calls[c].transition.guards :
                    EvaluateGuard(g, calls[c].actor, calls[c].instance)
              THEN [calls[c] EXCEPT !.phase = "leaving"] ELSE Idle)
    /\ UNCHANGED <<log, instances, instancesByAggregate, world>>

\* Mutant of UpdatedInstance: completeness is that of the state left.
UpdatedLate(c) ==
    LET i == calls[c].instance  t == calls[c].transition IN
    [i EXCEPT !.currentState = t.to, !.version = @ + 1,
              !.history = Append(@, [name |-> t.name, from |-> i.currentState,
                                     to |-> t.to]),
              !.isComplete = i.currentState \in TerminalStates]

\* Mutant of UpdatedInstance: the history is not extended.
UpdatedNoHistory(c) ==
    LET i == calls[c].instance  t == calls[c].transition IN
    [i EXCEPT !.currentState = t.to, !.version = @ + 1,
              !.isComplete = t.to \in TerminalStates]

UpdatedInstance(c) ==
    LET i == calls[c].instance  t == calls[c].transition IN
    [i EXCEPT !.currentState = t.to, !.version = @ + 1,
              !.history = Append(@, [name |-> t.name, from |-> i.currentState,
                                     to |-> t.to]),
              !.isComplete = t.to \in TerminalStates]

\* Mutant of Leave: the map is updated before the event is appended.
LeaveAndStore(c) ==
    /\ calls[c].phase = "leaving"
    /\ instances' = [instances EXCEPT ![calls[c].id] = UpdatedInstance(c)]
    /\ Set(c, [calls[c] EXCEPT !.phase = "emitting"])
    /\ UNCHANGED <<log, instancesByAggregate, world>>

\* The exit actions of the state and the actions of the transition have run.
Leave(c) ==
    /\ calls[c].phase = "leaving"
    /\ Set(c, [calls[c] EXCEPT !.phase = "emitting"])
    /\ UNCHANGED <<log, instances, instancesByAggregate, world>>

\* Mutant of AppendTransitioned: the version is taken from the store.
AppendNextVersion(c) ==
    LET i == calls[c].instance  t == calls[c].transition IN
    /\ calls[c].phase = "emitting"
    /\ Room
    /\ log' = Append(log, WorkflowEvent("WorkflowTransitioned", calls[c].id,
                         Cardinality(EventsOf(calls[c].id)) + 1, t.name, i.currentState, t.to))
    /\ Set(c, [calls[c] EXCEPT !.phase = "entering", !.instance = UpdatedInstance(c)])
    /\ UNCHANGED <<instances, instancesByAggregate, world>>

AppendTransitioned(c) ==
    LET i == calls[c].instance  t == calls[c].transition IN
    /\ calls[c].phase = "emitting"
    /\ Accepts(calls[c].id, UpdatedInstance(c).version) /\ Room
    /\ log' = Append(log, WorkflowEvent("WorkflowTransitioned", calls[c].id,
                         UpdatedInstance(c).version, t.name, i.currentState, t.to))
    /\ Set(c, [calls[c] EXCEPT !.phase = "entering", !.instance = UpdatedInstance(c)])
    /\ UNCHANGED <<instances, instancesByAggregate, world>>

\* The actions of the new state have run and it is a terminal one.
AppendCompleted(c) ==
    /\ calls[c].phase = "entering" /\ calls[c].instance.isComplete
    /\ Accepts(calls[c].id, calls[c].instance.version + 1)
    /\ Len(log) < MaxLog
    /\ log' = Append(log, WorkflowEvent("WorkflowCompleted", calls[c].id,
                         calls[c].instance.version + 1, "", "",
                         calls[c].instance.currentState))
    /\ Set(c, [calls[c] EXCEPT !.phase = "completed"])
    /\ UNCHANGED <<instances, instancesByAggregate, world>>

StoreUpdated(c) ==
    /\ \/ calls[c].phase = "entering" /\ ~calls[c].instance.isComplete
       \/ calls[c].phase = "completed"
    /\ instances' = [instances EXCEPT ![calls[c].id] = calls[c].instance]
    /\ Set(c, Idle)
    /\ UNCHANGED <<log, instancesByAggregate, world>>

\* The version an append in flight is about to try is not the next one: the
\* store throws, and so does the call.
Conflict(c) ==
    /\ VersionChecked
    /\ \/ /\ calls[c].phase = "emitting"
          /\ UpdatedInstance(c).version # Cardinality(EventsOf(calls[c].id)) + 1
       \/ /\ calls[c].phase = "entering" /\ calls[c].instance.isComplete
          /\ calls[c].instance.version + 1 # Cardinality(EventsOf(calls[c].id)) + 1
    /\ Set(c, Idle)
    /\ UNCHANGED <<log, instances, instancesByAggregate, world>>

\* A service, a handler or the store throws at any await.
Fail(c) ==
    /\ MayFail
    /\ calls[c].phase # "idle"
    /\ Set(c, Idle)
    /\ UNCHANGED <<log, instances, instancesByAggregate, world>>

-----------------------------------------------------------------------------
\* The maps are not rebuilt from the log.
Restart ==
    /\ MayRestart
    /\ instances' = << >> /\ instancesByAggregate' = << >>
    /\ calls' = [c \in Calls |-> Idle]
    /\ UNCHANGED <<log, world>>

\* Consent is given once and for all; roles and conditions come and go.
WorldMoves ==
    /\ \/ \E p \in Principals \ world.consents :
             world' = [world EXCEPT !.consents = @ \cup {p}]
       \/ \E r \in Roles :
             world' = [world EXCEPT !.roles = IF r \in @ THEN @ \ {r} ELSE @ \cup {r}]
       \/ \E x \in Conditions :
             world' = [world EXCEPT !.conditions = IF x \in @ THEN @ \ {x} ELSE @ \cup {x}]
    /\ UNCHANGED <<log, instances, instancesByAggregate, calls>>

Init ==
    /\ log = << >>
    /\ instances = << >> /\ instancesByAggregate = << >>
    /\ calls = [c \in Calls |-> Idle]
    /\ world = [consents |-> {}, roles |-> {}, conditions |-> {}]

CallStep(c) ==
    \/ AppendCreated(c) \/ StoreCreated(c)
    \/ Authorize(c) \/ EvaluateGuards(c) \/ Leave(c)
    \/ AppendTransitioned(c) \/ AppendCompleted(c) \/ StoreUpdated(c)
    \/ Conflict(c)

Next ==
    \/ \E c \in Calls :
          \/ \E target \in Targets : Start(c, target)
          \/ \E id \in DOMAIN instances, t \in Transitions, a \in Actors :
                Request(c, id, t, a)
          \/ CallStep(c)
          \/ Fail(c)
    \/ Restart
    \/ WorldMoves

Spec == Init /\ [][Next]_vars

\* Every promise a call awaits settles, and the call goes on.
FairSpec == Spec /\ \A c \in Calls : WF_vars(CallStep(c))

-----------------------------------------------------------------------------
(***************************************************************************)
(* What the log says of an instance: workflowRehydrator, folded over its   *)
(* events in the order of the log.                                         *)
(***************************************************************************)
NotCreated == [version |-> 0, currentState |-> "", history |-> << >>,
               isComplete |-> FALSE]

Apply(state, e) ==
    CASE e.type = "WorkflowInstanceCreated" ->
            [NotCreated EXCEPT !.version = e.version, !.currentState = e.to]
      [] e.type = "WorkflowTransitioned" ->
            [state EXCEPT !.version = e.version, !.currentState = e.to,
                          !.history = Append(@, [name |-> e.name, from |-> e.from,
                                                 to |-> e.to])]
      [] e.type = "WorkflowCompleted" ->
            [state EXCEPT !.version = e.version, !.isComplete = TRUE]

WorkflowRehydrator(es, id) ==
    LET state[k \in 0 .. Len(es)] ==
            IF k = 0 THEN NotCreated
            ELSE IF es[k].id = id THEN Apply(state[k - 1], es[k])
            ELSE state[k - 1]
    IN  state[Len(es)]

Rehydrated(id) == WorkflowRehydrator(log, id)

-----------------------------------------------------------------------------
(***************************************************************************)
(* Properties.                                                             *)
(***************************************************************************)
\* The states and the names are those of the definition.
States == {InitialState} \cup {t.to : t \in Transitions}

Names == {t.name : t \in Transitions}

Step == [name : Names, from : States, to : States]

Instance == [target : Targets, currentState : States, version : Nat \ {0},
             history : Seq(Step), isComplete : BOOLEAN]

\* Types; calls that are past their first await hold an instance.
TypeOK ==
    /\ DOMAIN instances \subseteq InstanceIds
    /\ \A id \in DOMAIN instances : instances[id] \in Instance
    /\ DOMAIN instancesByAggregate \subseteq Targets
    /\ \A t \in DOMAIN instancesByAggregate : instancesByAggregate[t] \in DOMAIN instances
    /\ \A c \in Calls : calls[c].phase # "idle" =>
          calls[c].id \in InstanceIds /\ calls[c].instance \in Instance

IsBy(e, t) == t.name = e.name /\ e.from \in t.from /\ e.to = t.to

\* In the log, every transition of an instance leaves the state the one
\* before it entered, by a transition of the definition: calls that decided
\* on a copy of the instance that is out of date never get their event in.
LogIsARun ==
    \A k \in DOMAIN log : log[k].type = "WorkflowTransitioned" =>
        /\ \E t \in Transitions : IsBy(log[k], t)
        /\ \E j \in EventsOf(log[k].id) :
              /\ j < k /\ log[j].to = log[k].from
              /\ \A m \in EventsOf(log[k].id) : m <= j \/ m >= k

\* A completed instance is never heard of again, and completes in the
\* terminal state its last transition entered.
NothingAfterCompletion ==
    \A k \in DOMAIN log : log[k].type = "WorkflowCompleted" =>
        /\ \A m \in EventsOf(log[k].id) : m <= k
        /\ log[k].to \in TerminalStates

\* The map is never ahead of the log: whatever fails, the history in memory
\* is a beginning of the history in the log, and an instance is complete in
\* memory only if the log says so.
CacheBehindLog ==
    \A id \in DOMAIN instances :
        LET h == instances[id].history  r == Rehydrated(id) IN
        /\ Len(h) <= Len(r.history)
        /\ h = SubSeq(r.history, 1, Len(h))
        /\ instances[id].isComplete => r.isComplete

\* No agreement is active without the consent of every principal: when each
\* transition that an event of the log may be requires it, it was given.
Unanimous ==
    \A k \in DOMAIN log :
        (/\ log[k].type = "WorkflowTransitioned"
         /\ \A t \in Transitions :
               IsBy(log[k], t) => [type |-> "HasConsent", fromAll |-> TRUE] \in t.guards)
            => Principals \subseteq world.consents

\* A terminal transition is followed by the completion of the instance,
\* unless the call fails on the way.
TerminalIsCompleted ==
    \A id \in InstanceIds :
        (\E k \in EventsOf(id) : log[k].type = "WorkflowTransitioned"
                                 /\ log[k].to \in TerminalStates)
            ~> (\E k \in EventsOf(id) : log[k].type = "WorkflowCompleted")

\* An aggregate has one workflow (workflow-engine.ts:141).
OneWorkflowPerAggregate ==
    \A t \in Targets :
        Cardinality({id \in DOMAIN instances : instances[id].target = t}) <= 1

\* Between calls, memory and log agree.
CacheIsLog ==
    (\A c \in Calls : calls[c].phase = "idle") =>
        \A id \in DOMAIN instances :
            LET i == instances[id]  r == Rehydrated(id) IN
            /\ i.currentState = r.currentState
            /\ i.history = r.history
            /\ i.isComplete = r.isComplete

=============================================================================
