------------------------ MODULE WorkflowEngine_proofs -----------------------
(***************************************************************************)
(* Proofs about the workflow engine, for every definition of a workflow,   *)
(* number of calls in flight, target, actor and service, any failures and  *)
(* any number of restarts.  What is shown of the log and of the map beside *)
(* it holds with a store that checks versions (PgEventStore does,          *)
(* EventStore does not).                                                   *)
(***************************************************************************)
EXTENDS WorkflowEngine, FiniteSetTheorems, SequenceTheorems, WellFoundedInduction,
        TLAPS

-----------------------------------------------------------------------------
(***************************************************************************)
(* Types.                                                                  *)
(***************************************************************************)
\* An entry of a history rebuilt from the log.
Entry == [name : Names \cup {""}, from : States \cup {""}, to : States]

Event == [type : {"WorkflowInstanceCreated", "WorkflowTransitioned", "WorkflowCompleted"},
          id : InstanceIds, version : Nat \ {0}, name : Names \cup {""},
          from : States \cup {""}, to : States]

World == [consents : SUBSET Principals, roles : SUBSET Roles,
          conditions : SUBSET Conditions]

StartCall == [phase : {"creating", "created"}, id : InstanceIds, instance : Instance]

Deciding == {"authorizing", "guarding", "leaving", "emitting"}

TransitionCall ==
    [phase : Deciding \cup {"entering", "completed"}, id : InstanceIds,
     instance : Instance, transition : Transitions, actor : Actors]

AllConsent == [type |-> "HasConsent", fromAll |-> TRUE]

\* What is known of a call: the copy it decides on is in a state its
\* transition may leave, and a copy past its guards has the consents its
\* transition asks for.
CallTyped(call, w) ==
    \/ call = Idle
    \/ call \in StartCall
    \/ /\ call \in TransitionCall
       /\ call.phase \in Deciding =>
             /\ call.instance.currentState \in call.transition.from
             /\ ~call.instance.isComplete
       /\ call.phase \in {"leaving", "emitting"} /\ AllConsent \in call.transition.guards
             => Principals \subseteq w.consents

Typed ==
    /\ log \in Seq(Event)
    /\ DOMAIN instances \subseteq InstanceIds
    /\ \A id \in DOMAIN instances : instances[id] \in Instance
    /\ DOMAIN instancesByAggregate \subseteq Targets
    /\ \A t \in DOMAIN instancesByAggregate : instancesByAggregate[t] \in DOMAIN instances
    /\ world \in World
    /\ calls = [c \in Calls |-> calls[c]]
    /\ \A c \in Calls : CallTyped(calls[c], world)

TInv == Typed /\ Unanimous

-----------------------------------------------------------------------------
LEMMA TypedInit == ASSUME Init PROVE TInv
<1>1. /\ log \in Seq(Event) /\ world \in World
      /\ DOMAIN instances = {} /\ DOMAIN instancesByAggregate = {}
  BY DEF Init, World
<1>2. calls = [c \in Calls |-> calls[c]] /\ \A c \in Calls : CallTyped(calls[c], world)
  BY DEF Init, CallTyped
<1>3. Unanimous BY DEF Init, Unanimous
<1>. QED BY <1>1, <1>2, <1>3 DEF TInv, Typed

\* What a step of one call has to show when the log and the maps stay.
LEMMA TypedLocal ==
    ASSUME TInv, NEW c \in Calls, NEW new, Set(c, new),
           UNCHANGED <<log, instances, instancesByAggregate, world>>,
           CallTyped(new, world)
    PROVE  TInv'
<1>1. calls' = [calls EXCEPT ![c] = new] BY DEF Set
<1>2. calls' = [d \in Calls |-> calls'[d]] BY <1>1 DEF TInv, Typed
<1>3. \A d \in Calls : CallTyped(calls'[d], world') BY <1>1 DEF TInv, Typed
<1>4. Unanimous' BY DEF TInv, Unanimous
<1>. QED BY <1>2, <1>3, <1>4 DEF TInv, Typed

\* What a step of one call has to show that appends an event.
LEMMA TypedAppend ==
    ASSUME TInv, NEW c \in Calls, NEW new, Set(c, new), NEW e \in Event,
           log' = Append(log, e),
           UNCHANGED <<instances, instancesByAggregate, world>>,
           CallTyped(new, world),
           (/\ e.type = "WorkflowTransitioned"
            /\ \A t \in Transitions : IsBy(e, t) => AllConsent \in t.guards)
              => Principals \subseteq world.consents
    PROVE  TInv'
<1>1. calls' = [calls EXCEPT ![c] = new] BY DEF Set
<1>2. calls' = [d \in Calls |-> calls'[d]] BY <1>1 DEF TInv, Typed
<1>3. \A d \in Calls : CallTyped(calls'[d], world') BY <1>1 DEF TInv, Typed
<1>4. log \in Seq(Event) BY DEF TInv, Typed
<1>5. /\ log' \in Seq(Event) /\ DOMAIN log' = 1 .. (Len(log) + 1)
      /\ DOMAIN log = 1 .. Len(log) /\ Len(log) \in Nat
      /\ \A k \in 1 .. Len(log) : log'[k] = log[k]
      /\ log'[Len(log) + 1] = e
  BY <1>4, AppendProperties
<1>6. Unanimous'
  <2>. SUFFICES ASSUME NEW k \in DOMAIN log',
                       log'[k].type = "WorkflowTransitioned",
                       \A t \in Transitions : IsBy(log'[k], t) => AllConsent \in t.guards
                PROVE  Principals \subseteq world.consents
    BY DEF Unanimous, AllConsent
  <2>1. CASE k = Len(log) + 1 BY <1>5, <2>1
  <2>2. CASE k # Len(log) + 1
    <3>1. k \in DOMAIN log /\ log'[k] = log[k] BY <1>5, <2>2
    <3>. QED BY <3>1 DEF TInv, Unanimous, AllConsent
  <2>. QED BY <2>1, <2>2
<1>. QED BY <1>2, <1>3, <1>5, <1>6 DEF TInv, Typed

LEMMA Unfold ==
    ASSUME NEW call, NEW w, CallTyped(call, w)
    PROVE  /\ call.phase \in {"creating", "created"} =>
                 /\ call \in StartCall
                 /\ call.id \in InstanceIds /\ call.instance \in Instance
           /\ call.phase \in Deciding \cup {"entering", "completed"} =>
                 /\ call \in TransitionCall
                 /\ call.id \in InstanceIds /\ call.instance \in Instance
                 /\ call.transition \in Transitions
                 /\ call.phase \in Deciding =>
                       /\ call.instance.currentState \in call.transition.from
                       /\ ~call.instance.isComplete
                 /\ call.phase \in {"leaving", "emitting"}
                       /\ AllConsent \in call.transition.guards
                    => Principals \subseteq w.consents
<1>1. CASE call = Idle BY <1>1 DEF Idle, Deciding
<1>2. CASE call \in StartCall BY <1>2 DEF StartCall, Deciding
<1>3. CASE call # Idle /\ call \notin StartCall
  <2>1. call \in TransitionCall BY <1>3 DEF CallTyped
  <2>. QED BY <1>3, <2>1 DEF CallTyped, TransitionCall, Deciding
<1>. QED BY <1>1, <1>2, <1>3

LEMMA NewInstanceCopy ==
    ASSUME NEW target \in Targets PROVE NewInstance(target) \in Instance
BY EmptySeq DEF NewInstance, Instance, States

\* The copy a transition makes of the one it was decided on.
LEMMA UpdatedCopy ==
    ASSUME NEW c, calls[c].instance \in Instance, calls[c].transition \in Transitions
    PROVE  /\ UpdatedInstance(c) \in Instance
           /\ UpdatedInstance(c).version = calls[c].instance.version + 1
           /\ UpdatedInstance(c).currentState = calls[c].transition.to
           /\ UpdatedInstance(c).isComplete = (calls[c].transition.to \in TerminalStates)
           /\ UpdatedInstance(c).history =
                 Append(calls[c].instance.history,
                        [name |-> calls[c].transition.name,
                         from |-> calls[c].instance.currentState,
                         to |-> calls[c].transition.to])
<1>. DEFINE i == calls[c].instance
            t == calls[c].transition
            entry == [name |-> t.name, from |-> i.currentState, to |-> t.to]
            h == Append(i.history, entry)
            v == i.version + 1
            done == t.to \in TerminalStates
<1>1. t.to \in States /\ t.name \in Names /\ i.currentState \in States
  BY DEF States, Names, Instance
<1>2. entry \in Step BY <1>1 DEF Step
<1>3. i.history \in Seq(Step) /\ v \in Nat \ {0} BY DEF Instance
<1>4. h \in Seq(Step) BY <1>2, <1>3, AppendProperties
<1>5. done \in BOOLEAN OBVIOUS
<1>6. UpdatedInstance(c) = [i EXCEPT !.currentState = t.to, !.version = v,
                                     !.history = h, !.isComplete = done]
  BY DEF UpdatedInstance
<1>7. i \in Instance OBVIOUS
<1>. HIDE DEF i, h, v, done
<1>8. UpdatedInstance(c) \in Instance BY <1>1, <1>3, <1>4, <1>5, <1>6, <1>7 DEF Instance
<1>9. /\ UpdatedInstance(c).version = v /\ UpdatedInstance(c).currentState = t.to
      /\ UpdatedInstance(c).isComplete = done /\ UpdatedInstance(c).history = h
  BY <1>6, <1>7 DEF Instance
<1>. QED BY <1>8, <1>9 DEF i, h, v, done

LEMMA TypedStart ==
    ASSUME TInv, NEW c \in Calls, NEW target \in Targets, Start(c, target)
    PROVE  TInv'
<1>1. PICK id \in FreshIds :
         Set(c, [phase |-> "creating", id |-> id, instance |-> NewInstance(target)])
  BY DEF Start
<1>. DEFINE new == [phase |-> "creating", id |-> id, instance |-> NewInstance(target)]
<1>2. new \in StartCall BY NewInstanceCopy DEF StartCall, FreshIds
<1>3. CallTyped(new, world) BY <1>2 DEF CallTyped
<1>4. UNCHANGED <<log, instances, instancesByAggregate, world>> BY DEF Start
<1>. HIDE DEF new
<1>5. Set(c, new) BY <1>1 DEF new
<1>. QED BY <1>3, <1>4, <1>5, TypedLocal

LEMMA TypedAppendCreated ==
    ASSUME TInv, NEW c \in Calls, AppendCreated(c)
    PROVE  TInv'
<1>. DEFINE call == calls[c]
            new == [call EXCEPT !.phase = "created"]
            e == WorkflowEvent("WorkflowInstanceCreated", call.id, 1, "", "", InitialState)
<1>1. CallTyped(call, world) BY DEF TInv, Typed
<1>2. call.phase = "creating" BY DEF AppendCreated
<1>3. call \in StartCall /\ call.id \in InstanceIds BY <1>1, <1>2, Unfold
<1>4. new \in StartCall BY <1>3 DEF StartCall
<1>5. CallTyped(new, world) BY <1>4 DEF CallTyped
<1>6. e \in Event /\ e.type # "WorkflowTransitioned"
  BY <1>3 DEF WorkflowEvent, Event, States
<1>7. /\ log' = Append(log, e) /\ Set(c, new)
      /\ UNCHANGED <<instances, instancesByAggregate, world>>
  BY DEF AppendCreated
<1>. HIDE DEF call, new, e
<1>. QED BY <1>5, <1>6, <1>7, TypedAppend

LEMMA TypedStoreCreated ==
    ASSUME TInv, NEW c \in Calls, StoreCreated(c)
    PROVE  TInv'
<1>. DEFINE call == calls[c]
            target == call.instance.target
<1>1. CallTyped(call, world) BY DEF TInv, Typed
<1>2. call.phase = "created" BY DEF StoreCreated
<1>3. call.id \in InstanceIds /\ call.instance \in Instance BY <1>1, <1>2, Unfold
<1>4. target \in Targets BY <1>3 DEF Instance
<1>5. /\ instances' = [id \in DOMAIN instances \cup {call.id} |->
                          IF id = call.id THEN call.instance ELSE instances[id]]
      /\ instancesByAggregate' =
            [t \in DOMAIN instancesByAggregate \cup {target} |->
                IF t = target THEN call.id ELSE instancesByAggregate[t]]
      /\ calls' = [calls EXCEPT ![c] = Idle]
      /\ UNCHANGED <<log, world>>
  BY DEF StoreCreated, Set
<1>. HIDE DEF call, target
<1>6. /\ DOMAIN instances' \subseteq InstanceIds
      /\ \A id \in DOMAIN instances' : instances'[id] \in Instance
  BY <1>3, <1>5 DEF TInv, Typed
<1>7. /\ DOMAIN instancesByAggregate' \subseteq Targets
      /\ \A t \in DOMAIN instancesByAggregate' :
            instancesByAggregate'[t] \in DOMAIN instances'
  BY <1>4, <1>5 DEF TInv, Typed
<1>8. calls' = [d \in Calls |-> calls'[d]] /\ \A d \in Calls : CallTyped(calls'[d], world')
  BY <1>5 DEF TInv, Typed, CallTyped
<1>9. Unanimous' BY <1>5 DEF TInv, Unanimous
<1>10. log' \in Seq(Event) /\ world' \in World BY <1>5 DEF TInv, Typed
<1>. QED BY <1>6, <1>7, <1>8, <1>9, <1>10 DEF TInv, Typed

LEMMA TypedRequest ==
    ASSUME TInv, NEW c \in Calls, NEW id \in DOMAIN instances, NEW t \in Transitions,
           NEW a \in Actors, Request(c, id, t, a)
    PROVE  TInv'
<1>. DEFINE new == [phase |-> "authorizing", id |-> id, instance |-> instances[id],
                    transition |-> t, actor |-> a]
<1>1. instances[id] \in Instance /\ id \in InstanceIds BY DEF TInv, Typed
<1>2. new \in TransitionCall BY <1>1 DEF TransitionCall, Deciding
<1>3. instances[id].currentState \in t.from /\ ~instances[id].isComplete
  BY DEF Request
<1>4. CallTyped(new, world) BY <1>2, <1>3 DEF CallTyped
<1>5. Set(c, new) /\ UNCHANGED <<log, instances, instancesByAggregate, world>>
  BY DEF Request
<1>. HIDE DEF new
<1>. QED BY <1>4, <1>5, TypedLocal

LEMMA IdleTyped == CallTyped(Idle, world)
BY DEF CallTyped

LEMMA TypedAuthorize ==
    ASSUME TInv, NEW c \in Calls, Authorize(c)
    PROVE  TInv'
<1>. DEFINE call == calls[c]
            new == [call EXCEPT !.phase = "guarding"]
<1>1. CallTyped(call, world) BY DEF TInv, Typed
<1>2. call.phase = "authorizing" BY DEF Authorize
<1>3. /\ call \in TransitionCall
      /\ call.instance.currentState \in call.transition.from
      /\ ~call.instance.isComplete
  BY <1>1, <1>2, Unfold DEF Deciding
<1>4. /\ new \in TransitionCall /\ new.phase = "guarding"
      /\ new.instance = call.instance /\ new.transition = call.transition
  BY <1>3 DEF TransitionCall, Deciding
<1>5. CallTyped(new, world) BY <1>3, <1>4 DEF CallTyped
<1>6. /\ Set(c, new) \/ Set(c, Idle)
      /\ UNCHANGED <<log, instances, instancesByAggregate, world>>
  BY DEF Authorize
<1>. HIDE DEF new
<1>. QED BY <1>5, <1>6, IdleTyped, TypedLocal

\* A copy whose guards hold has the consents the transition asks for.
LEMMA TypedEvaluateGuards ==
    ASSUME TInv, NEW c \in Calls, EvaluateGuards(c)
    PROVE  TInv'
<1>. DEFINE call == calls[c]
            new == [call EXCEPT !.phase = "leaving"]
<1>1. CallTyped(call, world) BY DEF TInv, Typed
<1>2. call.phase = "guarding" BY DEF EvaluateGuards
<1>3. /\ call \in TransitionCall
      /\ call.instance.currentState \in call.transition.from
      /\ ~call.instance.isComplete
  BY <1>1, <1>2, Unfold DEF Deciding
<1>4. /\ new \in TransitionCall /\ new.phase = "leaving"
      /\ new.instance = call.instance /\ new.transition = call.transition
  BY <1>3 DEF TransitionCall, Deciding
<1>5. UNCHANGED <<log, instances, instancesByAggregate, world>>
  BY DEF EvaluateGuards
<1>6. CASE \A g \in call.transition.guards : EvaluateGuard(g, call.actor, call.instance)
  <2>1. ASSUME AllConsent \in call.transition.guards
        PROVE  Principals \subseteq world.consents
    <3>1. EvaluateGuard(AllConsent, call.actor, call.instance) BY <1>6, <2>1
    <3>2. AllConsent.type = "HasConsent" /\ AllConsent.fromAll = TRUE
      BY DEF AllConsent
    <3>3. ConsentGiven(AllConsent) BY <3>1, <3>2 DEF EvaluateGuard
    <3>. QED BY <3>2, <3>3 DEF ConsentGiven
  <2>2. Set(c, new) BY <1>6 DEF EvaluateGuards
  <2>. HIDE DEF new
  <2>3. CallTyped(new, world) BY <1>3, <1>4, <2>1 DEF CallTyped
  <2>. QED BY <1>5, <2>2, <2>3, TypedLocal
<1>7. CASE ~\A g \in call.transition.guards : EvaluateGuard(g, call.actor, call.instance)
  <2>1. Set(c, Idle) BY <1>7 DEF EvaluateGuards
  <2>. QED BY <1>5, <2>1, IdleTyped, TypedLocal
<1>. QED BY <1>6, <1>7

LEMMA TypedLeave ==
    ASSUME TInv, NEW c \in Calls, Leave(c)
    PROVE  TInv'
<1>. DEFINE call == calls[c]
            new == [call EXCEPT !.phase = "emitting"]
<1>1. CallTyped(call, world) BY DEF TInv, Typed
<1>2. call.phase = "leaving" BY DEF Leave
<1>3. /\ call \in TransitionCall
      /\ call.instance.currentState \in call.transition.from
      /\ ~call.instance.isComplete
      /\ AllConsent \in call.transition.guards => Principals \subseteq world.consents
  BY <1>1, <1>2, Unfold DEF Deciding
<1>4. /\ new \in TransitionCall /\ new.phase = "emitting"
      /\ new.instance = call.instance /\ new.transition = call.transition
  BY <1>3 DEF TransitionCall, Deciding
<1>5. Set(c, new) /\ UNCHANGED <<log, instances, instancesByAggregate, world>>
  BY DEF Leave
<1>. HIDE DEF new
<1>6. CallTyped(new, world) BY <1>3, <1>4 DEF CallTyped
<1>. QED BY <1>5, <1>6, TypedLocal

LEMMA TypedAppendTransitioned ==
    ASSUME TInv, NEW c \in Calls, AppendTransitioned(c)
    PROVE  TInv'
<1>. DEFINE call == calls[c]
            i == call.instance
            t == call.transition
            u == UpdatedInstance(c)
            new == [call EXCEPT !.phase = "entering", !.instance = u]
            e == WorkflowEvent("WorkflowTransitioned", call.id, u.version, t.name,
                               i.currentState, t.to)
<1>1. CallTyped(call, world) BY DEF TInv, Typed
<1>2. call.phase = "emitting" BY DEF AppendTransitioned
<1>3. /\ call \in TransitionCall
      /\ call.id \in InstanceIds /\ i \in Instance /\ t \in Transitions
      /\ i.currentState \in t.from
      /\ AllConsent \in t.guards => Principals \subseteq world.consents
  BY <1>1, <1>2, Unfold DEF Deciding
<1>4. u \in Instance BY <1>3, UpdatedCopy
<1>5. /\ log' = Append(log, e) /\ Set(c, new)
      /\ UNCHANGED <<instances, instancesByAggregate, world>>
  BY DEF AppendTransitioned
<1>. HIDE DEF call, u
<1>6. new \in TransitionCall /\ new.phase = "entering"
  BY <1>3, <1>4 DEF TransitionCall
<1>7. e \in Event
  BY <1>3, <1>4 DEF WorkflowEvent, Event, Instance, States, Names
<1>8. IsBy(e, t) BY <1>3 DEF IsBy, WorkflowEvent
<1>. HIDE DEF new, e
<1>9. CallTyped(new, world) BY <1>6 DEF CallTyped, Deciding
<1>10. (/\ e.type = "WorkflowTransitioned"
        /\ \A s \in Transitions : IsBy(e, s) => AllConsent \in s.guards)
          => Principals \subseteq world.consents
  BY <1>3, <1>8
<1>. QED BY <1>5, <1>7, <1>9, <1>10, TypedAppend

LEMMA TypedAppendCompleted ==
    ASSUME TInv, NEW c \in Calls, AppendCompleted(c)
    PROVE  TInv'
<1>. DEFINE call == calls[c]
            i == call.instance
            new == [call EXCEPT !.phase = "completed"]
            e == WorkflowEvent("WorkflowCompleted", call.id, i.version + 1, "", "",
                               i.currentState)
<1>1. CallTyped(call, world) BY DEF TInv, Typed
<1>2. call.phase = "entering" BY DEF AppendCompleted
<1>3. call \in TransitionCall /\ call.id \in InstanceIds /\ i \in Instance
  BY <1>1, <1>2, Unfold
<1>4. /\ log' = Append(log, e) /\ Set(c, new)
      /\ UNCHANGED <<instances, instancesByAggregate, world>>
  BY DEF AppendCompleted
<1>. HIDE DEF call
<1>5. new \in TransitionCall /\ new.phase = "completed"
  BY <1>3 DEF TransitionCall
<1>6. e \in Event /\ e.type # "WorkflowTransitioned"
  BY <1>3 DEF WorkflowEvent, Event, Instance
<1>. HIDE DEF new, e
<1>7. CallTyped(new, world) BY <1>5 DEF CallTyped, Deciding
<1>. QED BY <1>4, <1>6, <1>7, TypedAppend

LEMMA TypedStoreUpdated ==
    ASSUME TInv, NEW c \in Calls, StoreUpdated(c)
    PROVE  TInv'
<1>. DEFINE call == calls[c]
<1>1. CallTyped(call, world) BY DEF TInv, Typed
<1>2. call.phase \in {"entering", "completed"} BY DEF StoreUpdated
<1>3. call.instance \in Instance BY <1>1, <1>2, Unfold
<1>4. /\ instances' = [instances EXCEPT ![call.id] = call.instance]
      /\ calls' = [calls EXCEPT ![c] = Idle]
      /\ UNCHANGED <<log, instancesByAggregate, world>>
  BY DEF StoreUpdated, Set
<1>. HIDE DEF call
<1>5. /\ DOMAIN instances' = DOMAIN instances
      /\ \A id \in DOMAIN instances' : instances'[id] \in Instance
  BY <1>3, <1>4 DEF TInv, Typed
<1>6. calls' = [d \in Calls |-> calls'[d]] /\ \A d \in Calls : CallTyped(calls'[d], world')
  BY <1>4 DEF TInv, Typed, CallTyped
<1>7. Unanimous' BY <1>4 DEF TInv, Unanimous
<1>8. /\ DOMAIN instances' \subseteq InstanceIds
      /\ DOMAIN instancesByAggregate' \subseteq Targets
      /\ \A t \in DOMAIN instancesByAggregate' :
            instancesByAggregate'[t] \in DOMAIN instances'
      /\ log' \in Seq(Event) /\ world' \in World
  BY <1>4, <1>5 DEF TInv, Typed
<1>. QED BY <1>5, <1>6, <1>7, <1>8 DEF TInv, Typed

LEMMA TypedRestart == ASSUME TInv, Restart PROVE TInv'
<1>1. /\ instances' = << >> /\ instancesByAggregate' = << >>
      /\ calls' = [c \in Calls |-> Idle] /\ log' = log /\ world' = world
  BY DEF Restart
<1>2. DOMAIN instances' = {} /\ DOMAIN instancesByAggregate' = {} BY <1>1
<1>3. calls' = [d \in Calls |-> calls'[d]] /\ \A d \in Calls : CallTyped(calls'[d], world')
  BY <1>1 DEF CallTyped
<1>4. Unanimous' BY <1>1 DEF TInv, Unanimous
<1>. QED BY <1>1, <1>2, <1>3, <1>4 DEF TInv, Typed

\* Consent is never taken back.
LEMMA TypedWorldMoves == ASSUME TInv, WorldMoves PROVE TInv'
<1>1. world \in World /\ UNCHANGED <<log, instances, instancesByAggregate, calls>>
  BY DEF TInv, Typed, WorldMoves
<1>2. world' \in World /\ world.consents \subseteq world'.consents
  <2>1. CASE \E p \in Principals \ world.consents :
                world' = [world EXCEPT !.consents = @ \cup {p}]
    BY <1>1, <2>1 DEF World
  <2>2. CASE \E r \in Roles :
                world' = [world EXCEPT !.roles = IF r \in @ THEN @ \ {r} ELSE @ \cup {r}]
    <3>1. PICK r \in Roles :
             world' = [world EXCEPT !.roles = IF r \in @ THEN @ \ {r} ELSE @ \cup {r}]
      BY <2>2
    <3>. DEFINE now == IF r \in world.roles THEN world.roles \ {r}
                       ELSE world.roles \cup {r}
    <3>2. now \in SUBSET Roles BY <1>1 DEF World
    <3>3. world' = [world EXCEPT !.roles = now] BY <3>1
    <3>. HIDE DEF now
    <3>. QED BY <1>1, <3>2, <3>3 DEF World
  <2>3. CASE \E x \in Conditions :
                world' = [world EXCEPT !.conditions =
                             IF x \in @ THEN @ \ {x} ELSE @ \cup {x}]
    <3>1. PICK x \in Conditions :
             world' = [world EXCEPT !.conditions =
                          IF x \in @ THEN @ \ {x} ELSE @ \cup {x}]
      BY <2>3
    <3>. DEFINE now == IF x \in world.conditions THEN world.conditions \ {x}
                       ELSE world.conditions \cup {x}
    <3>2. now \in SUBSET Conditions BY <1>1 DEF World
    <3>3. world' = [world EXCEPT !.conditions = now] BY <3>1
    <3>. HIDE DEF now
    <3>. QED BY <1>1, <3>2, <3>3 DEF World
  <2>. QED BY <2>1, <2>2, <2>3 DEF WorldMoves
<1>3. \A d \in Calls : CallTyped(calls'[d], world')
  <2>. SUFFICES ASSUME NEW d \in Calls PROVE CallTyped(calls[d], world')
    BY <1>1
  <2>1. CallTyped(calls[d], world) BY DEF TInv, Typed
  <2>. QED BY <1>2, <2>1 DEF CallTyped
<1>4. Unanimous' BY <1>1, <1>2 DEF TInv, Unanimous
<1>5. /\ DOMAIN instances' \subseteq InstanceIds
      /\ \A id \in DOMAIN instances' : instances'[id] \in Instance
      /\ DOMAIN instancesByAggregate' \subseteq Targets
      /\ \A t \in DOMAIN instancesByAggregate' :
            instancesByAggregate'[t] \in DOMAIN instances'
      /\ log' \in Seq(Event) /\ calls' = [c \in Calls |-> calls'[c]]
  BY <1>1 DEF TInv, Typed
<1>. QED BY <1>2, <1>3, <1>4, <1>5 DEF TInv, Typed

LEMMA TypedStutter == ASSUME TInv, UNCHANGED vars PROVE TInv'
<1>1. Typed' BY DEF TInv, Typed, vars
<1>2. Unanimous' BY DEF TInv, Unanimous, vars
<1>. QED BY <1>1, <1>2 DEF TInv

LEMMA TypedNext == ASSUME TInv, [Next]_vars PROVE TInv'
<1>1. ASSUME NEW c \in Calls, NEW target \in Targets, Start(c, target) PROVE TInv'
  BY <1>1, TypedStart
<1>2. ASSUME NEW c \in Calls, NEW id \in DOMAIN instances, NEW t \in Transitions,
             NEW a \in Actors, Request(c, id, t, a)
      PROVE  TInv'
  BY <1>2, TypedRequest
<1>3. ASSUME NEW c \in Calls, CallStep(c) PROVE TInv'
  <2>1. CASE AppendCreated(c) BY <2>1, TypedAppendCreated
  <2>2. CASE StoreCreated(c) BY <2>2, TypedStoreCreated
  <2>3. CASE Authorize(c) BY <2>3, TypedAuthorize
  <2>4. CASE EvaluateGuards(c) BY <2>4, TypedEvaluateGuards
  <2>5. CASE Leave(c) BY <2>5, TypedLeave
  <2>6. CASE AppendTransitioned(c) BY <2>6, TypedAppendTransitioned
  <2>7. CASE AppendCompleted(c) BY <2>7, TypedAppendCompleted
  <2>8. CASE StoreUpdated(c) BY <2>8, TypedStoreUpdated
  <2>9. CASE Conflict(c) BY <2>9, IdleTyped, TypedLocal DEF Conflict
  <2>. QED BY <1>3, <2>1, <2>2, <2>3, <2>4, <2>5, <2>6, <2>7, <2>8, <2>9 DEF CallStep
<1>4. ASSUME NEW c \in Calls, Fail(c) PROVE TInv'
  BY <1>4, IdleTyped, TypedLocal DEF Fail
<1>5. CASE Restart BY <1>5, TypedRestart
<1>6. CASE WorldMoves BY <1>6, TypedWorldMoves
<1>7. CASE UNCHANGED vars BY <1>7, TypedStutter
<1>. QED BY <1>1, <1>2, <1>3, <1>4, <1>5, <1>6, <1>7 DEF Next

LEMMA TypedInvariance == Spec => []TInv
BY TypedInit, TypedNext, PTL DEF Spec

LEMMA TypedIsTypeOK == ASSUME TInv PROVE TypeOK
<1>1. ASSUME NEW c \in Calls, calls[c].phase # "idle"
      PROVE  calls[c].id \in InstanceIds /\ calls[c].instance \in Instance
  BY <1>1 DEF TInv, Typed, CallTyped, StartCall, TransitionCall, Idle
<1>. QED BY <1>1 DEF TInv, Typed, TypeOK

\* The map, the index by aggregate and every copy in flight keep their types:
\* the index never names an instance the map has lost, and a version in
\* memory is never 0 (startWorkflow puts in 1, transition adds 1).
THEOREM TypeCorrect == Spec => []TypeOK
<1>1. TInv => TypeOK BY TypedIsTypeOK
<1>. QED BY <1>1, TypedInvariance, PTL

\* No transition that asks for the consent of all enters the log without it,
\* with either store: consent is read at the guards, long before the append
\* (workflow-engine.ts), and is never taken back.
THEOREM UnanimousHolds == Spec => []Unanimous
<1>1. TInv => Unanimous BY DEF TInv
<1>. QED BY <1>1, TypedInvariance, PTL


-----------------------------------------------------------------------------
(***************************************************************************)
(* Induction over the places of the log.                                   *)
(***************************************************************************)
\* A set of natural numbers that is not empty has a least one.
LEMMA LeastNumber ==
    ASSUME NEW T \in SUBSET Nat, T # {}
    PROVE  \E n \in T : \A m \in T : n <= m
<1> DEFINE R == OpToRel(<, Nat)
<1>1. \A m, n \in Nat : <<m, n>> \in R <=> m < n
  BY DEF OpToRel
<1>2. IsWellFoundedOn(R, Nat)
  BY NatLessThanWellFounded
<1> HIDE DEF R
<1>3. PICK n \in T : \A m \in T : ~ (<<m, n>> \in R)
  BY <1>2, WFMin
<1>4. ASSUME NEW m \in T PROVE n <= m
  <2>1. ~ (<<m, n>> \in R) /\ m \in Nat /\ n \in Nat
    BY <1>3
  <2>2. ~ (m < n)
    BY <1>1, <2>1
  <2>3. QED BY <2>1, <2>2
<1>5. QED BY <1>4

\* Induction over the numbers up to n, for a set of numbers instead of a
\* predicate.
LEMMA UpTo ==
    ASSUME NEW n \in Nat, NEW T, 0 \in T,
           \A k \in 1 .. n : k - 1 \in T => k \in T
    PROVE  0 .. n \subseteq T
<1> DEFINE bad == {k \in 0 .. n : k \notin T}
<1>1. ASSUME bad # {} PROVE FALSE
  <2>1. bad \in SUBSET Nat
    OBVIOUS
  <2>2. PICK k \in bad : \A j \in bad : k <= j
    BY <1>1, <2>1, LeastNumber
  <2>3. k \in 1 .. n /\ k \notin T
    BY <2>2
  <2>4. k - 1 \in 0 .. n /\ ~ (k <= k - 1)
    BY <2>3
  <2>5. k - 1 \notin bad
    BY <2>2, <2>4
  <2>6. QED BY <2>3, <2>4, <2>5
<1>2. QED BY <1>1

IsResult(f, S, a, N, step) ==
    f \in [0 .. N -> S] /\ f[0] = a /\ \A n \in 1 .. N : f[n] = step[n][f[n - 1]]

\* A loop over numbered steps has a result.
LEMMA FoldExists ==
    ASSUME NEW S, NEW a \in S, NEW N \in Nat, NEW step \in [1 .. N -> [S -> S]]
    PROVE  \E f : IsResult(f, S, a, N, step)
<1>. DEFINE Upto(k, f) == /\ f \in [0 .. k -> S] /\ f[0] = a
                          /\ \A n \in 1 .. k : f[n] = step[n][f[n - 1]]
            T == {k \in 0 .. N : \E f : Upto(k, f)}
<1>1. 0 \in T
  <2>1. Upto(0, [n \in 0 .. 0 |-> a]) OBVIOUS
  <2>. HIDE DEF Upto
  <2>. QED BY <2>1
<1>2. ASSUME NEW k \in 1 .. N, k - 1 \in T PROVE k \in T
  <2>1. PICK f : Upto(k - 1, f) BY <1>2
  <2>. DEFINE g == [n \in 0 .. k |-> IF n = k THEN step[k][f[k - 1]] ELSE f[n]]
  <2>2. k - 1 \in 0 .. (k - 1) /\ f[k - 1] \in S BY <2>1
  <2>3. step[k] \in [S -> S] OBVIOUS
  <2>4. step[k][f[k - 1]] \in S BY <2>2, <2>3
  <2>5. g \in [0 .. k -> S]
    <3>. SUFFICES ASSUME NEW n \in 0 .. k PROVE g[n] \in S
      OBVIOUS
    <3>1. CASE n = k BY <2>4, <3>1
    <3>2. CASE n # k
      <4>1. n \in 0 .. (k - 1) BY <3>2
      <4>. QED BY <2>1, <3>2, <4>1
    <3>. QED BY <3>1, <3>2
  <2>6. g[0] = a BY <2>1
  <2>7. ASSUME NEW n \in 1 .. k PROVE g[n] = step[n][g[n - 1]]
    <3>1. g[n - 1] = f[n - 1] OBVIOUS
    <3>2. CASE n = k BY <3>1, <3>2
    <3>3. CASE n # k
      <4>1. n \in 1 .. (k - 1) /\ g[n] = f[n] BY <3>3
      <4>. QED BY <2>1, <3>1, <4>1
    <3>. QED BY <3>2, <3>3
  <2>8. Upto(k, g) BY <2>5, <2>6, <2>7
  <2>. HIDE DEF Upto, g
  <2>. QED BY <2>8
<1>. HIDE DEF T
<1>3. 0 .. N \subseteq T BY <1>1, <1>2, UpTo
<1>4. N \in T BY <1>3
<1>. QED BY <1>4 DEF T, IsResult

-----------------------------------------------------------------------------
(***************************************************************************)
(* The rehydrator: what it says after one event more.                      *)
(***************************************************************************)
Rebuilt == [version : Nat, currentState : States \cup {""}, history : Seq(Entry),
            isComplete : BOOLEAN]

Applied(s, e, id) == IF e.id = id THEN Apply(s, e) ELSE s

LEMMA NotCreatedRebuilt == NotCreated \in Rebuilt
BY EmptySeq DEF NotCreated, Rebuilt

LEMMA ApplyRebuilt ==
    ASSUME NEW s \in Rebuilt, NEW e \in Event
    PROVE  Apply(s, e) \in Rebuilt
<1>1. /\ e.version \in Nat /\ e.to \in States /\ e.name \in Names \cup {""}
      /\ e.from \in States \cup {""}
      /\ e.type \in {"WorkflowInstanceCreated", "WorkflowTransitioned",
                     "WorkflowCompleted"}
  BY DEF Event
<1>2. CASE e.type = "WorkflowInstanceCreated"
  BY <1>1, <1>2, NotCreatedRebuilt DEF Apply, Rebuilt
<1>3. CASE e.type = "WorkflowTransitioned"
  <2>. DEFINE entry == [name |-> e.name, from |-> e.from, to |-> e.to]
              h == Append(s.history, entry)
  <2>1. entry \in Entry BY <1>1 DEF Entry
  <2>2. s.history \in Seq(Entry) BY DEF Rebuilt
  <2>3. h \in Seq(Entry) BY <2>1, <2>2, AppendProperties
  <2>4. Apply(s, e) = [s EXCEPT !.version = e.version, !.currentState = e.to,
                                !.history = h]
    BY <1>3 DEF Apply
  <2>. HIDE DEF h
  <2>. QED BY <1>1, <2>3, <2>4 DEF Rebuilt
<1>4. CASE e.type = "WorkflowCompleted" BY <1>1, <1>4 DEF Apply, Rebuilt
<1>. QED BY <1>1, <1>2, <1>3, <1>4

IsFold(f, L, id) ==
    /\ f \in [0 .. Len(L) -> Rebuilt]
    /\ f[0] = NotCreated
    /\ \A n \in 1 .. Len(L) : f[n] = Applied(f[n - 1], L[n], id)

LEMMA RehydratorFold ==
    ASSUME NEW L \in Seq(Event), NEW id
    PROVE  \E f : IsFold(f, L, id) /\ WorkflowRehydrator(L, id) = f[Len(L)]
<1>. DEFINE N == Len(L)
            step == [n \in 1 .. N |-> [s \in Rebuilt |-> Applied(s, L[n], id)]]
            Fcn(g) == [k \in 0 .. N |-> IF k = 0 THEN NotCreated
                                        ELSE IF L[k].id = id THEN Apply(g[k - 1], L[k])
                                        ELSE g[k - 1]]
<1>1. N \in Nat /\ \A n \in 1 .. N : L[n] \in Event OBVIOUS
<1>. HIDE DEF N
<1>2. ASSUME NEW n \in 1 .. N, NEW s \in Rebuilt PROVE Applied(s, L[n], id) \in Rebuilt
  BY <1>1, ApplyRebuilt DEF Applied
<1>3. step \in [1 .. N -> [Rebuilt -> Rebuilt]] BY <1>2
<1>4. \A n \in 1 .. N : \A s \in Rebuilt : step[n][s] = Applied(s, L[n], id)
  OBVIOUS
<1>. HIDE DEF step
<1>. HIDE DEF Fcn
<1>a. PICK g : IsResult(g, Rebuilt, NotCreated, N, step)
  BY <1>1, <1>3, NotCreatedRebuilt, FoldExists
<1>5. /\ g \in [0 .. N -> Rebuilt] /\ g[0] = NotCreated
      /\ \A n \in 1 .. N : g[n] = step[n][g[n - 1]]
  BY <1>a DEF IsResult
<1>. USE DEF Fcn
<1>6. g = Fcn(g)
  <2>1. ASSUME NEW n \in 0 .. N PROVE g[n] = Fcn(g)[n]
    <3>1. CASE n = 0 BY <1>1, <1>5, <3>1
    <3>2. CASE n # 0
      <4>1. n \in 1 .. N /\ n - 1 \in 0 .. N BY <1>1, <3>2
      <4>2. g[n] = Applied(g[n - 1], L[n], id) BY <1>4, <1>5, <4>1
      <4>. QED BY <3>2, <4>2 DEF Applied
    <3>. QED BY <3>1, <3>2
  <2>2. g = [n \in 0 .. N |-> g[n]] BY <1>5
  <2>. QED BY <2>1, <2>2
<1>. DEFINE f == CHOOSE h : h = Fcn(h)
<1>7. f = Fcn(f)
  <2>. HIDE DEF Fcn
  <2>1. \E h : h = Fcn(h) BY <1>6
  <2>. QED BY <2>1
<1>8. WorkflowRehydrator(L, id) = f[N] BY DEF WorkflowRehydrator, N
<1>. HIDE DEF f
<1>9. DOMAIN f = 0 .. N /\ f = [n \in 0 .. N |-> f[n]] BY <1>7
<1>10. f[0] = NotCreated
  <2>1. f[0] = Fcn(f)[0] BY <1>7
  <2>. QED BY <1>1, <2>1
<1>11. ASSUME NEW n \in 1 .. N PROVE f[n] = Applied(f[n - 1], L[n], id)
  <2>1. f[n] = Fcn(f)[n] BY <1>7
  <2>2. n \in 0 .. N /\ n # 0 BY <1>1
  <2>. QED BY <2>1, <2>2 DEF Applied
<1>12. \A n \in 0 .. N : f[n] \in Rebuilt
  <2>. DEFINE T == {k \in 0 .. N : f[k] \in Rebuilt}
  <2>1. 0 \in T BY <1>1, <1>10, NotCreatedRebuilt
  <2>2. ASSUME NEW k \in 1 .. N, k - 1 \in T PROVE k \in T
    BY <1>1, <1>2, <1>11, <2>2
  <2>. HIDE DEF T
  <2>3. 0 .. N \subseteq T BY <1>1, <2>1, <2>2, UpTo
  <2>. QED BY <2>3 DEF T
<1>13. IsFold(f, L, id) BY <1>9, <1>10, <1>11, <1>12 DEF IsFold, N
<1>. QED BY <1>8, <1>13 DEF N

LEMMA RehydratorType ==
    ASSUME NEW L \in Seq(Event), NEW id
    PROVE  WorkflowRehydrator(L, id) \in Rebuilt
<1>1. PICK f : IsFold(f, L, id) /\ WorkflowRehydrator(L, id) = f[Len(L)]
  BY RehydratorFold
<1>2. Len(L) \in 0 .. Len(L) OBVIOUS
<1>. QED BY <1>1, <1>2 DEF IsFold

LEMMA RehydratorEmpty == \A id : WorkflowRehydrator(<< >>, id) = NotCreated
<1>. SUFFICES ASSUME NEW id PROVE WorkflowRehydrator(<< >>, id) = NotCreated
  OBVIOUS
<1>1. << >> \in Seq(Event) /\ Len(<< >>) = 0 OBVIOUS
<1>2. PICK f : IsFold(f, << >>, id) /\ WorkflowRehydrator(<< >>, id) = f[Len(<< >>)]
  BY <1>1, RehydratorFold
<1>. QED BY <1>1, <1>2 DEF IsFold

LEMMA RehydratorAppend ==
    ASSUME NEW L \in Seq(Event), NEW e \in Event, NEW id
    PROVE  WorkflowRehydrator(Append(L, e), id) = Applied(WorkflowRehydrator(L, id), e, id)
<1>. DEFINE N == Len(L)
            M == Append(L, e)
<1>1. /\ N \in Nat /\ M \in Seq(Event) /\ Len(M) = N + 1
      /\ \A i \in 1 .. N : M[i] = L[i]
      /\ M[N + 1] = e
  BY AppendProperties
<1>. HIDE DEF M
<1>2. PICK f : IsFold(f, L, id) /\ WorkflowRehydrator(L, id) = f[N]
  BY RehydratorFold
<1>3. PICK g : IsFold(g, M, id) /\ WorkflowRehydrator(M, id) = g[N + 1]
  BY <1>1, RehydratorFold
<1>4. f[0] = NotCreated /\ \A n \in 1 .. N : f[n] = Applied(f[n - 1], L[n], id)
  BY <1>2 DEF IsFold
<1>5. g[0] = NotCreated /\ \A n \in 1 .. (N + 1) : g[n] = Applied(g[n - 1], M[n], id)
  BY <1>1, <1>3 DEF IsFold
<1>. HIDE DEF N
<1>. DEFINE T == {k \in 0 .. N : g[k] = f[k]}
<1>6. 0 \in T BY <1>1, <1>4, <1>5
<1>7. ASSUME NEW k \in 1 .. N, k - 1 \in T PROVE k \in T
  <2>1. k \in 0 .. N /\ k \in 1 .. (N + 1) /\ g[k - 1] = f[k - 1] /\ M[k] = L[k]
    BY <1>1, <1>7
  <2>2. g[k] = f[k] BY <1>4, <1>5, <2>1
  <2>. QED BY <2>1, <2>2
<1>. HIDE DEF T
<1>8. 0 .. N \subseteq T BY <1>1, <1>6, <1>7, UpTo
<1>9. g[N] = f[N] BY <1>1, <1>8 DEF T
<1>10. g[N + 1] = Applied(g[N], e, id)
  <2>1. N + 1 \in 1 .. (N + 1) /\ (N + 1) - 1 = N BY <1>1
  <2>2. g[N + 1] = Applied(g[(N + 1) - 1], M[N + 1], id) BY <1>5, <2>1
  <2>. QED BY <1>1, <2>1, <2>2
<1>. QED BY <1>2, <1>3, <1>9, <1>10 DEF M

-----------------------------------------------------------------------------
(***************************************************************************)
(* The log (L) and the map, with a store that checks versions.             *)
(***************************************************************************)
EventsIn(L, id) == {k \in DOMAIN L : L[k].id = id}

CountIn(L, id) == Cardinality(EventsIn(L, id))

\* The versions of an instance grow along the log up to the number of its
\* events.
Numbered(L) ==
    \A k \in DOMAIN L :
        /\ L[k].version <= CountIn(L, L[k].id)
        /\ \A m \in EventsIn(L, L[k].id) : k < m => L[k].version < L[m].version

IsRun(L) ==
    \A k \in DOMAIN L : L[k].type = "WorkflowTransitioned" =>
        /\ \E t \in Transitions : IsBy(L[k], t)
        /\ \E j \in EventsIn(L, L[k].id) :
              /\ j < k /\ L[j].to = L[k].from
              /\ \A m \in EventsIn(L, L[k].id) : m <= j \/ m >= k

CompletedIsLast(L) ==
    \A k \in DOMAIN L : L[k].type = "WorkflowCompleted" =>
        /\ \A m \in EventsIn(L, L[k].id) : m <= k
        /\ L[k].to \in TerminalStates

IsOver(L, id) == \E k \in EventsIn(L, id) : L[k].type = "WorkflowCompleted"

\* What the rehydrator says of an instance: nothing before its first event,
\* then an entry of its history for each transition.
SaysOf(L, id) ==
    LET r == WorkflowRehydrator(L, id)  n == CountIn(L, id) IN
    /\ n = 0 => r = NotCreated
    /\ r.isComplete <=> IsOver(L, id)
    /\ n > 0 => Len(r.history) = IF r.isComplete THEN n - 2 ELSE n - 1

LogGood(L) ==
    /\ L \in Seq(Event)
    /\ Numbered(L) /\ IsRun(L) /\ CompletedIsLast(L)
    /\ \A id \in InstanceIds : SaysOf(L, id)

\* A copy of an instance was made from an event that is not its completion,
\* and its history is a beginning of what the log says.
Behind(L, id, i) ==
    LET r == WorkflowRehydrator(L, id) IN
    /\ \E k \in EventsIn(L, id) : /\ L[k].version = i.version
                                  /\ L[k].to = i.currentState
                                  /\ L[k].type # "WorkflowCompleted"
    /\ Len(i.history) = i.version - 1
    /\ Len(i.history) <= Len(r.history)
    /\ \A n \in 1 .. Len(i.history) : i.history[n] = r.history[n]
    /\ i.isComplete => i.currentState \in TerminalStates

CallBehind(L, call) ==
    /\ call.phase = "creating" => \E target \in Targets : call.instance = NewInstance(target)
    /\ call.phase \in {"created", "entering", "completed"} \cup Deciding =>
          Behind(L, call.id, call.instance)
    /\ call.phase = "created" => ~call.instance.isComplete
    /\ call.phase = "completed" => IsOver(L, call.id)

VInv ==
    /\ TInv
    /\ LogGood(log)
    /\ \A id \in DOMAIN instances :
          /\ Behind(log, id, instances[id])
          /\ instances[id].isComplete => IsOver(log, id)
    /\ \A c \in Calls : CallBehind(log, calls[c])

-----------------------------------------------------------------------------
LEMMA EventsFinite ==
    ASSUME NEW L \in Seq(Event), NEW id
    PROVE  /\ EventsIn(L, id) \subseteq 1 .. Len(L)
           /\ IsFiniteSet(EventsIn(L, id)) /\ CountIn(L, id) \in Nat
           /\ CountIn(L, id) = 0 <=> EventsIn(L, id) = {}
<1>1. EventsIn(L, id) \subseteq 1 .. Len(L) /\ Len(L) \in Nat BY DEF EventsIn
<1>2. IsFiniteSet(1 .. Len(L)) BY <1>1, FS_Interval
<1>3. IsFiniteSet(EventsIn(L, id)) BY <1>1, <1>2, FS_Subset
<1>4. CountIn(L, id) \in Nat BY <1>3, FS_CardinalityType DEF CountIn
<1>5. CountIn(L, id) = 0 <=> EventsIn(L, id) = {} BY <1>3, FS_EmptySet DEF CountIn
<1>. QED BY <1>1, <1>3, <1>4, <1>5

\* One event more.
LEMMA EventsAppend ==
    ASSUME NEW L \in Seq(Event), NEW e \in Event
    PROVE  /\ Append(L, e) \in Seq(Event) /\ Len(Append(L, e)) = Len(L) + 1
           /\ DOMAIN Append(L, e) = 1 .. (Len(L) + 1)
           /\ DOMAIN L = 1 .. Len(L) /\ Len(L) \in Nat
           /\ \A k \in 1 .. Len(L) : Append(L, e)[k] = L[k]
           /\ Append(L, e)[Len(L) + 1] = e
           /\ EventsIn(Append(L, e), e.id) = EventsIn(L, e.id) \cup {Len(L) + 1}
           /\ CountIn(Append(L, e), e.id) = CountIn(L, e.id) + 1
           /\ \A id : id # e.id => /\ EventsIn(Append(L, e), id) = EventsIn(L, id)
                                   /\ CountIn(Append(L, e), id) = CountIn(L, id)
<1>. DEFINE M == Append(L, e)
            N == Len(L)
<1>1. /\ M \in Seq(Event) /\ Len(M) = N + 1 /\ N \in Nat
      /\ DOMAIN M = 1 .. (N + 1) /\ DOMAIN L = 1 .. N
      /\ \A k \in 1 .. N : M[k] = L[k]
      /\ M[N + 1] = e
  BY AppendProperties
<1>. HIDE DEF M, N
<1>2. EventsIn(M, e.id) = EventsIn(L, e.id) \cup {N + 1} BY <1>1 DEF EventsIn
<1>3. \A id : id # e.id => EventsIn(M, id) = EventsIn(L, id)
  <2>. SUFFICES ASSUME NEW id, id # e.id PROVE EventsIn(M, id) = EventsIn(L, id)
    OBVIOUS
  <2>1. \A k \in 1 .. (N + 1) : M[k].id = id <=> k \in 1 .. N /\ L[k].id = id
    BY <1>1
  <2>. QED BY <1>1, <2>1 DEF EventsIn
<1>4. N + 1 \notin EventsIn(L, e.id) BY <1>1 DEF EventsIn
<1>5. IsFiniteSet(EventsIn(L, e.id)) BY EventsFinite
<1>6. CountIn(M, e.id) = CountIn(L, e.id) + 1
  BY <1>2, <1>4, <1>5, FS_AddElement DEF CountIn
<1>7. \A id : id # e.id => CountIn(M, id) = CountIn(L, id) BY <1>3 DEF CountIn
<1>. QED BY <1>1, <1>2, <1>3, <1>6, <1>7 DEF M, N

\* The event whose version is the number of events is the last one.
LEMMA LatestEvent ==
    ASSUME NEW L \in Seq(Event), Numbered(L), NEW id, NEW k \in EventsIn(L, id),
           L[k].version = CountIn(L, id)
    PROVE  \A m \in EventsIn(L, id) : m <= k
<1>. SUFFICES ASSUME NEW m \in EventsIn(L, id), k < m PROVE FALSE
  BY EventsFinite
<1>1. k \in DOMAIN L /\ m \in DOMAIN L /\ L[k].id = id /\ L[m].id = id
  BY DEF EventsIn
<1>2. L[k].version < L[m].version /\ L[m].version <= CountIn(L, id)
  BY <1>1 DEF Numbered
<1>3. CountIn(L, id) \in Nat BY EventsFinite
<1>4. L[m] \in Event BY <1>1
<1>5. L[m].version \in Nat BY <1>4 DEF Event
<1>. QED BY <1>2, <1>3, <1>5

\* A copy whose version is the number of events is made from the last one, so
\* the instance is not over.
LEMMA UpToDate ==
    ASSUME NEW L, LogGood(L), NEW id \in InstanceIds, NEW k \in EventsIn(L, id),
           L[k].version = CountIn(L, id), L[k].type # "WorkflowCompleted"
    PROVE  ~IsOver(L, id) /\ ~WorkflowRehydrator(L, id).isComplete
<1>1. L \in Seq(Event) /\ Numbered(L) BY DEF LogGood
<1>2. \A m \in EventsIn(L, id) : m <= k BY <1>1, LatestEvent
<1>3. ASSUME NEW j \in EventsIn(L, id), L[j].type = "WorkflowCompleted" PROVE FALSE
  <2>1. j \in DOMAIN L /\ L[j].id = id BY DEF EventsIn
  <2>2. k <= j BY <1>3, <2>1 DEF LogGood, CompletedIsLast
  <2>3. j <= k BY <1>2
  <2>4. j \in Nat /\ k \in Nat BY <1>1, EventsFinite
  <2>5. j = k BY <2>2, <2>3, <2>4
  <2>. QED BY <1>3, <2>5
<1>4. ~IsOver(L, id) BY <1>3 DEF IsOver
<1>5. SaysOf(L, id) BY DEF LogGood
<1>6. ~WorkflowRehydrator(L, id).isComplete
  <2>. DEFINE r == WorkflowRehydrator(L, id)
  <2>1. r.isComplete <=> IsOver(L, id) BY <1>5 DEF SaysOf
  <2>. QED BY <1>4, <2>1
<1>. QED BY <1>4, <1>6

\* What an event has to be to enter the log.
Fits(L, e) ==
    /\ e \in Event
    /\ e.version = CountIn(L, e.id) + 1
    /\ e.type = "WorkflowInstanceCreated" => CountIn(L, e.id) = 0
    /\ e.type # "WorkflowInstanceCreated" =>
          \E k \in EventsIn(L, e.id) :
              /\ L[k].version = CountIn(L, e.id) /\ L[k].type # "WorkflowCompleted"
              /\ e.type = "WorkflowTransitioned" => L[k].to = e.from
    /\ e.type = "WorkflowTransitioned" => \E t \in Transitions : IsBy(e, t)
    /\ e.type = "WorkflowCompleted" => e.to \in TerminalStates

LEMMA AppendNumbered ==
    ASSUME NEW L, LogGood(L), NEW e, Fits(L, e)
    PROVE  Numbered(Append(L, e))
<1>. DEFINE M == Append(L, e)
            N == Len(L)
<1>1. L \in Seq(Event) /\ Numbered(L) /\ e \in Event BY DEF LogGood, Fits
<1>2. /\ DOMAIN M = 1 .. (N + 1) /\ DOMAIN L = 1 .. N /\ N \in Nat
      /\ \A k \in 1 .. N : M[k] = L[k]
      /\ M[N + 1] = e
      /\ EventsIn(M, e.id) = EventsIn(L, e.id) \cup {N + 1}
      /\ CountIn(M, e.id) = CountIn(L, e.id) + 1
      /\ \A id : id # e.id => /\ EventsIn(M, id) = EventsIn(L, id)
                              /\ CountIn(M, id) = CountIn(L, id)
  BY <1>1, EventsAppend
<1>. HIDE DEF M, N
<1>. SUFFICES ASSUME NEW k \in DOMAIN M
              PROVE  /\ M[k].version <= CountIn(M, M[k].id)
                     /\ \A m \in EventsIn(M, M[k].id) : k < m => M[k].version < M[m].version
  BY DEF Numbered, M
<1>3. e.version = CountIn(L, e.id) + 1 BY DEF Fits
<1>4. CASE k = N + 1
  <2>1. M[k].version <= CountIn(M, M[k].id)
    <3>1. CountIn(L, e.id) \in Nat BY <1>1, EventsFinite
    <3>. QED BY <1>2, <1>3, <1>4, <3>1
  <2>2. \A m \in EventsIn(M, M[k].id) : ~(k < m)
    BY <1>2, <1>4 DEF EventsIn
  <2>. QED BY <2>1, <2>2
<1>5. CASE k # N + 1
  <2>1. k \in 1 .. N /\ M[k] = L[k] BY <1>2, <1>5
  <2>a. L[k] \in Event BY <1>1, <1>2, <2>1
  <2>b. L[k].version \in Nat BY <2>a DEF Event
  <2>c. CountIn(L, L[k].id) \in Nat BY <1>1, EventsFinite
  <2>2. /\ L[k].version <= CountIn(L, L[k].id) /\ L[k].version \in Nat
        /\ \A m \in EventsIn(L, L[k].id) : k < m => L[k].version < L[m].version
        /\ CountIn(L, L[k].id) \in Nat
    BY <1>1, <1>2, <2>1, <2>b, <2>c DEF Numbered
  <2>3. CASE L[k].id = e.id
    <3>1. M[k].version <= CountIn(M, M[k].id) BY <1>2, <2>1, <2>2, <2>3
    <3>2. ASSUME NEW m \in EventsIn(M, M[k].id), k < m PROVE M[k].version < M[m].version
      <4>1. CASE m = N + 1
        BY <1>2, <1>3, <2>1, <2>2, <2>3, <4>1
      <4>2. CASE m # N + 1
        <5>1. m \in EventsIn(L, L[k].id) BY <1>2, <2>1, <2>3, <4>2
        <5>2. m \in 1 .. N BY <1>2, <5>1 DEF EventsIn
        <5>. QED BY <1>2, <2>1, <2>2, <3>2, <5>1, <5>2
      <4>. QED BY <4>1, <4>2
    <3>. QED BY <3>1, <3>2
  <2>4. CASE L[k].id # e.id
    <3>1. /\ EventsIn(M, M[k].id) = EventsIn(L, L[k].id)
          /\ CountIn(M, M[k].id) = CountIn(L, L[k].id)
      BY <1>2, <2>1, <2>4
    <3>2. \A m \in EventsIn(L, L[k].id) : M[m] = L[m]
      BY <1>2 DEF EventsIn
    <3>. QED BY <2>1, <2>2, <3>1, <3>2
  <2>. QED BY <2>3, <2>4
<1>. QED BY <1>4, <1>5

LEMMA AppendIsRun ==
    ASSUME NEW L, LogGood(L), NEW e, Fits(L, e)
    PROVE  IsRun(Append(L, e))
<1>. DEFINE M == Append(L, e)
            N == Len(L)
<1>1. L \in Seq(Event) /\ Numbered(L) /\ IsRun(L) /\ e \in Event BY DEF LogGood, Fits
<1>2. /\ DOMAIN M = 1 .. (N + 1) /\ DOMAIN L = 1 .. N /\ N \in Nat
      /\ \A k \in 1 .. N : M[k] = L[k]
      /\ M[N + 1] = e
      /\ EventsIn(M, e.id) = EventsIn(L, e.id) \cup {N + 1}
      /\ \A id : id # e.id => EventsIn(M, id) = EventsIn(L, id)
  BY <1>1, EventsAppend
<1>. HIDE DEF M, N
<1>. SUFFICES ASSUME NEW k \in DOMAIN M, M[k].type = "WorkflowTransitioned"
              PROVE  /\ \E t \in Transitions : IsBy(M[k], t)
                     /\ \E j \in EventsIn(M, M[k].id) :
                           /\ j < k /\ M[j].to = M[k].from
                           /\ \A m \in EventsIn(M, M[k].id) : m <= j \/ m >= k
  BY DEF IsRun, M
<1>3. CASE k = N + 1
  <2>1. M[k] = e BY <1>2, <1>3
  <2>2. PICK j \in EventsIn(L, e.id) :
           L[j].version = CountIn(L, e.id) /\ L[j].to = e.from
    BY <2>1 DEF Fits
  <2>3. \A m \in EventsIn(L, e.id) : m <= j BY <1>1, <2>2, LatestEvent
  <2>4. j \in 1 .. N /\ M[j] = L[j] BY <1>2 DEF EventsIn
  <2>5. \A m \in EventsIn(M, e.id) : m <= j \/ m >= k
    BY <1>2, <1>3, <2>3
  <2>6. j \in EventsIn(M, e.id) /\ j < k BY <1>2, <1>3, <2>4
  <2>7. \E t \in Transitions : IsBy(e, t) BY <2>1 DEF Fits
  <2>. QED BY <2>1, <2>2, <2>4, <2>5, <2>6, <2>7
<1>4. CASE k # N + 1
  <2>1. k \in 1 .. N /\ k \in DOMAIN L /\ M[k] = L[k] BY <1>2, <1>4
  <2>2. /\ \E t \in Transitions : IsBy(L[k], t)
        /\ \E j \in EventsIn(L, L[k].id) :
              /\ j < k /\ L[j].to = L[k].from
              /\ \A m \in EventsIn(L, L[k].id) : m <= j \/ m >= k
    BY <1>1, <2>1 DEF IsRun
  <2>3. PICK j \in EventsIn(L, L[k].id) :
              /\ j < k /\ L[j].to = L[k].from
              /\ \A m \in EventsIn(L, L[k].id) : m <= j \/ m >= k
    BY <2>2
  <2>4. j \in 1 .. N /\ M[j] = L[j] BY <1>2 DEF EventsIn
  <2>5. /\ EventsIn(L, L[k].id) \subseteq EventsIn(M, L[k].id)
        /\ EventsIn(M, L[k].id) \subseteq EventsIn(L, L[k].id) \cup {N + 1}
    BY <1>2
  <2>6. N + 1 >= k BY <1>2, <2>1
  <2>7. \A m \in EventsIn(M, L[k].id) : m <= j \/ m >= k BY <2>3, <2>5, <2>6
  <2>. QED BY <2>1, <2>2, <2>3, <2>4, <2>5, <2>7
<1>. QED BY <1>3, <1>4

LEMMA AppendCompletedIsLast ==
    ASSUME NEW L, LogGood(L), NEW e, Fits(L, e), e.id \in InstanceIds
    PROVE  CompletedIsLast(Append(L, e))
<1>. DEFINE M == Append(L, e)
            N == Len(L)
<1>1. L \in Seq(Event) /\ CompletedIsLast(L) /\ e \in Event BY DEF LogGood, Fits
<1>2. /\ DOMAIN M = 1 .. (N + 1) /\ DOMAIN L = 1 .. N /\ N \in Nat
      /\ \A k \in 1 .. N : M[k] = L[k]
      /\ M[N + 1] = e
      /\ EventsIn(M, e.id) = EventsIn(L, e.id) \cup {N + 1}
      /\ \A id : id # e.id => EventsIn(M, id) = EventsIn(L, id)
  BY <1>1, EventsAppend
<1>. HIDE DEF M, N
<1>3. ~IsOver(L, e.id)
  <2>1. CASE CountIn(L, e.id) = 0
    <3>1. EventsIn(L, e.id) = {} BY <1>1, <2>1, EventsFinite
    <3>. QED BY <3>1 DEF IsOver
  <2>2. CASE CountIn(L, e.id) # 0
    <3>1. PICK k \in EventsIn(L, e.id) :
             L[k].version = CountIn(L, e.id) /\ L[k].type # "WorkflowCompleted"
      BY <2>2 DEF Fits
    <3>. QED BY <3>1, UpToDate
  <2>. QED BY <2>1, <2>2
<1>. SUFFICES ASSUME NEW k \in DOMAIN M, M[k].type = "WorkflowCompleted"
              PROVE  /\ \A m \in EventsIn(M, M[k].id) : m <= k
                     /\ M[k].to \in TerminalStates
  BY DEF CompletedIsLast, M
<1>4. CASE k = N + 1
  <2>1. M[k] = e BY <1>2, <1>4
  <2>2. \A m \in EventsIn(M, e.id) : m <= k BY <1>2, <1>4 DEF EventsIn
  <2>3. e.to \in TerminalStates BY <2>1 DEF Fits
  <2>. QED BY <2>1, <2>2, <2>3
<1>5. CASE k # N + 1
  <2>1. k \in DOMAIN L /\ M[k] = L[k] BY <1>2, <1>5
  <2>2. L[k].id # e.id
    BY <1>3, <2>1 DEF IsOver, EventsIn
  <2>3. EventsIn(M, M[k].id) = EventsIn(L, L[k].id) BY <1>2, <2>1, <2>2
  <2>. QED BY <1>1, <2>1, <2>3 DEF CompletedIsLast
<1>. QED BY <1>4, <1>5

\* What the rehydrator says after an event that fits: the history of its
\* instance is extended by a transition, and by nothing else.
LEMMA AppendSays ==
    ASSUME NEW L, LogGood(L), NEW e, Fits(L, e), NEW id \in InstanceIds
    PROVE  /\ SaysOf(Append(L, e), id)
           /\ IsOver(L, id) => IsOver(Append(L, e), id)
           /\ LET h == WorkflowRehydrator(L, id).history
                  g == WorkflowRehydrator(Append(L, e), id).history
              IN  /\ h \in Seq(Entry) /\ g \in Seq(Entry)
                  /\ g = h \/ \E x \in Entry : g = Append(h, x)
<1>. DEFINE M == Append(L, e)
            N == Len(L)
            r == WorkflowRehydrator(L, id)
            s == WorkflowRehydrator(M, id)
            n == CountIn(L, id)
<1>1. L \in Seq(Event) /\ e \in Event /\ SaysOf(L, id) BY DEF LogGood, Fits
<1>2. /\ M \in Seq(Event) /\ N \in Nat
      /\ \A k \in 1 .. N : M[k] = L[k]
      /\ M[N + 1] = e
      /\ EventsIn(M, e.id) = EventsIn(L, e.id) \cup {N + 1}
      /\ CountIn(M, e.id) = CountIn(L, e.id) + 1
      /\ \A i : i # e.id => /\ EventsIn(M, i) = EventsIn(L, i)
                            /\ CountIn(M, i) = CountIn(L, i)
  BY <1>1, EventsAppend
<1>3. s = Applied(r, e, id) BY <1>1, RehydratorAppend
<1>4. r \in Rebuilt /\ s \in Rebuilt BY <1>1, <1>2, RehydratorType
<1>5. r.history \in Seq(Entry) /\ s.history \in Seq(Entry)
      /\ r.isComplete \in BOOLEAN /\ s.isComplete \in BOOLEAN
  BY <1>4 DEF Rebuilt
<1>6. /\ EventsIn(L, id) \subseteq 1 .. N /\ n \in Nat
      /\ n = 0 <=> EventsIn(L, id) = {}
  BY <1>1, EventsFinite
<1>7. /\ n = 0 => r = NotCreated
      /\ r.isComplete <=> IsOver(L, id)
      /\ n > 0 => Len(r.history) = IF r.isComplete THEN n - 2 ELSE n - 1
  BY <1>1 DEF SaysOf
<1>8. \A k \in EventsIn(L, id) : M[k] = L[k] BY <1>2, <1>6
<1>9. IsOver(M, id) <=> IsOver(L, id) \/ (e.id = id /\ e.type = "WorkflowCompleted")
  <2>1. CASE e.id = id
    <3>1. EventsIn(M, id) = EventsIn(L, id) \cup {N + 1} BY <1>2, <2>1
    <3>. QED BY <1>2, <1>8, <2>1, <3>1 DEF IsOver
  <2>2. CASE e.id # id
    <3>1. EventsIn(M, id) = EventsIn(L, id) BY <1>2, <2>2
    <3>. QED BY <1>8, <2>2, <3>1 DEF IsOver
  <2>. QED BY <2>1, <2>2
<1>. HIDE DEF M, N, r, s, n
<1>10. CASE e.id # id
  <2>1. s = r /\ CountIn(M, id) = n BY <1>2, <1>3, <1>10 DEF Applied, n
  <2>2. SaysOf(M, id) BY <1>7, <1>9, <1>10, <2>1 DEF SaysOf, s
  <2>. QED BY <1>5, <1>9, <2>1, <2>2 DEF M, r, s
<1>11. CASE e.id = id
  <2>0. s = Apply(r, e) /\ CountIn(M, id) = n + 1
    BY <1>2, <1>3, <1>11 DEF Applied, n
  <2>a. e.type \in {"WorkflowInstanceCreated", "WorkflowTransitioned",
                    "WorkflowCompleted"}
    BY <1>1 DEF Event
  <2>1. CASE e.type = "WorkflowInstanceCreated"
    <3>1. n = 0 /\ r = NotCreated BY <1>7, <1>11, <2>1 DEF Fits, n
    <3>2. s = [NotCreated EXCEPT !.version = e.version, !.currentState = e.to]
      BY <2>0, <2>1 DEF Apply
    <3>3. s.history = << >> /\ s.isComplete = FALSE /\ r.history = << >>
          /\ r.isComplete = FALSE
      BY <3>1, <3>2 DEF NotCreated
    <3>4. Len(s.history) = 0 BY <3>3
    <3>5. SaysOf(M, id)
      BY <1>7, <1>9, <2>0, <2>1, <3>1, <3>3, <3>4 DEF SaysOf, s
    <3>. QED BY <1>5, <1>9, <3>3, <3>5 DEF M, r, s
  <2>2. CASE e.type # "WorkflowInstanceCreated"
    <3>1. PICK k \in EventsIn(L, id) :
             L[k].version = CountIn(L, id) /\ L[k].type # "WorkflowCompleted"
      BY <1>11, <2>2 DEF Fits
    <3>2. ~IsOver(L, id) /\ ~r.isComplete BY <3>1, UpToDate DEF r
    <3>3. n > 0 /\ n \in Nat BY <1>6, <3>1
    <3>4. Len(r.history) = n - 1 BY <1>7, <3>2, <3>3
    <3>5. CASE e.type = "WorkflowTransitioned"
      <4>. DEFINE x == [name |-> e.name, from |-> e.from, to |-> e.to]
                  h == Append(r.history, x)
      <4>1. x \in Entry BY <1>1 DEF Event, Entry
      <4>2. s = [r EXCEPT !.version = e.version, !.currentState = e.to, !.history = h]
        BY <2>0, <3>5 DEF Apply
      <4>3. Len(h) = Len(r.history) + 1 BY <1>5, <4>1, AppendProperties
      <4>. HIDE DEF h
      <4>4. s.history = h /\ s.isComplete = r.isComplete
        BY <1>4, <4>2 DEF Rebuilt
      <4>5. SaysOf(M, id)
        BY <1>9, <2>0, <3>2, <3>3, <3>4, <3>5, <4>3, <4>4 DEF SaysOf, s
      <4>. QED BY <1>5, <1>9, <4>1, <4>4, <4>5 DEF M, r, s, h
    <3>6. CASE e.type = "WorkflowCompleted"
      <4>1. s = [r EXCEPT !.version = e.version, !.isComplete = TRUE]
        BY <2>0, <3>6 DEF Apply
      <4>2. s.history = r.history /\ s.isComplete = TRUE
        BY <1>4, <4>1 DEF Rebuilt
      <4>3. SaysOf(M, id)
        BY <1>9, <1>11, <2>0, <3>3, <3>4, <3>6, <4>2 DEF SaysOf, s
      <4>. QED BY <1>5, <1>9, <4>2, <4>3 DEF M, r, s
    <3>. QED BY <2>a, <2>2, <3>5, <3>6
  <2>. QED BY <2>1, <2>2
<1>. QED BY <1>10, <1>11

LEMMA AppendGood ==
    ASSUME NEW L, LogGood(L), NEW e, Fits(L, e)
    PROVE  LogGood(Append(L, e))
<1>1. L \in Seq(Event) /\ e \in Event BY DEF LogGood, Fits
<1>2. Append(L, e) \in Seq(Event) BY <1>1, EventsAppend
<1>3. e.id \in InstanceIds BY <1>1 DEF Event
<1>. QED BY <1>2, <1>3, AppendNumbered, AppendIsRun, AppendCompletedIsLast,
            AppendSays DEF LogGood

\* A copy stays behind the log as the log grows.
LEMMA AppendBehind ==
    ASSUME NEW L, LogGood(L), NEW e, Fits(L, e), NEW id \in InstanceIds,
           NEW i \in Instance, Behind(L, id, i)
    PROVE  Behind(Append(L, e), id, i)
<1>. DEFINE M == Append(L, e)
            h == WorkflowRehydrator(L, id).history
            g == WorkflowRehydrator(M, id).history
<1>1. L \in Seq(Event) /\ e \in Event BY DEF LogGood, Fits
<1>2. /\ Len(L) \in Nat
      /\ \A k \in 1 .. Len(L) : M[k] = L[k]
      /\ EventsIn(M, e.id) = EventsIn(L, e.id) \cup {Len(L) + 1}
      /\ \A j : j # e.id => EventsIn(M, j) = EventsIn(L, j)
  BY <1>1, EventsAppend
<1>3. /\ h \in Seq(Entry) /\ g \in Seq(Entry)
      /\ g = h \/ \E x \in Entry : g = Append(h, x)
  BY AppendSays
<1>4. PICK k \in EventsIn(L, id) :
         /\ L[k].version = i.version /\ L[k].to = i.currentState
         /\ L[k].type # "WorkflowCompleted"
  BY DEF Behind
<1>5. k \in EventsIn(M, id) BY <1>2
<1>6. M[k] = L[k]
  <2>1. k \in 1 .. Len(L) BY <1>1, EventsFinite
  <2>. QED BY <1>2, <2>1
<1>7. /\ Len(i.history) = i.version - 1 /\ Len(i.history) <= Len(h)
      /\ \A n \in 1 .. Len(i.history) : i.history[n] = h[n]
      /\ i.isComplete => i.currentState \in TerminalStates
  BY DEF Behind
<1>8. i.history \in Seq(Step) BY DEF Instance
<1>. HIDE DEF M, h, g
<1>9. Len(h) <= Len(g) /\ \A n \in 1 .. Len(h) : g[n] = h[n]
  <2>1. CASE g = h BY <1>3, <2>1
  <2>2. CASE \E x \in Entry : g = Append(h, x)
    BY <1>3, <2>2, AppendProperties
  <2>. QED BY <1>3, <2>1, <2>2
<1>10. /\ Len(i.history) <= Len(g)
       /\ \A n \in 1 .. Len(i.history) : i.history[n] = g[n]
  <2>1. Len(i.history) \in Nat /\ Len(h) \in Nat /\ Len(g) \in Nat BY <1>3, <1>8
  <2>. QED BY <1>7, <1>9, <2>1
<1>. QED BY <1>4, <1>5, <1>6, <1>7, <1>10 DEF Behind, M, g

-----------------------------------------------------------------------------
LEMMA VersionedInit == ASSUME Init PROVE VInv
<1>1. log = << >> /\ DOMAIN log = {} BY DEF Init
<1>2. log \in Seq(Event) BY <1>1
<1>3. \A id : EventsIn(log, id) = {} BY <1>1 DEF EventsIn
<1>4. ASSUME NEW id \in InstanceIds PROVE SaysOf(log, id)
  <2>1. CountIn(log, id) = 0 BY <1>2, <1>3, EventsFinite
  <2>2. WorkflowRehydrator(log, id) = NotCreated BY <1>1, RehydratorEmpty
  <2>3. NotCreated.isComplete = FALSE BY DEF NotCreated
  <2>4. ~IsOver(log, id) BY <1>3 DEF IsOver
  <2>5. ~(CountIn(log, id) > 0) BY <2>1
  <2>. QED BY <2>2, <2>3, <2>4, <2>5 DEF SaysOf
<1>5. LogGood(log)
  BY <1>1, <1>2, <1>4 DEF LogGood, Numbered, IsRun, CompletedIsLast
<1>6. DOMAIN instances = {} BY DEF Init
<1>7. \A c \in Calls : CallBehind(log, calls[c])
  BY DEF Init, Idle, CallBehind, Deciding
<1>. QED BY <1>5, <1>6, <1>7, TypedInit DEF VInv

\* What a step of one call has to show when log and map stay.
LEMMA VersionedLocal ==
    ASSUME VInv, TInv', NEW c \in Calls, NEW new, Set(c, new),
           UNCHANGED <<log, instances>>, CallBehind(log, new)
    PROVE  VInv'
<1>1. calls' = [calls EXCEPT ![c] = new] BY DEF Set
<1>2. \A d \in Calls : CallBehind(log, calls'[d])
  BY <1>1 DEF VInv, TInv, Typed
<1>3. /\ LogGood(log')
      /\ \A id \in DOMAIN instances' :
            /\ Behind(log', id, instances'[id])
            /\ instances'[id].isComplete => IsOver(log', id)
  BY DEF VInv
<1>4. \A d \in Calls : CallBehind(log', calls'[d]) BY <1>2
<1>. QED BY <1>3, <1>4 DEF VInv

\* What it has to show when it appends an event.
LEMMA VersionedAppend ==
    ASSUME VInv, TInv', NEW c \in Calls, NEW new, Set(c, new), NEW e,
           log' = Append(log, e), UNCHANGED instances, Fits(log, e),
           CallBehind(Append(log, e), new)
    PROVE  VInv'
<1>. DEFINE M == Append(log, e)
<1>1. LogGood(log) BY DEF VInv
<1>2. LogGood(M) BY <1>1, AppendGood
<1>3. ASSUME NEW id \in DOMAIN instances
      PROVE  Behind(M, id, instances[id]) /\ (instances[id].isComplete => IsOver(M, id))
  <2>1. id \in InstanceIds /\ instances[id] \in Instance BY DEF VInv, TInv, Typed
  <2>2. Behind(log, id, instances[id]) /\ (instances[id].isComplete => IsOver(log, id))
    BY DEF VInv
  <2>3. Behind(M, id, instances[id]) BY <1>1, <2>1, <2>2, AppendBehind
  <2>4. IsOver(log, id) => IsOver(M, id) BY <1>1, <2>1, AppendSays
  <2>. QED BY <2>2, <2>3, <2>4
<1>4. ASSUME NEW d \in Calls PROVE CallBehind(M, calls'[d])
  <2>0. calls' = [calls EXCEPT ![c] = new] BY DEF Set
  <2>1. CASE d = c BY <2>0, <2>1 DEF VInv, TInv, Typed
  <2>2. CASE d # c
    <3>. DEFINE call == calls[d]
    <3>1. calls'[d] = call BY <2>0, <2>2 DEF VInv, TInv, Typed
    <3>2. CallBehind(log, call) BY DEF VInv
    <3>3. CallTyped(call, world) BY DEF VInv, TInv, Typed
    <3>. HIDE DEF call, M
    <3>4. call.phase \in {"created", "entering", "completed"} \cup Deciding =>
             call.id \in InstanceIds /\ call.instance \in Instance
      BY <3>3, Unfold DEF Deciding
    <3>5. call.phase \in {"created", "entering", "completed"} \cup Deciding =>
             Behind(M, call.id, call.instance)
      BY <1>1, <3>2, <3>4, AppendBehind DEF CallBehind, M
    <3>6. call.phase = "completed" => IsOver(M, call.id)
      BY <1>1, <3>2, <3>4, AppendSays DEF CallBehind, M
    <3>. QED BY <3>1, <3>2, <3>5, <3>6 DEF CallBehind
  <2>. QED BY <2>1, <2>2
<1>5. /\ LogGood(log')
      /\ \A id \in DOMAIN instances' :
            /\ Behind(log', id, instances'[id])
            /\ instances'[id].isComplete => IsOver(log', id)
      /\ \A d \in Calls : CallBehind(log', calls'[d])
  BY <1>2, <1>3, <1>4
<1>. QED BY <1>5 DEF VInv

LEMMA IdleBehind == CallBehind(log, Idle)
BY DEF CallBehind, Idle, Deciding

LEMMA EventsOfIn == \A id : EventsOf(id) = EventsIn(log, id)
BY DEF EventsOf, EventsIn

\* What is known of a call that has a copy of an instance.
LEMMA CallKnown ==
    ASSUME VInv, NEW c \in Calls
    PROVE  /\ CallTyped(calls[c], world) /\ CallBehind(log, calls[c])
           /\ LogGood(log) /\ log \in Seq(Event)
BY DEF VInv, TInv, Typed, LogGood

LEMMA VersionedStart ==
    ASSUME VInv, TInv', NEW c \in Calls, NEW target \in Targets, Start(c, target)
    PROVE  VInv'
<1>1. PICK id \in FreshIds :
         Set(c, [phase |-> "creating", id |-> id, instance |-> NewInstance(target)])
  BY DEF Start
<1>. DEFINE new == [phase |-> "creating", id |-> id, instance |-> NewInstance(target)]
<1>2. new.phase = "creating" /\ new.instance = NewInstance(target) OBVIOUS
<1>3. Set(c, new) /\ UNCHANGED <<log, instances>> BY <1>1 DEF Start
<1>. HIDE DEF new
<1>4. CallBehind(log, new) BY <1>2 DEF CallBehind, Deciding
<1>. QED BY <1>3, <1>4, VersionedLocal

\* The first event of an instance: the copy starts at version 1.
LEMMA VersionedAppendCreated ==
    ASSUME VersionChecked, VInv, TInv', NEW c \in Calls, AppendCreated(c)
    PROVE  VInv'
<1>. DEFINE call == calls[c]
            i == call.instance
            new == [call EXCEPT !.phase = "created"]
            e == WorkflowEvent("WorkflowInstanceCreated", call.id, 1, "", "", InitialState)
            M == Append(log, e)
<1>1. /\ CallTyped(call, world) /\ CallBehind(log, call)
      /\ LogGood(log) /\ log \in Seq(Event)
  BY CallKnown
<1>2. call.phase = "creating" BY DEF AppendCreated
<1>3. call \in StartCall /\ call.id \in InstanceIds /\ i \in Instance
  BY <1>1, <1>2, Unfold
<1>4. PICK target \in Targets : i = NewInstance(target)
  BY <1>1, <1>2 DEF CallBehind
<1>5. new.phase = "created" /\ new.id = call.id /\ new.instance = i
  BY <1>3 DEF StartCall
<1>6. log' = M /\ Set(c, new) /\ UNCHANGED instances BY DEF AppendCreated
<1>7. CountIn(log, call.id) = 0
  <2>1. 1 = Cardinality(EventsOf(call.id)) + 1 BY DEF AppendCreated, Accepts
  <2>2. 1 = CountIn(log, call.id) + 1 BY <2>1, EventsOfIn DEF CountIn
  <2>3. CountIn(log, call.id) \in Nat BY <1>1, EventsFinite
  <2>. QED BY <2>2, <2>3
<1>8. e \in Event /\ e.type = "WorkflowInstanceCreated" /\ e.id = call.id
      /\ e.version = 1 /\ e.to = InitialState
  BY <1>3 DEF WorkflowEvent, Event, States
<1>. HIDE DEF call, i, new, e
<1>9. Fits(log, e) BY <1>7, <1>8 DEF Fits
<1>10. Behind(M, call.id, i)
  <2>1. /\ EventsIn(M, e.id) = EventsIn(log, e.id) \cup {Len(log) + 1}
        /\ M[Len(log) + 1] = e
        /\ M \in Seq(Event)
    BY <1>1, <1>8, EventsAppend
  <2>2. WorkflowRehydrator(M, call.id).history \in Seq(Entry)
    BY <2>1, RehydratorType DEF Rebuilt
  <2>3. i.version = 1 /\ i.currentState = InitialState /\ i.history = << >>
        /\ i.isComplete = FALSE
    BY <1>4 DEF NewInstance
  <2>. HIDE DEF M
  <2>4. \E k \in EventsIn(M, call.id) : /\ M[k].version = i.version
                                        /\ M[k].to = i.currentState
                                        /\ M[k].type # "WorkflowCompleted"
    BY <1>8, <2>1, <2>3
  <2>5. Len(i.history) = 0 /\ Len(i.history) = i.version - 1 BY <2>3
  <2>6. Len(i.history) <= Len(WorkflowRehydrator(M, call.id).history)
    BY <2>2, <2>5
  <2>. QED BY <2>3, <2>4, <2>5, <2>6 DEF Behind
<1>11. i.isComplete = FALSE BY <1>4 DEF NewInstance
<1>12. CallBehind(M, new) BY <1>5, <1>10, <1>11 DEF CallBehind
<1>. QED BY <1>6, <1>9, <1>12, VersionedAppend DEF M

LEMMA VersionedStoreCreated ==
    ASSUME VInv, TInv', NEW c \in Calls, StoreCreated(c)
    PROVE  VInv'
<1>. DEFINE call == calls[c]
<1>1. CallBehind(log, call) /\ LogGood(log) BY CallKnown
<1>2. call.phase = "created" BY DEF StoreCreated
<1>3. Behind(log, call.id, call.instance) /\ ~call.instance.isComplete
  BY <1>1, <1>2 DEF CallBehind
<1>4. /\ instances' = [id \in DOMAIN instances \cup {call.id} |->
                          IF id = call.id THEN call.instance ELSE instances[id]]
      /\ calls' = [calls EXCEPT ![c] = Idle] /\ log' = log
  BY DEF StoreCreated, Set
<1>. HIDE DEF call
<1>5. \A id \in DOMAIN instances' :
         /\ Behind(log, id, instances'[id])
         /\ instances'[id].isComplete => IsOver(log, id)
  BY <1>3, <1>4 DEF VInv
<1>6. \A d \in Calls : CallBehind(log, calls'[d])
  BY <1>4, IdleBehind DEF VInv, TInv, Typed
<1>7. /\ LogGood(log')
      /\ \A id \in DOMAIN instances' :
            /\ Behind(log', id, instances'[id])
            /\ instances'[id].isComplete => IsOver(log', id)
      /\ \A d \in Calls : CallBehind(log', calls'[d])
  BY <1>1, <1>4, <1>5, <1>6
<1>. QED BY <1>7 DEF VInv

LEMMA VersionedRequest ==
    ASSUME VInv, TInv', NEW c \in Calls, NEW id \in DOMAIN instances,
           NEW t \in Transitions, NEW a \in Actors, Request(c, id, t, a)
    PROVE  VInv'
<1>. DEFINE new == [phase |-> "authorizing", id |-> id, instance |-> instances[id],
                    transition |-> t, actor |-> a]
<1>1. new.phase = "authorizing" /\ new.id = id /\ new.instance = instances[id]
  OBVIOUS
<1>2. Set(c, new) /\ UNCHANGED <<log, instances>> BY DEF Request
<1>3. Behind(log, id, instances[id]) BY DEF VInv
<1>. HIDE DEF new
<1>4. CallBehind(log, new) BY <1>1, <1>3 DEF CallBehind
<1>. QED BY <1>2, <1>4, VersionedLocal

\* A call that goes on deciding keeps its copy.
LEMMA VersionedDecides ==
    ASSUME VInv, TInv', NEW c \in Calls, NEW phase \in Deciding,
           calls[c].phase \in Deciding, Set(c, [calls[c] EXCEPT !.phase = phase]),
           UNCHANGED <<log, instances>>
    PROVE  VInv'
<1>. DEFINE call == calls[c]
            new == [call EXCEPT !.phase = phase]
<1>1. CallTyped(call, world) /\ CallBehind(log, call) BY CallKnown
<1>2. call \in TransitionCall BY <1>1, Unfold
<1>3. new.phase = phase /\ new.id = call.id /\ new.instance = call.instance
  BY <1>2 DEF TransitionCall
<1>4. Behind(log, call.id, call.instance) BY <1>1 DEF CallBehind
<1>. HIDE DEF call, new
<1>5. CallBehind(log, new) BY <1>3, <1>4 DEF CallBehind, Deciding
<1>. QED BY <1>5, VersionedLocal DEF new, call

\* A transition decided on the last event of the log: only then is its version
\* the next one.
LEMMA VersionedAppendTransitioned ==
    ASSUME VersionChecked, VInv, TInv', NEW c \in Calls, AppendTransitioned(c)
    PROVE  VInv'
<1>. DEFINE call == calls[c]
            i == call.instance
            t == call.transition
            id == call.id
            u == UpdatedInstance(c)
            new == [call EXCEPT !.phase = "entering", !.instance = u]
            e == WorkflowEvent("WorkflowTransitioned", id, u.version, t.name,
                               i.currentState, t.to)
            M == Append(log, e)
            r == WorkflowRehydrator(log, id)
            s == WorkflowRehydrator(M, id)
            entry == [name |-> t.name, from |-> i.currentState, to |-> t.to]
            n == CountIn(log, id)
<1>1. /\ CallTyped(call, world) /\ CallBehind(log, call)
      /\ LogGood(log) /\ log \in Seq(Event)
  BY CallKnown
<1>2. call.phase = "emitting" BY DEF AppendTransitioned
<1>3. /\ call \in TransitionCall /\ id \in InstanceIds /\ i \in Instance /\ t \in Transitions
      /\ i.currentState \in t.from
  BY <1>1, <1>2, Unfold DEF Deciding
<1>4. Behind(log, id, i) BY <1>1, <1>2 DEF CallBehind, Deciding
<1>5. /\ u \in Instance /\ u.version = i.version + 1 /\ u.currentState = t.to
      /\ u.isComplete = (t.to \in TerminalStates)
      /\ u.history = Append(i.history, entry)
  BY <1>3, UpdatedCopy
<1>6. log' = M /\ Set(c, new) /\ UNCHANGED instances BY DEF AppendTransitioned
<1>7. n \in Nat BY <1>1, EventsFinite
<1>8. i.version \in Nat /\ i.version = n
  <2>1. u.version = Cardinality(EventsOf(id)) + 1 BY DEF AppendTransitioned, Accepts
  <2>2. u.version = n + 1 BY <2>1, EventsOfIn DEF CountIn
  <2>3. i.version \in Nat BY <1>3 DEF Instance
  <2>. QED BY <1>5, <1>7, <2>2, <2>3
<1>. HIDE DEF u
<1>9. new.phase = "entering" /\ new.id = id /\ new.instance = u
  BY <1>3 DEF TransitionCall
<1>10. /\ e \in Event /\ e.type = "WorkflowTransitioned" /\ e.id = id
       /\ e.version = u.version /\ e.name = t.name /\ e.from = i.currentState
       /\ e.to = t.to
  BY <1>3, <1>5 DEF WorkflowEvent, Event, Instance, States, Names
<1>11. IsBy(e, t) BY <1>3, <1>10 DEF IsBy
<1>. HIDE DEF call, i, t, new, e
<1>12. PICK k \in EventsIn(log, id) :
          /\ log[k].version = i.version /\ log[k].to = i.currentState
          /\ log[k].type # "WorkflowCompleted"
  BY <1>4 DEF Behind
<1>. HIDE DEF id, n
<1>13. Fits(log, e)
  <2>1. e.version = CountIn(log, e.id) + 1 BY <1>5, <1>8, <1>10 DEF n
  <2>2. \E j \in EventsIn(log, e.id) :
           /\ log[j].version = CountIn(log, e.id) /\ log[j].type # "WorkflowCompleted"
           /\ log[j].to = e.from
    BY <1>8, <1>10, <1>12 DEF n
  <2>3. \E tr \in Transitions : IsBy(e, tr) BY <1>3, <1>11
  <2>. QED BY <1>10, <2>1, <2>2, <2>3 DEF Fits
<1>14. /\ EventsIn(M, e.id) = EventsIn(log, e.id) \cup {Len(log) + 1}
       /\ M[Len(log) + 1] = e
       /\ M \in Seq(Event)
  BY <1>1, <1>10, EventsAppend
<1>15. Len(r.history) = i.version - 1 /\ r \in Rebuilt
  <2>1. ~r.isComplete BY <1>1, <1>3, <1>8, <1>12, UpToDate DEF n
  <2>2. n > 0
    <3>1. i.version # 0 BY <1>3 DEF Instance
    <3>. QED BY <1>7, <1>8, <3>1
  <2>3. SaysOf(log, id) BY <1>1, <1>3 DEF LogGood
  <2>4. n > 0 => Len(r.history) = IF r.isComplete THEN n - 2 ELSE n - 1
    BY <2>3 DEF SaysOf, n
  <2>5. r \in Rebuilt BY <1>1, RehydratorType
  <2>. HIDE DEF r
  <2>. QED BY <1>8, <2>1, <2>2, <2>4, <2>5
<1>16. s.history = Append(r.history, entry)
  <2>1. s = Applied(r, e, id) BY <1>1, <1>10, RehydratorAppend
  <2>2. s = Apply(r, e) BY <1>10, <2>1 DEF Applied
  <2>. DEFINE x == [name |-> e.name, from |-> e.from, to |-> e.to]
              h == Append(r.history, x)
  <2>3. s = [r EXCEPT !.version = e.version, !.currentState = e.to, !.history = h]
    BY <1>10, <2>2 DEF Apply
  <2>. HIDE DEF h, s, r
  <2>4. s.history = h BY <1>15, <2>3 DEF Rebuilt
  <2>. QED BY <1>10, <2>4 DEF h
<1>17. Behind(M, id, u)
  <2>1. \E j \in EventsIn(M, id) : /\ M[j].version = u.version
                                   /\ M[j].to = u.currentState
                                   /\ M[j].type # "WorkflowCompleted"
    BY <1>5, <1>10, <1>14
  <2>2. i.history \in Seq(Step) /\ r.history \in Seq(Entry)
    BY <1>3, <1>15 DEF Instance, Rebuilt
  <2>3. /\ Len(i.history) = i.version - 1
        /\ \A m \in 1 .. Len(i.history) : i.history[m] = r.history[m]
    BY <1>4 DEF Behind
  <2>4. entry \in Step
    BY <1>3 DEF Step, Instance, States, Names
  <2>5. entry \in Entry BY <2>4 DEF Step, Entry
  <2>6. /\ Len(u.history) = Len(i.history) + 1
        /\ \A m \in 1 .. Len(i.history) : u.history[m] = i.history[m]
        /\ u.history[Len(i.history) + 1] = entry
    BY <1>5, <2>2, <2>4, AppendProperties
  <2>7. /\ Len(s.history) = Len(r.history) + 1
        /\ \A m \in 1 .. Len(r.history) : s.history[m] = r.history[m]
        /\ s.history[Len(r.history) + 1] = entry
    BY <1>16, <2>2, <2>5, AppendProperties
  <2>. HIDE DEF M, r, s, entry
  <2>8. Len(i.history) \in Nat /\ Len(r.history) = Len(i.history) BY <1>15, <2>2, <2>3
  <2>9. /\ Len(u.history) = u.version - 1
        /\ Len(u.history) <= Len(s.history)
    BY <1>5, <1>8, <2>3, <2>6, <2>7, <2>8
  <2>10. \A m \in 1 .. Len(u.history) : u.history[m] = s.history[m]
    <3>. SUFFICES ASSUME NEW m \in 1 .. Len(u.history)
                  PROVE  u.history[m] = s.history[m]
      OBVIOUS
    <3>1. CASE m = Len(i.history) + 1 BY <2>6, <2>7, <2>8, <3>1
    <3>2. CASE m # Len(i.history) + 1
      <4>1. m \in 1 .. Len(i.history) BY <2>6, <2>8, <3>2
      <4>. QED BY <2>3, <2>6, <2>7, <2>8, <4>1
    <3>. QED BY <3>1, <3>2
  <2>11. u.isComplete => u.currentState \in TerminalStates BY <1>5
  <2>. QED BY <2>1, <2>9, <2>10, <2>11 DEF Behind, s
<1>18. CallBehind(M, new) BY <1>9, <1>17 DEF CallBehind, Deciding
<1>. QED BY <1>6, <1>13, <1>18, VersionedAppend DEF M

LEMMA VersionedAppendCompleted ==
    ASSUME VersionChecked, VInv, TInv', NEW c \in Calls, AppendCompleted(c)
    PROVE  VInv'
<1>. DEFINE call == calls[c]
            i == call.instance
            id == call.id
            new == [call EXCEPT !.phase = "completed"]
            e == WorkflowEvent("WorkflowCompleted", id, i.version + 1, "", "",
                               i.currentState)
            M == Append(log, e)
<1>1. /\ CallTyped(call, world) /\ CallBehind(log, call)
      /\ LogGood(log) /\ log \in Seq(Event)
  BY CallKnown
<1>2. call.phase = "entering" /\ i.isComplete BY DEF AppendCompleted
<1>3. call \in TransitionCall /\ id \in InstanceIds /\ i \in Instance
  BY <1>1, <1>2, Unfold
<1>4. Behind(log, id, i) BY <1>1, <1>2 DEF CallBehind
<1>5. log' = M /\ Set(c, new) /\ UNCHANGED instances BY DEF AppendCompleted
<1>6. i.version \in Nat /\ i.version = CountIn(log, id)
  <2>1. i.version + 1 = Cardinality(EventsOf(id)) + 1 BY DEF AppendCompleted, Accepts
  <2>2. i.version + 1 = CountIn(log, id) + 1 BY <2>1, EventsOfIn DEF CountIn
  <2>3. i.version \in Nat /\ CountIn(log, id) \in Nat
    BY <1>1, <1>3, EventsFinite DEF Instance
  <2>. QED BY <2>2, <2>3
<1>7. new.phase = "completed" /\ new.id = id /\ new.instance = i
  BY <1>3 DEF TransitionCall
<1>8. /\ e \in Event /\ e.type = "WorkflowCompleted" /\ e.id = id
      /\ e.version = i.version + 1 /\ e.to = i.currentState
  BY <1>3 DEF WorkflowEvent, Event, Instance
<1>. HIDE DEF call, i, id, new, e
<1>9. i.currentState \in TerminalStates BY <1>2, <1>4 DEF Behind
<1>10. Fits(log, e)
  <2>1. \E k \in EventsIn(log, id) :
           log[k].version = i.version /\ log[k].type # "WorkflowCompleted"
    BY <1>4 DEF Behind
  <2>2. \E k \in EventsIn(log, e.id) :
           log[k].version = CountIn(log, e.id) /\ log[k].type # "WorkflowCompleted"
    BY <1>6, <1>8, <2>1
  <2>3. e.version = CountIn(log, e.id) + 1 BY <1>6, <1>8
  <2>. QED BY <1>8, <1>9, <2>2, <2>3 DEF Fits
<1>11. Behind(M, id, i) BY <1>1, <1>3, <1>4, <1>10, AppendBehind
<1>12. IsOver(M, id)
  <2>1. /\ EventsIn(M, e.id) = EventsIn(log, e.id) \cup {Len(log) + 1}
        /\ M[Len(log) + 1] = e
    BY <1>1, <1>8, EventsAppend
  <2>. QED BY <1>8, <2>1 DEF IsOver
<1>13. CallBehind(M, new) BY <1>7, <1>11, <1>12 DEF CallBehind, Deciding
<1>. QED BY <1>5, <1>10, <1>13, VersionedAppend DEF M

LEMMA VersionedStoreUpdated ==
    ASSUME VInv, TInv', NEW c \in Calls, StoreUpdated(c)
    PROVE  VInv'
<1>. DEFINE call == calls[c]
<1>1. CallBehind(log, call) /\ LogGood(log) BY CallKnown
<1>2. \/ call.phase = "entering" /\ ~call.instance.isComplete
      \/ call.phase = "completed"
  BY DEF StoreUpdated
<1>3. /\ Behind(log, call.id, call.instance)
      /\ call.instance.isComplete => IsOver(log, call.id)
  BY <1>1, <1>2 DEF CallBehind
<1>4. /\ instances' = [instances EXCEPT ![call.id] = call.instance]
      /\ calls' = [calls EXCEPT ![c] = Idle] /\ log' = log
  BY DEF StoreUpdated, Set
<1>. HIDE DEF call
<1>5. \A id \in DOMAIN instances' :
         /\ Behind(log, id, instances'[id])
         /\ instances'[id].isComplete => IsOver(log, id)
  BY <1>3, <1>4 DEF VInv
<1>6. \A d \in Calls : CallBehind(log, calls'[d])
  BY <1>4, IdleBehind DEF VInv, TInv, Typed
<1>7. /\ LogGood(log')
      /\ \A id \in DOMAIN instances' :
            /\ Behind(log', id, instances'[id])
            /\ instances'[id].isComplete => IsOver(log', id)
      /\ \A d \in Calls : CallBehind(log', calls'[d])
  BY <1>1, <1>4, <1>5, <1>6
<1>. QED BY <1>7 DEF VInv

LEMMA VersionedRestart == ASSUME VInv, TInv', Restart PROVE VInv'
<1>1. /\ instances' = << >> /\ calls' = [c \in Calls |-> Idle] /\ log' = log
  BY DEF Restart
<1>2. DOMAIN instances' = {} BY <1>1
<1>3. \A d \in Calls : CallBehind(log, calls'[d]) BY <1>1, IdleBehind
<1>4. /\ LogGood(log')
      /\ \A id \in DOMAIN instances' :
            /\ Behind(log', id, instances'[id])
            /\ instances'[id].isComplete => IsOver(log', id)
      /\ \A d \in Calls : CallBehind(log', calls'[d])
  BY <1>1, <1>2, <1>3 DEF VInv
<1>. QED BY <1>4 DEF VInv

LEMMA VersionedStutter ==
    ASSUME VInv, TInv', UNCHANGED <<log, instances, calls>> PROVE VInv'
BY DEF VInv

LEMMA VersionedNext ==
    ASSUME VersionChecked, VInv, [Next]_vars
    PROVE  VInv'
<1>. TInv' BY TypedNext DEF VInv
<1>1. ASSUME NEW c \in Calls, NEW target \in Targets, Start(c, target) PROVE VInv'
  BY <1>1, VersionedStart
<1>2. ASSUME NEW c \in Calls, NEW id \in DOMAIN instances, NEW t \in Transitions,
             NEW a \in Actors, Request(c, id, t, a)
      PROVE  VInv'
  BY <1>2, VersionedRequest
<1>3. ASSUME NEW c \in Calls, Set(c, Idle), UNCHANGED <<log, instances>> PROVE VInv'
  BY <1>3, IdleBehind, VersionedLocal
<1>4. ASSUME NEW c \in Calls, CallStep(c) PROVE VInv'
  <2>1. CASE AppendCreated(c) BY <2>1, VersionedAppendCreated
  <2>2. CASE StoreCreated(c) BY <2>2, VersionedStoreCreated
  <2>3. CASE Authorize(c)
    BY <1>3, <2>3, VersionedDecides DEF Authorize, Deciding
  <2>4. CASE EvaluateGuards(c)
    BY <1>3, <2>4, VersionedDecides DEF EvaluateGuards, Deciding
  <2>5. CASE Leave(c) BY <2>5, VersionedDecides DEF Leave, Deciding
  <2>6. CASE AppendTransitioned(c) BY <2>6, VersionedAppendTransitioned
  <2>7. CASE AppendCompleted(c) BY <2>7, VersionedAppendCompleted
  <2>8. CASE StoreUpdated(c) BY <2>8, VersionedStoreUpdated
  <2>9. CASE Conflict(c) BY <1>3, <2>9 DEF Conflict
  <2>. QED BY <1>4, <2>1, <2>2, <2>3, <2>4, <2>5, <2>6, <2>7, <2>8, <2>9 DEF CallStep
<1>5. ASSUME NEW c \in Calls, Fail(c) PROVE VInv'
  BY <1>3, <1>5 DEF Fail
<1>6. CASE Restart BY <1>6, VersionedRestart
<1>7. CASE WorldMoves BY <1>7, VersionedStutter DEF WorldMoves
<1>8. CASE UNCHANGED vars BY <1>8, VersionedStutter DEF vars
<1>. QED BY <1>1, <1>2, <1>4, <1>5, <1>6, <1>7, <1>8 DEF Next

LEMMA VersionedInvariance == VersionChecked => (Spec => []VInv)
<1>. SUFFICES ASSUME VersionChecked PROVE Spec => []VInv
  OBVIOUS
<1>1. Init => VInv BY VersionedInit
<1>2. VInv /\ [Next]_vars => VInv' BY VersionedNext
<1>. QED BY <1>1, <1>2, PTL DEF Spec

-----------------------------------------------------------------------------
LEMMA GoodIsARun == ASSUME VInv PROVE LogIsARun
<1>1. IsRun(log) BY DEF VInv, LogGood
<1>. QED BY <1>1, EventsOfIn DEF IsRun, LogIsARun

\* With a store that checks versions, each transition in the log leaves the
\* state the event before it entered, by a transition of the definition: a
\* call that decided on a copy out of date (workflow-engine.ts reads it before
\* four awaits) is refused, however many calls race.
THEOREM RunsHold == VersionChecked => (Spec => []LogIsARun)
<1>. SUFFICES ASSUME VersionChecked PROVE Spec => []LogIsARun
  OBVIOUS
<1>1. VInv => LogIsARun BY GoodIsARun
<1>. QED BY <1>1, VersionedInvariance, PTL

LEMMA GoodCompletion == ASSUME VInv PROVE NothingAfterCompletion
<1>1. CompletedIsLast(log) BY DEF VInv, LogGood
<1>. QED BY <1>1, EventsOfIn DEF CompletedIsLast, NothingAfterCompletion

\* A completed instance is never heard of again, and it completes in the
\* terminal state its last transition entered: the completion of transition()
\* and the transition of a call that still holds the instance as it was before
\* cannot both enter the log.
THEOREM CompletionIsLast == VersionChecked => (Spec => []NothingAfterCompletion)
<1>. SUFFICES ASSUME VersionChecked PROVE Spec => []NothingAfterCompletion
  OBVIOUS
<1>1. VInv => NothingAfterCompletion BY GoodCompletion
<1>. QED BY <1>1, VersionedInvariance, PTL

LEMMA GoodMap == ASSUME VInv PROVE CacheBehindLog
<1>. SUFFICES ASSUME NEW id \in DOMAIN instances
              PROVE  LET h == instances[id].history  r == Rehydrated(id) IN
                     /\ Len(h) <= Len(r.history)
                     /\ h = SubSeq(r.history, 1, Len(h))
                     /\ instances[id].isComplete => r.isComplete
  BY DEF CacheBehindLog
<1>. DEFINE i == instances[id]
            r == WorkflowRehydrator(log, id)
            h == i.history
            g == r.history
            p == SubSeq(g, 1, Len(h))
<1>1. id \in InstanceIds /\ i \in Instance /\ LogGood(log) /\ log \in Seq(Event)
  BY DEF VInv, TInv, Typed
<1>2. Behind(log, id, i) /\ (i.isComplete => IsOver(log, id)) BY DEF VInv
<1>3. h \in Seq(Step) BY <1>1 DEF Instance
<1>4. g \in Seq(Entry) BY <1>1, RehydratorType DEF Rebuilt
<1>5. Len(h) <= Len(g) /\ \A n \in 1 .. Len(h) : h[n] = g[n]
  BY <1>2 DEF Behind
<1>6. i.isComplete => r.isComplete
  <2>1. SaysOf(log, id) BY <1>1 DEF LogGood
  <2>2. r.isComplete <=> IsOver(log, id) BY <2>1 DEF SaysOf
  <2>. QED BY <1>2, <2>2
<1>. HIDE DEF i, r, h, g
<1>7. h = p
  <2>1. Len(h) \in Nat /\ Len(g) \in Nat BY <1>3, <1>4
  <2>2. /\ p = [n \in 1 .. Len(h) |-> g[n]]
    BY <1>4, <1>5, <2>1
  <2>3. h = [n \in 1 .. Len(h) |-> h[n]] BY <1>3
  <2>. QED BY <1>5, <2>2, <2>3
<1>. QED BY <1>5, <1>6, <1>7 DEF Rehydrated, i, r, h, g

\* The map of transition() and startWorkflow() is never ahead of the log,
\* whatever fails between the append and the assignment: the history in memory
\* is a beginning of the one workflowRehydrator makes of the log, and an
\* instance complete in memory is complete in the log.
THEOREM MapIsBehind == VersionChecked => (Spec => []CacheBehindLog)
<1>. SUFFICES ASSUME VersionChecked PROVE Spec => []CacheBehindLog
  OBVIOUS
<1>1. VInv => CacheBehindLog BY GoodMap
<1>. QED BY <1>1, VersionedInvariance, PTL

-----------------------------------------------------------------------------
(***************************************************************************)
(* The map and the log between the calls, when no call fails and nothing   *)
(* restarts: a transition that is in the log and not yet in the map is in  *)
(* the hands of exactly one call.                                          *)
(***************************************************************************)
\* The phases in which a call holds what the log says and the map does not.
Carrying == {"created", "entering", "completed"}

\* The state of an instance is the one its last transition entered.
StateIs(i) ==
    i.currentState = IF i.history = << >> THEN InitialState
                     ELSE i.history[Len(i.history)].to

Past(L, id) == Len(WorkflowRehydrator(L, id).history)

\* What is known of a call, of the log (L) and of the map (m).
CallCurrent(L, m, call) ==
    /\ call.phase = "creating" => CountIn(L, call.id) = 0
    /\ call.phase \in Deciding =>
          /\ call.id \in DOMAIN m /\ StateIs(call.instance)
          /\ Len(call.instance.history) <= Len(m[call.id].history)
    /\ call.phase \in Carrying =>
          /\ StateIs(call.instance)
          /\ Len(call.instance.history) = Past(L, call.id)
          /\ call.id \in DOMAIN m <=> call.phase # "created"
          /\ call.id \in DOMAIN m =>
                Len(m[call.id].history) < Len(call.instance.history)
          /\ IF call.phase = "completed" THEN call.instance.isComplete
             ELSE ~IsOver(L, call.id)

\* Of two calls about an instance none creates it and not both carry.
Apart(x, y) ==
    x.phase # "idle" /\ y.phase # "idle" /\ x.id = y.id =>
        /\ x.phase # "creating" /\ y.phase # "creating"
        /\ x.phase \in Carrying => y.phase \notin Carrying

Carried(id) == \E c \in Calls : calls[c].phase \in Carrying /\ calls[c].id = id

\* The map has what the log has.
Kept(L, m, id) ==
    /\ id \in DOMAIN m /\ Len(m[id].history) = Past(L, id)
    /\ IsOver(L, id) => m[id].isComplete

SInv ==
    /\ VInv
    /\ \A id \in InstanceIds : CountIn(log, id) > 0 => StateIs(WorkflowRehydrator(log, id))
    /\ \A id \in DOMAIN instances : StateIs(instances[id])
    /\ \A c \in Calls : CallCurrent(log, instances, calls[c])
    /\ \A c, d \in Calls : c # d => Apart(calls[c], calls[d])
    /\ \A id \in InstanceIds : CountIn(log, id) > 0 =>
          Carried(id) \/ Kept(log, instances, id)

-----------------------------------------------------------------------------
LEMMA InStepInit == ASSUME Init PROVE SInv
<1>1. VInv BY VersionedInit
<1>2. log \in Seq(Event) /\ \A id : EventsIn(log, id) = {}
  BY DEF Init, EventsIn
<1>3. \A id : ~(CountIn(log, id) > 0)
  <2>. SUFFICES ASSUME NEW id PROVE ~(CountIn(log, id) > 0)
    OBVIOUS
  <2>1. CountIn(log, id) = 0 BY <1>2, EventsFinite
  <2>. QED BY <2>1
<1>4. \A c \in Calls : calls[c] = Idle BY DEF Init
<1>5. DOMAIN instances = {} BY DEF Init
<1>6. \A c \in Calls : CallCurrent(log, instances, calls[c])
  BY <1>4 DEF CallCurrent, Idle, Deciding, Carrying
<1>7. \A c, d \in Calls : Apart(calls[c], calls[d]) BY <1>4 DEF Apart, Idle
<1>. QED BY <1>1, <1>3, <1>5, <1>6, <1>7 DEF SInv

LEMMA IdleCurrent == \A L, m : CallCurrent(L, m, Idle)
BY DEF CallCurrent, Idle, Deciding, Carrying

LEMMA HistoryLength == \A i \in Instance : Len(i.history) \in Nat
BY DEF Instance

LEMMA IdleApart == \A x : Apart(Idle, x) /\ Apart(x, Idle)
BY DEF Apart, Idle

\* What a step of one call has to show that carries nothing, before or after.
LEMMA InStepLocal ==
    ASSUME SInv, VInv', NEW c \in Calls, NEW new, Set(c, new),
           UNCHANGED <<log, instances>>,
           calls[c].phase \notin Carrying, new.phase \notin Carrying,
           CallCurrent(log, instances, new),
           \A d \in Calls : d # c => Apart(new, calls[d])
    PROVE  SInv'
<1>1. calls' = [calls EXCEPT ![c] = new] /\ calls = [d \in Calls |-> calls[d]]
  BY DEF Set, SInv, VInv, TInv, Typed
<1>2. \A d \in Calls : calls'[d] = IF d = c THEN new ELSE calls[d] BY <1>1
<1>3. \A d \in Calls : CallCurrent(log, instances, calls'[d]) BY <1>2 DEF SInv
<1>4. \A d, e \in Calls : d # e => Apart(calls'[d], calls'[e])
  <2>1. \A d \in Calls : d # c => Apart(calls[d], new) BY DEF Apart
  <2>. QED BY <1>2, <2>1 DEF SInv
<1>5. ASSUME NEW id, Carried(id) PROVE Carried(id)'
  <2>1. PICK d \in Calls : calls[d].phase \in Carrying /\ calls[d].id = id
    BY <1>5 DEF Carried
  <2>2. calls'[d] = calls[d] BY <1>2, <2>1
  <2>. QED BY <2>1, <2>2 DEF Carried
<1>6. \A id \in InstanceIds : CountIn(log, id) > 0 =>
         Carried(id)' \/ Kept(log, instances, id)
  BY <1>5 DEF SInv
<1>7. /\ \A id \in InstanceIds : CountIn(log, id) > 0 =>
            StateIs(WorkflowRehydrator(log, id))
      /\ \A id \in DOMAIN instances : StateIs(instances[id])
  BY DEF SInv
<1>8. log' = log /\ instances' = instances OBVIOUS
<1>. QED BY <1>3, <1>4, <1>6, <1>7, <1>8 DEF SInv

\* An event says nothing of the other instances.
LEMMA OthersAppend ==
    ASSUME NEW L \in Seq(Event), NEW e \in Event, NEW id, id # e.id
    PROVE  /\ CountIn(Append(L, e), id) = CountIn(L, id)
           /\ WorkflowRehydrator(Append(L, e), id) = WorkflowRehydrator(L, id)
           /\ Past(Append(L, e), id) = Past(L, id)
           /\ IsOver(Append(L, e), id) <=> IsOver(L, id)
<1>. DEFINE M == Append(L, e)
<1>1. /\ \A k \in 1 .. Len(L) : M[k] = L[k]
      /\ EventsIn(M, id) = EventsIn(L, id) /\ CountIn(M, id) = CountIn(L, id)
  BY EventsAppend
<1>2. WorkflowRehydrator(M, id) = WorkflowRehydrator(L, id)
  BY RehydratorAppend DEF Applied
<1>3. EventsIn(L, id) \subseteq 1 .. Len(L) BY EventsFinite
<1>. HIDE DEF M
<1>4. IsOver(M, id) <=> IsOver(L, id) BY <1>1, <1>3 DEF IsOver
<1>. QED BY <1>1, <1>2, <1>4 DEF M, Past

\* What a step has to show that appends an event and then carries it.
LEMMA InStepAppend ==
    ASSUME SInv, VInv', NEW c \in Calls, NEW new, Set(c, new), NEW e \in Event,
           log' = Append(log, e), UNCHANGED instances,
           calls[c].id = e.id, new.id = e.id, new.phase \in Carrying,
           CallCurrent(Append(log, e), instances, new),
           StateIs(WorkflowRehydrator(Append(log, e), e.id)),
           \A d \in Calls : d # c /\ calls[d].phase \in Carrying \cup {"creating"} =>
              calls[d].id # e.id
    PROVE  SInv'
<1>. DEFINE M == Append(log, e)
<1>0. log \in Seq(Event) BY DEF SInv, VInv, LogGood
<1>1. calls' = [calls EXCEPT ![c] = new] /\ calls = [d \in Calls |-> calls[d]]
  BY DEF Set, SInv, VInv, TInv, Typed
<1>2. \A d \in Calls : calls'[d] = IF d = c THEN new ELSE calls[d] BY <1>1
<1>a. \A id : id # e.id => /\ CountIn(M, id) = CountIn(log, id)
                           /\ WorkflowRehydrator(M, id) = WorkflowRehydrator(log, id)
                           /\ Past(M, id) = Past(log, id)
                           /\ IsOver(M, id) <=> IsOver(log, id)
  BY <1>0, OthersAppend
<1>b. log' = M OBVIOUS
<1>c. CallCurrent(M, instances, new) /\ StateIs(WorkflowRehydrator(M, e.id)) OBVIOUS
<1>. HIDE DEF M
<1>3. ASSUME NEW d \in Calls PROVE CallCurrent(M, instances, calls'[d])
  <2>1. CASE d = c BY <1>2, <1>c, <2>1
  <2>2. CASE d # c
    <3>. DEFINE call == calls[d]
    <3>1. calls'[d] = call BY <1>2, <2>2
    <3>2. CallCurrent(log, instances, call) BY DEF SInv
    <3>3. call.phase \in Carrying \cup {"creating"} => call.id # e.id BY <2>2
    <3>. HIDE DEF call
    <3>4. call.phase \in Carrying \cup {"creating"} =>
             /\ CountIn(M, call.id) = CountIn(log, call.id)
             /\ Past(M, call.id) = Past(log, call.id)
             /\ IsOver(M, call.id) <=> IsOver(log, call.id)
      BY <1>a, <3>3
    <3>5. CallCurrent(M, instances, call) BY <3>2, <3>4 DEF CallCurrent
    <3>. QED BY <3>1, <3>5
  <2>. QED BY <2>1, <2>2
<1>4. \A d, x \in Calls : d # x => Apart(calls'[d], calls'[x])
  <2>1. ASSUME NEW d \in Calls, d # c PROVE Apart(calls[d], new) /\ Apart(new, calls[d])
    BY <2>1 DEF Apart, Carrying
  <2>. QED BY <1>2, <2>1 DEF SInv
<1>5. ASSUME NEW id \in InstanceIds, CountIn(M, id) > 0
      PROVE  Carried(id)' \/ Kept(M, instances, id)
  <2>1. CASE id = e.id BY <1>2, <2>1 DEF Carried
  <2>2. CASE id # e.id
    <3>1. Carried(id) \/ Kept(log, instances, id) BY <1>5, <1>a, <2>2 DEF SInv
    <3>2. ASSUME Carried(id) PROVE Carried(id)'
      <4>1. PICK d \in Calls : calls[d].phase \in Carrying /\ calls[d].id = id
        BY <3>2 DEF Carried
      <4>2. calls'[d] = calls[d] BY <1>2, <2>2, <4>1
      <4>. QED BY <4>1, <4>2 DEF Carried
    <3>3. Kept(log, instances, id) => Kept(M, instances, id)
      BY <1>a, <2>2 DEF Kept
    <3>. QED BY <3>1, <3>2, <3>3
  <2>. QED BY <2>1, <2>2
<1>6. \A id \in InstanceIds : CountIn(M, id) > 0 => StateIs(WorkflowRehydrator(M, id))
  <2>. SUFFICES ASSUME NEW id \in InstanceIds, CountIn(M, id) > 0
                PROVE  StateIs(WorkflowRehydrator(M, id))
    OBVIOUS
  <2>1. CASE id = e.id BY <1>c, <2>1
  <2>2. CASE id # e.id
    <3>1. CountIn(log, id) > 0 BY <1>a, <2>2
    <3>2. StateIs(WorkflowRehydrator(log, id)) BY <3>1 DEF SInv
    <3>. QED BY <1>a, <2>2, <3>2
  <2>. QED BY <2>1, <2>2
<1>7. \A id \in DOMAIN instances : StateIs(instances[id]) BY DEF SInv
<1>8. instances' = instances OBVIOUS
<1>. QED BY <1>3, <1>4, <1>5, <1>6, <1>7, <1>8, <1>b DEF SInv

\* What a step has to show that puts what a call carries into the map.
LEMMA InStepStore ==
    ASSUME SInv, VInv', NEW c \in Calls, Set(c, Idle), UNCHANGED log,
           calls[c].phase \in Carrying, calls[c].id \in InstanceIds,
           DOMAIN instances' = DOMAIN instances \cup {calls[c].id},
           instances'[calls[c].id] = calls[c].instance,
           \A id \in DOMAIN instances : id # calls[c].id => instances'[id] = instances[id],
           IsOver(log, calls[c].id) => calls[c].instance.isComplete
    PROVE  SInv'
<1>. DEFINE call == calls[c]
<1>0. /\ DOMAIN instances' = DOMAIN instances \cup {call.id}
      /\ instances'[call.id] = call.instance
      /\ \A id \in DOMAIN instances : id # call.id => instances'[id] = instances[id]
      /\ IsOver(log, call.id) => call.instance.isComplete
      /\ call.id \in InstanceIds /\ call.phase \in Carrying
  OBVIOUS
<1>1. calls' = [calls EXCEPT ![c] = Idle] /\ calls = [d \in Calls |-> calls[d]]
  BY DEF Set, SInv, VInv, TInv, Typed
<1>2. \A d \in Calls : calls'[d] = IF d = c THEN Idle ELSE calls[d] BY <1>1
<1>3. CallCurrent(log, instances, call) BY DEF SInv
<1>a. /\ StateIs(call.instance) /\ Len(call.instance.history) = Past(log, call.id)
      /\ call.id \in DOMAIN instances =>
            Len(instances[call.id].history) < Len(call.instance.history)
  BY <1>0, <1>3 DEF CallCurrent
<1>b. \A d \in Calls : d # c => Apart(call, calls[d]) BY DEF SInv
<1>c. ASSUME NEW d \in Calls
      PROVE  /\ calls[d].phase \in Deciding => calls[d].instance \in Instance
             /\ \A id \in DOMAIN instances : instances[id] \in Instance
             /\ call.instance \in Instance
  <2>1. CallTyped(calls[d], world) /\ CallTyped(call, world)
    BY DEF SInv, VInv, TInv, Typed
  <2>2. calls[d].phase \in Deciding => calls[d].instance \in Instance BY <2>1, Unfold
  <2>3. call.instance \in Instance BY <1>0, <2>1, Unfold DEF Carrying
  <2>. QED BY <2>2, <2>3 DEF SInv, VInv, TInv, Typed
<1>. HIDE DEF call
<1>4. ASSUME NEW d \in Calls PROVE CallCurrent(log, instances', calls'[d])
  <2>1. CASE d = c BY <1>2, <2>1, IdleCurrent
  <2>2. CASE d # c
    <3>. DEFINE other == calls[d]
    <3>1. calls'[d] = other /\ Apart(call, other) BY <1>2, <1>b, <2>2
    <3>2. CallCurrent(log, instances, other) BY DEF SInv
    <3>4. other.phase \in Deciding => other.instance \in Instance BY <1>c
    <3>5. \A id \in DOMAIN instances : instances[id] \in Instance BY <1>c
    <3>6. call.instance \in Instance BY <1>c
    <3>. HIDE DEF other
    <3>3. other.phase \in Carrying => other.id # call.id
      BY <1>0, <3>1 DEF Apart, Carrying
    <3>7. CASE other.phase \in Deciding
      <4>1. /\ other.id \in DOMAIN instances /\ StateIs(other.instance)
            /\ Len(other.instance.history) <= Len(instances[other.id].history)
        BY <3>2, <3>7 DEF CallCurrent
      <4>2. Len(other.instance.history) <= Len(instances'[other.id].history)
        <5>1. CASE other.id = call.id
          <6>1. /\ Len(instances[call.id].history) < Len(call.instance.history)
                /\ Len(other.instance.history) <= Len(instances[call.id].history)
                /\ instances'[other.id] = call.instance
            BY <1>0, <1>a, <4>1, <5>1
          <6>2. /\ Len(instances[call.id].history) \in Nat
                /\ Len(call.instance.history) \in Nat
                /\ Len(other.instance.history) \in Nat
            <7>1. call.id \in DOMAIN instances BY <4>1, <5>1
            <7>2. instances[call.id] \in Instance BY <3>5, <7>1
            <7>3. other.instance \in Instance BY <3>4, <3>7
            <7>. QED BY <3>6, <7>2, <7>3, HistoryLength
          <6>. DEFINE x == Len(other.instance.history)
                      y == Len(instances[call.id].history)
                      z == Len(call.instance.history)
          <6>3. x <= z
            <7>1. x \in Nat /\ y \in Nat /\ z \in Nat /\ y < z /\ x <= y BY <6>1, <6>2
            <7>. HIDE DEF x, y, z
            <7>. QED BY <7>1
          <6>4. instances'[other.id].history = call.instance.history BY <6>1
          <6>. QED BY <6>3, <6>4
        <5>2. CASE other.id # call.id BY <1>0, <4>1, <5>2
        <5>. QED BY <5>1, <5>2
      <4>3. other.phase # "creating" /\ other.phase \notin Carrying
        BY <3>7 DEF Deciding, Carrying
      <4>4. other.id \in DOMAIN instances' BY <1>0, <4>1
      <4>5. CallCurrent(log, instances', other) BY <4>1, <4>2, <4>3, <4>4 DEF CallCurrent
      <4>. QED BY <3>1, <4>5
    <3>8. CASE other.phase \in Carrying
      <4>1. other.id # call.id BY <3>3, <3>8
      <4>2. /\ other.id \in DOMAIN instances' <=> other.id \in DOMAIN instances
            /\ other.id \in DOMAIN instances => instances'[other.id] = instances[other.id]
        BY <1>0, <4>1
      <4>3. CallCurrent(log, instances', other)
        BY <3>2, <3>8, <4>2 DEF CallCurrent, Carrying, Deciding
      <4>. QED BY <3>1, <4>3
    <3>9. CASE other.phase \notin Deciding \cup Carrying
      BY <3>1, <3>2, <3>9 DEF CallCurrent
    <3>. QED BY <3>7, <3>8, <3>9
  <2>. QED BY <2>1, <2>2
<1>5. \A d, x \in Calls : d # x => Apart(calls'[d], calls'[x])
  BY <1>2, IdleApart DEF SInv
<1>6. ASSUME NEW id \in InstanceIds, CountIn(log, id) > 0
      PROVE  Carried(id)' \/ Kept(log, instances', id)
  <2>1. CASE id = call.id BY <1>0, <1>a, <2>1 DEF Kept
  <2>2. CASE id # call.id
    <3>1. Carried(id) \/ Kept(log, instances, id) BY <1>6 DEF SInv
    <3>2. ASSUME Carried(id) PROVE Carried(id)'
      <4>1. PICK d \in Calls : calls[d].phase \in Carrying /\ calls[d].id = id
        BY <3>2 DEF Carried
      <4>2. calls'[d] = calls[d] BY <1>2, <2>2, <4>1 DEF call
      <4>. QED BY <4>1, <4>2 DEF Carried
    <3>3. Kept(log, instances, id) => Kept(log, instances', id)
      BY <1>0, <2>2 DEF Kept
    <3>. QED BY <3>1, <3>2, <3>3
  <2>. QED BY <2>1, <2>2
<1>7. \A id \in DOMAIN instances' : StateIs(instances'[id])
  BY <1>0, <1>a DEF SInv
<1>8. \A id \in InstanceIds : CountIn(log, id) > 0 => StateIs(WorkflowRehydrator(log, id))
  BY DEF SInv
<1>9. log' = log OBVIOUS
<1>. QED BY <1>4, <1>5, <1>6, <1>7, <1>8, <1>9 DEF SInv
-----------------------------------------------------------------------------
\* The rehydrator after one event more of its instance.
LEMMA AppendStateIs ==
    ASSUME NEW L \in Seq(Event), NEW e \in Event,
           e.type = "WorkflowInstanceCreated" => e.to = InitialState,
           e.type = "WorkflowCompleted" => StateIs(WorkflowRehydrator(L, e.id))
    PROVE  /\ StateIs(WorkflowRehydrator(Append(L, e), e.id))
           /\ Past(Append(L, e), e.id) =
                 CASE e.type = "WorkflowInstanceCreated" -> 0
                   [] e.type = "WorkflowTransitioned" -> Past(L, e.id) + 1
                   [] e.type = "WorkflowCompleted" -> Past(L, e.id)
<1>. DEFINE r == WorkflowRehydrator(L, e.id)
            s == WorkflowRehydrator(Append(L, e), e.id)
<1>1. s = Apply(r, e) BY RehydratorAppend DEF Applied
<1>2. r \in Rebuilt BY RehydratorType
<1>3. e.type \in {"WorkflowInstanceCreated", "WorkflowTransitioned", "WorkflowCompleted"}
  BY DEF Event
<1>4. e.type = "WorkflowCompleted" => StateIs(r) OBVIOUS
<1>. HIDE DEF r, s
<1>5. CASE e.type = "WorkflowInstanceCreated"
  <2>1. s = [NotCreated EXCEPT !.version = e.version, !.currentState = e.to]
    BY <1>1, <1>5 DEF Apply
  <2>2. s.history = << >> /\ s.currentState = e.to BY <2>1 DEF NotCreated
  <2>3. Len(s.history) = 0 BY <2>2
  <2>. QED BY <1>5, <2>2, <2>3 DEF StateIs, Past, s
<1>6. CASE e.type = "WorkflowTransitioned"
  <2>. DEFINE x == [name |-> e.name, from |-> e.from, to |-> e.to]
              h == Append(r.history, x)
  <2>1. s = [r EXCEPT !.version = e.version, !.currentState = e.to, !.history = h]
    BY <1>1, <1>6 DEF Apply
  <2>2. x \in Entry BY DEF Event, Entry
  <2>3. r.history \in Seq(Entry) BY <1>2 DEF Rebuilt
  <2>4. /\ Len(h) = Len(r.history) + 1 /\ h[Len(h)] = x /\ h # << >> /\ x.to = e.to
    BY <2>2, <2>3, AppendProperties
  <2>. HIDE DEF h, x
  <2>5. s.history = h /\ s.currentState = e.to BY <1>2, <2>1 DEF Rebuilt
  <2>6. StateIs(s) BY <2>4, <2>5 DEF StateIs
  <2>. QED BY <1>6, <2>4, <2>5, <2>6 DEF Past, r, s
<1>7. CASE e.type = "WorkflowCompleted"
  <2>1. s = [r EXCEPT !.version = e.version, !.isComplete = TRUE]
    BY <1>1, <1>7 DEF Apply
  <2>2. s.history = r.history /\ s.currentState = r.currentState
    BY <1>2, <2>1 DEF Rebuilt
  <2>3. StateIs(s) BY <1>4, <1>7, <2>2 DEF StateIs
  <2>. QED BY <1>7, <2>2, <2>3 DEF Past, r, s
<1>. QED BY <1>3, <1>5, <1>6, <1>7

\* What is known of a call.
LEMMA CallInStep ==
    ASSUME SInv, NEW c \in Calls
    PROVE  /\ CallTyped(calls[c], world) /\ CallBehind(log, calls[c])
           /\ CallCurrent(log, instances, calls[c])
           /\ \A d \in Calls : d # c => Apart(calls[c], calls[d])
           /\ LogGood(log) /\ log \in Seq(Event) /\ VInv
BY CallKnown DEF SInv

LEMMA InStepStart ==
    ASSUME SInv, VInv', NEW c \in Calls, NEW target \in Targets, Start(c, target)
    PROVE  SInv'
<1>1. PICK id \in FreshIds :
         Set(c, [phase |-> "creating", id |-> id, instance |-> NewInstance(target)])
  BY DEF Start
<1>. DEFINE new == [phase |-> "creating", id |-> id, instance |-> NewInstance(target)]
<1>2. new.phase = "creating" /\ new.id = id OBVIOUS
<1>3. Set(c, new) /\ UNCHANGED <<log, instances>> /\ calls[c].phase = "idle"
  BY <1>1 DEF Start
<1>. HIDE DEF new
<1>4. CountIn(log, id) = 0
  <2>1. EventsIn(log, id) = {} BY EventsOfIn DEF FreshIds
  <2>. QED BY <2>1, EventsFinite, CallInStep
<1>5. CallCurrent(log, instances, new)
  BY <1>2, <1>4 DEF CallCurrent, Deciding, Carrying
<1>6. \A d \in Calls : d # c => Apart(new, calls[d])
  BY <1>2 DEF Apart, FreshIds
<1>7. calls[c].phase \notin Carrying /\ new.phase \notin Carrying
  BY <1>2, <1>3 DEF Carrying
<1>. QED BY <1>3, <1>5, <1>6, <1>7, InStepLocal

LEMMA InStepRequest ==
    ASSUME SInv, VInv', NEW c \in Calls, NEW id \in DOMAIN instances,
           NEW t \in Transitions, NEW a \in Actors, Request(c, id, t, a)
    PROVE  SInv'
<1>. DEFINE new == [phase |-> "authorizing", id |-> id, instance |-> instances[id],
                    transition |-> t, actor |-> a]
<1>1. new.phase = "authorizing" /\ new.id = id /\ new.instance = instances[id]
  OBVIOUS
<1>2. Set(c, new) /\ UNCHANGED <<log, instances>> /\ calls[c].phase = "idle"
  BY DEF Request
<1>3. StateIs(instances[id]) BY DEF SInv
<1>4. instances[id] \in Instance BY DEF SInv, VInv, TInv, Typed
<1>5. Len(instances[id].history) <= Len(instances[id].history)
  BY <1>4, HistoryLength
<1>. HIDE DEF new
<1>6. CallCurrent(log, instances, new)
  BY <1>1, <1>3, <1>5 DEF CallCurrent, Deciding, Carrying
<1>7. ASSUME NEW d \in Calls, d # c PROVE Apart(new, calls[d])
  <2>1. calls[d].phase = "creating" => calls[d].id # id
    <3>1. Behind(log, id, instances[id]) BY DEF SInv, VInv
    <3>2. EventsIn(log, id) # {} BY <3>1 DEF Behind
    <3>3. log \in Seq(Event) BY CallInStep
    <3>4. CountIn(log, id) # 0 BY <3>2, <3>3, EventsFinite
    <3>5. CallCurrent(log, instances, calls[d]) BY DEF SInv
    <3>. QED BY <3>4, <3>5 DEF CallCurrent
  <2>. QED BY <1>1, <2>1 DEF Apart, Carrying
<1>8. calls[c].phase \notin Carrying /\ new.phase \notin Carrying
  BY <1>1, <1>2 DEF Carrying
<1>. QED BY <1>2, <1>6, <1>7, <1>8, InStepLocal

LEMMA InStepDecides ==
    ASSUME SInv, VInv', NEW c \in Calls, NEW phase \in Deciding,
           calls[c].phase \in Deciding, Set(c, [calls[c] EXCEPT !.phase = phase]),
           UNCHANGED <<log, instances>>
    PROVE  SInv'
<1>. DEFINE call == calls[c]
            new == [call EXCEPT !.phase = phase]
<1>1. /\ CallTyped(call, world) /\ CallCurrent(log, instances, call)
      /\ \A d \in Calls : d # c => Apart(call, calls[d])
  BY CallInStep
<1>2. call \in TransitionCall BY <1>1, Unfold
<1>3. new.phase = phase /\ new.id = call.id /\ new.instance = call.instance
  BY <1>2 DEF TransitionCall
<1>4. call.phase \in Deciding OBVIOUS
<1>. HIDE DEF call, new
<1>5. CallCurrent(log, instances, new)
  BY <1>1, <1>3, <1>4 DEF CallCurrent, Deciding, Carrying
<1>6. \A d \in Calls : d # c => Apart(new, calls[d])
  BY <1>1, <1>3, <1>4 DEF Apart, Deciding, Carrying
<1>7. call.phase \notin Carrying /\ new.phase \notin Carrying
  BY <1>3, <1>4 DEF Carrying, Deciding
<1>. QED BY <1>5, <1>6, <1>7, InStepLocal DEF call, new

\* A call that decides, or is about to create, leaves nothing behind.
LEMMA InStepGivesUp ==
    ASSUME SInv, VInv', NEW c \in Calls, calls[c].phase \notin Carrying,
           Set(c, Idle), UNCHANGED <<log, instances>>
    PROVE  SInv'
<1>1. Idle.phase \notin Carrying BY DEF Idle, Carrying
<1>. QED BY <1>1, IdleCurrent, IdleApart, InStepLocal

LEMMA InStepAppendCreated ==
    ASSUME SInv, VInv', NEW c \in Calls, AppendCreated(c)
    PROVE  SInv'
<1>. DEFINE call == calls[c]
            i == call.instance
            id == call.id
            new == [call EXCEPT !.phase = "created"]
            e == WorkflowEvent("WorkflowInstanceCreated", id, 1, "", "", InitialState)
            M == Append(log, e)
<1>1. /\ CallTyped(call, world) /\ CallBehind(log, call)
      /\ CallCurrent(log, instances, call)
      /\ \A d \in Calls : d # c => Apart(call, calls[d])
      /\ log \in Seq(Event)
  BY CallInStep
<1>2. call.phase = "creating" BY DEF AppendCreated
<1>3. call \in StartCall /\ id \in InstanceIds BY <1>1, <1>2, Unfold
<1>4. PICK target \in Targets : i = NewInstance(target)
  BY <1>1, <1>2 DEF CallBehind
<1>5. new.phase = "created" /\ new.id = id /\ new.instance = i
  BY <1>3 DEF StartCall
<1>6. log' = M /\ Set(c, new) /\ UNCHANGED instances BY DEF AppendCreated
<1>7. e \in Event /\ e.type = "WorkflowInstanceCreated" /\ e.id = id
      /\ e.to = InitialState
  BY <1>3 DEF WorkflowEvent, Event, States
<1>8. CountIn(log, id) = 0 BY <1>1, <1>2 DEF CallCurrent
<1>. HIDE DEF call, i, new, e, id
<1>9. StateIs(WorkflowRehydrator(M, id)) /\ Past(M, id) = 0
  BY <1>1, <1>7, AppendStateIs
<1>10. id \notin DOMAIN instances
  <2>1. ASSUME id \in DOMAIN instances PROVE FALSE
    <3>1. Behind(log, id, instances[id]) BY <2>1 DEF SInv, VInv
    <3>2. EventsIn(log, id) # {} BY <3>1 DEF Behind
    <3>. QED BY <1>1, <1>8, <3>2, EventsFinite
  <2>. QED BY <2>1
<1>11. ~IsOver(M, id)
  <2>1. EventsIn(log, id) = {} BY <1>1, <1>8, EventsFinite
  <2>2. /\ EventsIn(M, id) = EventsIn(log, id) \cup {Len(log) + 1}
        /\ M[Len(log) + 1] = e
    BY <1>1, <1>7, EventsAppend
  <2>. QED BY <1>7, <2>1, <2>2 DEF IsOver
<1>12. i.history = << >> /\ i.currentState = InitialState /\ Len(i.history) = 0
  BY <1>4 DEF NewInstance
<1>13. CallCurrent(M, instances, new)
  BY <1>5, <1>9, <1>10, <1>11, <1>12 DEF CallCurrent, Deciding, Carrying, StateIs
<1>14. \A d \in Calls : d # c /\ calls[d].phase \in Carrying \cup {"creating"} =>
          calls[d].id # id
  BY <1>1, <1>2 DEF Apart, Carrying, id
<1>15. calls[c].id = e.id /\ new.id = e.id /\ new.phase \in Carrying
  BY <1>5, <1>7 DEF Carrying, call, id
<1>. QED BY <1>6, <1>7, <1>9, <1>13, <1>14, <1>15, InStepAppend DEF M

LEMMA InStepStoreCreated ==
    ASSUME SInv, VInv', NEW c \in Calls, StoreCreated(c)
    PROVE  SInv'
<1>. DEFINE call == calls[c]
<1>1. CallTyped(call, world) /\ CallCurrent(log, instances, call) BY CallInStep
<1>2. call.phase = "created" BY DEF StoreCreated
<1>3. call.id \in InstanceIds BY <1>1, <1>2, Unfold
<1>4. /\ instances' = [id \in DOMAIN instances \cup {call.id} |->
                          IF id = call.id THEN call.instance ELSE instances[id]]
      /\ Set(c, Idle) /\ log' = log
  BY DEF StoreCreated
<1>5. ~IsOver(log, call.id) /\ call.phase \in Carrying
  BY <1>1, <1>2 DEF CallCurrent, Carrying
<1>. HIDE DEF call
<1>6. /\ DOMAIN instances' = DOMAIN instances \cup {call.id}
      /\ instances'[call.id] = call.instance
      /\ \A id \in DOMAIN instances : id # call.id => instances'[id] = instances[id]
  BY <1>4
<1>. QED BY <1>3, <1>4, <1>5, <1>6, InStepStore DEF call

LEMMA InStepStoreUpdated ==
    ASSUME SInv, VInv', NEW c \in Calls, StoreUpdated(c)
    PROVE  SInv'
<1>. DEFINE call == calls[c]
<1>1. CallTyped(call, world) /\ CallCurrent(log, instances, call) BY CallInStep
<1>2. \/ call.phase = "entering" /\ ~call.instance.isComplete
      \/ call.phase = "completed"
  BY DEF StoreUpdated
<1>3. call.id \in InstanceIds BY <1>1, <1>2, Unfold
<1>4. /\ instances' = [instances EXCEPT ![call.id] = call.instance]
      /\ Set(c, Idle) /\ log' = log
  BY DEF StoreUpdated
<1>. HIDE DEF call
<1>5. /\ call.phase \in Carrying /\ call.id \in DOMAIN instances
      /\ IsOver(log, call.id) => call.instance.isComplete
  BY <1>1, <1>2 DEF CallCurrent, Carrying
<1>6. /\ DOMAIN instances' = DOMAIN instances \cup {call.id}
      /\ instances'[call.id] = call.instance
      /\ \A id \in DOMAIN instances : id # call.id => instances'[id] = instances[id]
  BY <1>4, <1>5
<1>. QED BY <1>3, <1>4, <1>5, <1>6, InStepStore DEF call

\* Only a call that decided on what the map has, while none carries more, gets
\* its transition into the log.
LEMMA InStepAppendTransitioned ==
    ASSUME VersionChecked, SInv, VInv', NEW c \in Calls, AppendTransitioned(c)
    PROVE  SInv'
<1>. DEFINE call == calls[c]
            i == call.instance
            t == call.transition
            id == call.id
            u == UpdatedInstance(c)
            new == [call EXCEPT !.phase = "entering", !.instance = u]
            e == WorkflowEvent("WorkflowTransitioned", id, u.version, t.name,
                               i.currentState, t.to)
            M == Append(log, e)
            entry == [name |-> t.name, from |-> i.currentState, to |-> t.to]
            n == CountIn(log, id)
<1>1. /\ CallTyped(call, world) /\ CallBehind(log, call)
      /\ CallCurrent(log, instances, call)
      /\ \A d \in Calls : d # c => Apart(call, calls[d])
      /\ LogGood(log) /\ log \in Seq(Event) /\ VInv
  BY CallInStep
<1>2. call.phase = "emitting" BY DEF AppendTransitioned
<1>3. /\ call \in TransitionCall /\ id \in InstanceIds /\ i \in Instance /\ t \in Transitions
  BY <1>1, <1>2, Unfold DEF Deciding
<1>4. Behind(log, id, i) BY <1>1, <1>2 DEF CallBehind, Deciding
<1>5. /\ u \in Instance /\ u.version = i.version + 1 /\ u.currentState = t.to
      /\ u.history = Append(i.history, entry)
  BY <1>3, UpdatedCopy
<1>6. log' = M /\ Set(c, new) /\ UNCHANGED instances BY DEF AppendTransitioned
<1>7. n \in Nat BY <1>1, EventsFinite
<1>8. i.version \in Nat /\ i.version = n
  <2>1. u.version = Cardinality(EventsOf(id)) + 1 BY DEF AppendTransitioned, Accepts
  <2>2. u.version = n + 1 BY <2>1, EventsOfIn DEF CountIn
  <2>3. i.version \in Nat BY <1>3 DEF Instance
  <2>. QED BY <1>5, <1>7, <2>2, <2>3
<1>. HIDE DEF u
<1>9. new.phase = "entering" /\ new.id = id /\ new.instance = u
  BY <1>3 DEF TransitionCall
<1>10. /\ e \in Event /\ e.type = "WorkflowTransitioned" /\ e.id = id /\ e.to = t.to
  BY <1>3, <1>5 DEF WorkflowEvent, Event, Instance, States, Names
<1>11. entry \in Step /\ entry.to = t.to BY <1>3 DEF Step, Instance, States, Names
<1>12. i.history \in Seq(Step) BY <1>3 DEF Instance
<1>a. /\ id \in DOMAIN instances
      /\ Len(i.history) <= Len(instances[id].history)
  BY <1>1, <1>2 DEF CallCurrent, Deciding
<1>b. instances[id] \in Instance BY <1>a DEF SInv, VInv, TInv, Typed
<1>. HIDE DEF call, i, t, new, e, entry
<1>13. PICK k \in EventsIn(log, id) :
          /\ log[k].version = i.version /\ log[k].type # "WorkflowCompleted"
  BY <1>4 DEF Behind
<1>14. Past(log, id) = Len(i.history) /\ ~IsOver(log, id)
  <2>1. ~IsOver(log, id) BY <1>1, <1>3, <1>8, <1>13, UpToDate DEF n
  <2>2. SaysOf(log, id) BY <1>1, <1>3 DEF LogGood
  <2>3. n > 0
    <3>1. i.version # 0 BY <1>3 DEF Instance
    <3>. QED BY <1>7, <1>8, <3>1
  <2>4. Past(log, id) = n - 1 BY <2>1, <2>2, <2>3 DEF SaysOf, Past, n
  <2>. QED BY <1>4, <1>8, <2>1, <2>4 DEF Behind
<1>. HIDE DEF id, n
<1>15. StateIs(WorkflowRehydrator(M, id)) /\ Past(M, id) = Past(log, id) + 1
  BY <1>1, <1>10, AppendStateIs
<1>16. /\ Len(u.history) = Len(i.history) + 1 /\ u.history # << >>
       /\ u.history[Len(u.history)] = entry
  BY <1>5, <1>11, <1>12, AppendProperties
<1>17. StateIs(u) BY <1>5, <1>11, <1>16 DEF StateIs
<1>18. /\ EventsIn(M, id) = EventsIn(log, id) \cup {Len(log) + 1}
       /\ M[Len(log) + 1] = e
       /\ \A m \in 1 .. Len(log) : M[m] = log[m]
  BY <1>1, <1>10, EventsAppend
<1>19. ~IsOver(M, id)
  <2>1. EventsIn(log, id) \subseteq 1 .. Len(log) BY <1>1, EventsFinite
  <2>. QED BY <1>10, <1>14, <1>18, <2>1 DEF IsOver
<1>20. Len(instances[id].history) < Len(u.history)
  <2>1. Behind(log, id, instances[id]) BY <1>1, <1>a DEF VInv
  <2>2. Len(instances[id].history) <= Past(log, id) BY <2>1 DEF Behind, Past
  <2>3. Len(instances[id].history) \in Nat /\ Len(i.history) \in Nat
    BY <1>3, <1>b, HistoryLength
  <2>. QED BY <1>14, <1>16, <2>2, <2>3
<1>. HIDE DEF M
<1>21. CallCurrent(M, instances, new)
  BY <1>9, <1>14, <1>15, <1>16, <1>17, <1>19, <1>20, <1>a
     DEF CallCurrent, Deciding, Carrying
<1>22. ASSUME NEW d \in Calls, d # c, calls[d].phase \in Carrying \cup {"creating"},
              calls[d].id = id
       PROVE  FALSE
  <2>1. Apart(call, calls[d]) BY <1>1, <1>22
  <2>2. calls[d].phase \in Carrying BY <1>2, <1>22, <2>1 DEF Apart, id, Carrying
  <2>3. CallCurrent(log, instances, calls[d]) BY DEF SInv
  <2>4. /\ Len(calls[d].instance.history) = Past(log, id)
        /\ Len(instances[id].history) < Len(calls[d].instance.history)
    BY <1>22, <1>a, <2>2, <2>3 DEF CallCurrent
  <2>5. Len(instances[id].history) \in Nat /\ Len(i.history) \in Nat
    BY <1>3, <1>b, HistoryLength
  <2>. QED BY <1>14, <1>a, <2>4, <2>5
<1>23. calls[c].id = e.id /\ new.id = e.id /\ new.phase \in Carrying
  BY <1>9, <1>10 DEF Carrying, call, id
<1>. QED BY <1>6, <1>10, <1>15, <1>21, <1>22, <1>23, InStepAppend DEF M

LEMMA InStepAppendCompleted ==
    ASSUME SInv, VInv', NEW c \in Calls, AppendCompleted(c)
    PROVE  SInv'
<1>. DEFINE call == calls[c]
            i == call.instance
            id == call.id
            new == [call EXCEPT !.phase = "completed"]
            e == WorkflowEvent("WorkflowCompleted", id, i.version + 1, "", "",
                               i.currentState)
            M == Append(log, e)
<1>1. /\ CallTyped(call, world) /\ CallBehind(log, call)
      /\ CallCurrent(log, instances, call)
      /\ \A d \in Calls : d # c => Apart(call, calls[d])
      /\ LogGood(log) /\ log \in Seq(Event)
  BY CallInStep
<1>2. call.phase = "entering" /\ i.isComplete BY DEF AppendCompleted
<1>3. call \in TransitionCall /\ id \in InstanceIds /\ i \in Instance
  BY <1>1, <1>2, Unfold
<1>4. log' = M /\ Set(c, new) /\ UNCHANGED instances BY DEF AppendCompleted
<1>5. new.phase = "completed" /\ new.id = id /\ new.instance = i
  BY <1>3 DEF TransitionCall
<1>6. /\ e \in Event /\ e.type = "WorkflowCompleted" /\ e.id = id
  BY <1>3 DEF WorkflowEvent, Event, Instance
<1>7. Behind(log, id, i) BY <1>1, <1>2 DEF CallBehind
<1>. HIDE DEF call, i, id, new, e
<1>8. /\ StateIs(i) /\ Len(i.history) = Past(log, id)
      /\ id \in DOMAIN instances
      /\ Len(instances[id].history) < Len(i.history)
  BY <1>1, <1>2 DEF CallCurrent, Carrying, i, id
<1>9. CountIn(log, id) > 0
  <2>1. EventsIn(log, id) # {} BY <1>7 DEF Behind
  <2>2. CountIn(log, id) # 0 /\ CountIn(log, id) \in Nat BY <1>1, <2>1, EventsFinite
  <2>. QED BY <2>2
<1>10. StateIs(WorkflowRehydrator(log, id)) BY <1>3, <1>9 DEF SInv
<1>11. StateIs(WorkflowRehydrator(M, id)) /\ Past(M, id) = Past(log, id)
  BY <1>1, <1>6, <1>10, AppendStateIs
<1>12. CallCurrent(M, instances, new)
  BY <1>2, <1>5, <1>8, <1>11 DEF CallCurrent, Deciding, Carrying
<1>13. \A d \in Calls : d # c /\ calls[d].phase \in Carrying \cup {"creating"} =>
          calls[d].id # id
  BY <1>1, <1>2 DEF Apart, Carrying, id
<1>14. calls[c].id = e.id /\ new.id = e.id /\ new.phase \in Carrying
  BY <1>5, <1>6 DEF Carrying, call, id
<1>. QED BY <1>4, <1>6, <1>11, <1>12, <1>13, <1>14, InStepAppend DEF M

\* The completion of a call that carries its transition is always the next
\* event, so the store never refuses it.
LEMMA InStepConflict ==
    ASSUME SInv, VInv', NEW c \in Calls, Conflict(c)
    PROVE  SInv'
<1>. DEFINE call == calls[c]
            n == CountIn(log, call.id)
<1>1. /\ CallTyped(call, world) /\ CallBehind(log, call)
      /\ CallCurrent(log, instances, call)
      /\ LogGood(log) /\ log \in Seq(Event)
  BY CallInStep
<1>2. Set(c, Idle) /\ UNCHANGED <<log, instances>> BY DEF Conflict
<1>3. CASE call.phase = "emitting"
  <2>1. call.phase \notin Carrying BY <1>3 DEF Carrying
  <2>. QED BY <1>2, <2>1, InStepGivesUp
<1>4. CASE call.phase # "emitting"
  <2>1. /\ call.phase = "entering"
        /\ call.instance.version + 1 # Cardinality(EventsOf(call.id)) + 1
    BY <1>4 DEF Conflict
  <2>2. call.id \in InstanceIds /\ call.instance \in Instance BY <1>1, <2>1, Unfold
  <2>3. Behind(log, call.id, call.instance) BY <1>1, <2>1 DEF CallBehind
  <2>4. /\ Len(call.instance.history) = Past(log, call.id)
        /\ ~IsOver(log, call.id)
    BY <1>1, <2>1 DEF CallCurrent, Carrying
  <2>5. n \in Nat /\ n # 0
    <3>1. EventsIn(log, call.id) # {} BY <2>3 DEF Behind
    <3>. QED BY <1>1, <3>1, EventsFinite
  <2>6. SaysOf(log, call.id) BY <1>1, <2>2 DEF LogGood
  <2>7. Past(log, call.id) = n - 1 BY <2>4, <2>5, <2>6 DEF SaysOf, Past
  <2>8. Len(call.instance.history) = call.instance.version - 1 BY <2>3 DEF Behind
  <2>9. call.instance.version \in Nat BY <2>2 DEF Instance
  <2>10. call.instance.version # n BY <2>1, EventsOfIn DEF CountIn
  <2>. QED BY <2>4, <2>5, <2>7, <2>8, <2>9, <2>10
<1>. QED BY <1>3, <1>4

LEMMA InStepStutter ==
    ASSUME SInv, VInv', UNCHANGED <<log, instances, calls>> PROVE SInv'
BY DEF SInv, Carried

LEMMA InStepNext ==
    ASSUME VersionChecked, ~MayFail, ~MayRestart, SInv, [Next]_vars
    PROVE  SInv'
<1>. VInv' BY VersionedNext DEF SInv
<1>1. ASSUME NEW c \in Calls, NEW target \in Targets, Start(c, target) PROVE SInv'
  BY <1>1, InStepStart
<1>2. ASSUME NEW c \in Calls, NEW id \in DOMAIN instances, NEW t \in Transitions,
             NEW a \in Actors, Request(c, id, t, a)
      PROVE  SInv'
  BY <1>2, InStepRequest
<1>3. ASSUME NEW c \in Calls, calls[c].phase \in Deciding, Set(c, Idle),
             UNCHANGED <<log, instances>>
      PROVE  SInv'
  BY <1>3, InStepGivesUp DEF Deciding, Carrying
<1>4. ASSUME NEW c \in Calls, CallStep(c) PROVE SInv'
  <2>1. CASE AppendCreated(c) BY <2>1, InStepAppendCreated
  <2>2. CASE StoreCreated(c) BY <2>2, InStepStoreCreated
  <2>3. CASE Authorize(c) BY <1>3, <2>3, InStepDecides DEF Authorize, Deciding
  <2>4. CASE EvaluateGuards(c) BY <1>3, <2>4, InStepDecides DEF EvaluateGuards, Deciding
  <2>5. CASE Leave(c) BY <2>5, InStepDecides DEF Leave, Deciding
  <2>6. CASE AppendTransitioned(c) BY <2>6, InStepAppendTransitioned
  <2>7. CASE AppendCompleted(c) BY <2>7, InStepAppendCompleted
  <2>8. CASE StoreUpdated(c) BY <2>8, InStepStoreUpdated
  <2>9. CASE Conflict(c) BY <2>9, InStepConflict
  <2>. QED BY <1>4, <2>1, <2>2, <2>3, <2>4, <2>5, <2>6, <2>7, <2>8, <2>9 DEF CallStep
<1>5. ASSUME NEW c \in Calls, Fail(c) PROVE FALSE BY <1>5 DEF Fail
<1>6. ~Restart BY DEF Restart
<1>7. CASE WorldMoves BY <1>7, InStepStutter DEF WorldMoves
<1>8. CASE UNCHANGED vars BY <1>8, InStepStutter DEF vars
<1>. QED BY <1>1, <1>2, <1>4, <1>5, <1>6, <1>7, <1>8 DEF Next

LEMMA InStepAgrees == ASSUME SInv PROVE CacheIsLog
<1>. SUFFICES ASSUME \A c \in Calls : calls[c].phase = "idle",
                     NEW id \in DOMAIN instances
              PROVE  LET i == instances[id]  r == Rehydrated(id) IN
                     /\ i.currentState = r.currentState
                     /\ i.history = r.history
                     /\ i.isComplete = r.isComplete
  BY DEF CacheIsLog
<1>. DEFINE i == instances[id]
            r == WorkflowRehydrator(log, id)
            h == i.history
            g == r.history
<1>1. id \in InstanceIds /\ i \in Instance /\ LogGood(log) /\ log \in Seq(Event)
  BY DEF SInv, VInv, TInv, Typed
<1>2. Behind(log, id, i) /\ (i.isComplete => IsOver(log, id)) BY DEF SInv, VInv
<1>3. CountIn(log, id) > 0
  <2>1. EventsIn(log, id) # {} BY <1>2 DEF Behind
  <2>2. CountIn(log, id) # 0 /\ CountIn(log, id) \in Nat BY <1>1, <2>1, EventsFinite
  <2>. QED BY <2>2
<1>4. ~Carried(id) BY DEF Carried, Carrying
<1>5. Kept(log, instances, id) BY <1>1, <1>3, <1>4 DEF SInv
<1>6. StateIs(i) /\ StateIs(r) BY <1>1, <1>3 DEF SInv
<1>7. Len(h) = Len(g) BY <1>5 DEF Kept, Past
<1>8. \A m \in 1 .. Len(h) : h[m] = g[m] BY <1>2 DEF Behind
<1>9. r \in Rebuilt BY <1>1, RehydratorType
<1>10. h \in Seq(Step) /\ g \in Seq(Entry) BY <1>1, <1>9 DEF Instance, Rebuilt
<1>11. i.isComplete \in BOOLEAN /\ r.isComplete \in BOOLEAN BY <1>1, <1>9 DEF Instance, Rebuilt
<1>12. r.isComplete <=> IsOver(log, id)
  <2>1. SaysOf(log, id) BY <1>1 DEF LogGood
  <2>. QED BY <2>1 DEF SaysOf
<1>13. i.isComplete = r.isComplete BY <1>2, <1>5, <1>11, <1>12 DEF Kept
<1>. HIDE DEF h, g
<1>14. h = g
  <2>1. Len(h) \in Nat /\ h = [m \in 1 .. Len(h) |-> h[m]] /\ g = [m \in 1 .. Len(g) |-> g[m]]
    BY <1>10
  <2>. QED BY <1>7, <1>8, <2>1
<1>15. i.currentState = r.currentState BY <1>6, <1>14 DEF StateIs, h, g
<1>. QED BY <1>13, <1>14, <1>15 DEF Rehydrated, h, g

\* When no call fails and the process stays up, the map of startWorkflow() and
\* transition() and the log say the same between the calls, however many calls
\* raced: every loser is refused by the version check before it has written
\* anything, and every winner writes the map before it returns.
THEOREM CachesAgree == VersionChecked /\ ~MayFail /\ ~MayRestart => (Spec => []CacheIsLog)
<1>. SUFFICES ASSUME VersionChecked, ~MayFail, ~MayRestart PROVE Spec => []CacheIsLog
  OBVIOUS
<1>1. Init => SInv BY InStepInit
<1>2. SInv /\ [Next]_vars => SInv' BY InStepNext
<1>3. SInv => CacheIsLog BY InStepAgrees
<1>. QED BY <1>1, <1>2, <1>3, PTL DEF Spec

=============================================================================
