----------------------------- MODULE EventStore -----------------------------
(***************************************************************************)
(* The in-memory event store (createInMemoryEventStore).                   *)
(*                                                                         *)
(* append is an async function without an await: it runs in one turn of    *)
(* the event loop and is one action.  A subscription is an async           *)
(* generator; a consumer pulls from it with for await, so each subscriber  *)
(* is a process of its own: it pulls an event that is queued, or waits for *)
(* the promise that the next matching append resolves, or leaves the loop  *)
(* while it holds an event.                                                *)
(***************************************************************************)
EXTENDS Naturals, Sequences

CONSTANTS
    AggregateTypes,    \* the aggregate types callers use
    EntityIds,         \* the entity ids callers use
    EventTypes,        \* the event types (an event's payload is its type)
    Versions,          \* the aggregate versions callers pass
    Subscribers,       \* the processes that call subscribe
    Filters,           \* the filters they pass
    Hashes,            \* the values computeHash returns, and 'genesis'
    Digest(_),         \* computeHash: a digest of an event without its hash
    Genesis,           \* the link of the first event, 'genesis'
    MaxEvents          \* bound: number of events appended

\* The key of the index: an aggregate is identified by its type and its id.
Aggregates == [type : AggregateTypes, id : EntityIds]

\* An event before it is hashed, and as it is stored.
Body == [sequence : 1 .. MaxEvents, type : EventTypes,
         aggregate : Aggregates, version : Versions, previousHash : Hashes]

Event == [sequence : Nat, type : EventTypes, aggregate : Aggregates,
          version : Versions, previousHash : Hashes, hash : Hashes]

ASSUME EventStoreAssumption ==
    /\ Versions \subseteq Nat
    /\ MaxEvents \in Nat
    /\ Genesis \in Hashes
    /\ \A b \in Body : Digest(b) \in Hashes
    /\ Filters \subseteq [aggregateTypes : SUBSET AggregateTypes,
                          eventTypes : SUBSET EventTypes,
                          afterSequence : Nat]

VARIABLES
    events,              \* the array of events, the only place they are kept
    sequence,            \* the temporal enforcer's counter
    eventsByAggregate,   \* the index: the events of each aggregate
    subscriptions        \* one record per subscriber, see NotSubscribed

vars == <<events, sequence, eventsByAggregate, subscriptions>>

-----------------------------------------------------------------------------
(***************************************************************************)
(* Hash chain and temporal enforcer.                                       *)
(***************************************************************************)

WithoutHash(e) ==
    [sequence |-> e.sequence, type |-> e.type, aggregate |-> e.aggregate,
     version |-> e.version, previousHash |-> e.previousHash]

VerifyHash(e) == Digest(WithoutHash(e)) = e.hash

\* Mutant of VerifyChain: only the hashes are checked, not the links.
VerifyChainHashesOnly(es) == \A i \in DOMAIN es : VerifyHash(es[i])

\* Is the list a chain?  The link of its first event is not looked at.
VerifyChain(es) ==
    /\ \A i \in DOMAIN es : VerifyHash(es[i])
    /\ \A i \in DOMAIN es \ {1} : es[i].previousHash = es[i - 1].hash

\* The check append makes on the event it has just built.
ValidateTemporal(e, es) ==
    es # << >> => /\ e.sequence > es[Len(es)].sequence
                  /\ e.previousHash = es[Len(es)].hash

-----------------------------------------------------------------------------
(***************************************************************************)
(* Reads.  Zero is falsy: a bound of zero is no bound.                     *)
(***************************************************************************)

InRange(n, from, to) == (from # 0 => n >= from) /\ (to # 0 => n <= to)

\* The loop of a read: over the whole list, yielding the events at the places
\* that none of its conditions skips (f[n]: what it has yielded after n).
Yielded(es, places) ==
    LET f[n \in 0 .. Len(es)] ==
            IF n = 0 THEN << >>
            ELSE IF n \in places THEN Append(f[n - 1], es[n]) ELSE f[n - 1]
    IN  f[Len(es)]

GetBySequence(es, from, to) ==
    Yielded(es, {i \in DOMAIN es : InRange(es[i].sequence, from, to)})

GetByAggregate(a, fromVersion, toVersion) ==
    LET own == eventsByAggregate[a] IN
    Yielded(own, {i \in DOMAIN own : InRange(own[i].version, fromVersion, toVersion)})

VerifyIntegrity(from, to) == VerifyChain(GetBySequence(events, from, to))

-----------------------------------------------------------------------------
(***************************************************************************)
(* Subscriptions.                                                          *)
(***************************************************************************)

NoFilter == [aggregateTypes |-> AggregateTypes, eventTypes |-> EventTypes,
             afterSequence |-> 0]

\* state: "idle"      the generator has not started, or has returned
\*        "waiting"   the generator awaits the promise `resolve` settles
\*        "woken"     the promise is settled, the generator has yet to run
\*        "handling"  the generator is at its yield, the consumer runs
\* since, the number of events when it subscribed, and got, what it was
\* given, are history variables.
NotSubscribed == [state |-> "idle", filter |-> NoFilter, queue |-> << >>,
                  since |-> 0, got |-> << >>]

MatchesFilter(e, f) ==
    /\ e.aggregate.type \in f.aggregateTypes
    /\ e.type \in f.eventTypes
    /\ f.afterSequence # 0 => e.sequence > f.afterSequence

\* Mutant of Notify: the event is queued but the promise is not settled.
NotifyWithoutWakeUp(sub, e) ==
    IF sub.state # "idle" /\ MatchesFilter(e, sub.filter)
    THEN [sub EXCEPT !.queue = Append(@, e)]
    ELSE sub

\* A subscriber's callback: queue the event, settle the pending promise.
Notify(sub, e) ==
    IF sub.state # "idle" /\ MatchesFilter(e, sub.filter)
    THEN [sub EXCEPT !.queue = Append(@, e),
                     !.state = IF @ = "waiting" THEN "woken" ELSE @]
    ELSE sub

-----------------------------------------------------------------------------
LastHash == IF events = << >> THEN Genesis ELSE events[Len(events)].hash

WithHash(body, hash) ==
    [sequence |-> body.sequence, type |-> body.type,
     aggregate |-> body.aggregate, version |-> body.version,
     previousHash |-> body.previousHash, hash |-> hash]

\* Mutants of NewEvent: the version is lost; the counter is read before it is
\* advanced; the hash is computed before the link is known.
NewEventNoVersion(a, v, t) ==
    LET body == [sequence |-> sequence + 1, type |-> t, aggregate |-> a,
                 version |-> 0, previousHash |-> LastHash]
    IN  WithHash(body, Digest(body))

NewEventOldSequence(a, v, t) ==
    LET body == [sequence |-> sequence, type |-> t, aggregate |-> a,
                 version |-> v, previousHash |-> LastHash]
    IN  WithHash(body, Digest(body))

NewEventHashedUnlinked(a, v, t) ==
    LET body == [sequence |-> sequence + 1, type |-> t, aggregate |-> a,
                 version |-> v, previousHash |-> LastHash]
    IN  WithHash(body, Digest([body EXCEPT !.previousHash = Genesis]))

NewEvent(a, v, t) ==
    LET body == [sequence |-> sequence + 1, type |-> t, aggregate |-> a,
                 version |-> v, previousHash |-> LastHash]
    IN  WithHash(body, Digest(body))

\* Mutants of AppendEvent: the index is keyed by the id alone; an event with
\* the aggregate and version of an earlier one takes its place.
AppendEventKeyedById(a, v, t) ==
    LET e == NewEvent(a, v, t) IN
    /\ Len(events) < MaxEvents
    /\ sequence' = sequence + 1
    /\ events' = Append(events, e)
    /\ eventsByAggregate' = [b \in Aggregates |->
          IF b.id = a.id THEN Append(eventsByAggregate[b], e)
          ELSE eventsByAggregate[b]]
    /\ subscriptions' = [s \in Subscribers |-> Notify(subscriptions[s], e)]

AppendEventUpsert(a, v, t) ==
    LET e == NewEvent(a, v, t)
        old == {i \in DOMAIN events :
                  events[i].aggregate = a /\ events[i].version = v}
    IN
    /\ Len(events) < MaxEvents
    /\ sequence' = sequence + 1
    /\ events' = IF old = {} THEN Append(events, e)
                 ELSE [i \in DOMAIN events |-> IF i \in old THEN e ELSE events[i]]
    /\ UNCHANGED <<eventsByAggregate, subscriptions>>

\* The sequence number is taken before the event is validated; a rejected
\* event changes nothing else.
AppendEvent(a, v, t) ==
    LET e == NewEvent(a, v, t) IN
    /\ Len(events) < MaxEvents
    /\ sequence' = sequence + 1
    /\ IF ValidateTemporal(e, events)
       THEN /\ events' = Append(events, e)
            /\ eventsByAggregate' =
                  [eventsByAggregate EXCEPT ![a] = Append(@, e)]
            /\ subscriptions' = [s \in Subscribers |-> Notify(subscriptions[s], e)]
       ELSE UNCHANGED <<events, eventsByAggregate, subscriptions>>

\* The consumer's first next(): the generator registers its callback, finds
\* its queue empty and waits.
Subscribe(s, f) ==
    /\ subscriptions[s].state = "idle"
    /\ subscriptions' = [subscriptions EXCEPT ![s] =
          [state |-> "waiting", filter |-> f, queue |-> << >>,
           since |-> Len(events), got |-> << >>]]
    /\ UNCHANGED <<events, sequence, eventsByAggregate>>

\* Mutant of Deliver: the queue is emptied although one event is yielded.
DeliverAndDropRest(s) ==
    /\ subscriptions[s].state \in {"woken", "handling"}
    /\ subscriptions[s].queue # << >>
    /\ subscriptions' = [subscriptions EXCEPT
          ![s].state = "handling",
          ![s].got = Append(@, Head(subscriptions[s].queue)),
          ![s].queue = << >>]
    /\ UNCHANGED <<events, sequence, eventsByAggregate>>

\* next(): the generator yields the oldest queued event ...
Deliver(s) ==
    /\ subscriptions[s].state \in {"woken", "handling"}
    /\ subscriptions[s].queue # << >>
    /\ subscriptions' = [subscriptions EXCEPT
          ![s].state = "handling",
          ![s].got = Append(@, Head(subscriptions[s].queue)),
          ![s].queue = Tail(@)]
    /\ UNCHANGED <<events, sequence, eventsByAggregate>>

\* ... or, with nothing queued, waits for the next matching append.
Await(s) ==
    /\ subscriptions[s].state = "handling"
    /\ subscriptions[s].queue = << >>
    /\ subscriptions' = [subscriptions EXCEPT ![s].state = "waiting"]
    /\ UNCHANGED <<events, sequence, eventsByAggregate>>

\* The consumer leaves its loop while it holds an event: the generator's
\* finally block deregisters the callback, what is still queued is dropped.
Unsubscribe(s) ==
    /\ subscriptions[s].state = "handling"
    /\ subscriptions' = [subscriptions EXCEPT ![s] = NotSubscribed]
    /\ UNCHANGED <<events, sequence, eventsByAggregate>>

-----------------------------------------------------------------------------
Init ==
    /\ events = << >>
    /\ sequence = 0
    /\ eventsByAggregate = [a \in Aggregates |-> << >>]
    /\ subscriptions = [s \in Subscribers |-> NotSubscribed]

Next ==
    \/ \E a \in Aggregates, v \in Versions, t \in EventTypes : AppendEvent(a, v, t)
    \/ \E s \in Subscribers, f \in Filters : Subscribe(s, f)
    \/ \E s \in Subscribers : Deliver(s)
    \/ \E s \in Subscribers : Await(s)
    \/ \E s \in Subscribers : Unsubscribe(s)

Spec == Init /\ [][Next]_vars

\* A consumer that is in its loop keeps pulling: its continuation is in the
\* event loop's queue and is run in turn.
FairSpec == Spec /\ \A s \in Subscribers : WF_vars(Deliver(s))

-----------------------------------------------------------------------------
(***************************************************************************)
(* Properties.                                                             *)
(***************************************************************************)

\* Types of the four variables of the store.
TypeOK ==
    /\ events \in Seq(Event)
    /\ sequence \in Nat
    /\ eventsByAggregate \in [Aggregates -> Seq(Event)]
    /\ subscriptions \in
          [Subscribers -> [state : {"idle", "waiting", "woken", "handling"},
                           filter : Filters \cup {NoFilter},
                           queue : Seq(Event), since : Nat, got : Seq(Event)]]

\* No sequence number is lost: the enforcer's counter, advanced before an
\* event is validated, never runs ahead of the log, and the event at place i
\* has number i.  So no append is ever rejected by validateTemporal.
GaplessSequence ==
    /\ sequence = Len(events)
    /\ \A i \in DOMAIN events : events[i].sequence = i

\* verifyIntegrity accepts every range of the log at every moment, whatever
\* bounds it is called with.
EveryRangeVerifies ==
    \A from, to \in 0 .. MaxEvents : VerifyIntegrity(from, to)

\* The index that getByAggregate and getLatest read is the log restricted to
\* the aggregate: same events, same order.
IndexAgreesWithLog ==
    \A a \in Aggregates :
        GetByAggregate(a, 0, 0) =
            Yielded(events, {i \in DOMAIN events : events[i].aggregate = a})

\* What the hash chain is for: an event before the last cannot be replaced,
\* even by one that carries its own correct hash, without verifyIntegrity
\* noticing -- unless the two events collide under the hash function.
TamperEvident ==
    \A i \in 1 .. (Len(events) - 1), b \in Body :
        VerifyChain([events EXCEPT ![i] = WithHash(b, Digest(b))])
            => Digest(b) = Digest(WithoutHash(events[i]))

\* A subscriber is given every matching event appended since it subscribed,
\* once, in the order of the log: what it has and what is queued for it.
SubscribersMissNothing ==
    \A s \in Subscribers :
        LET sub == subscriptions[s]
            later == SubSeq(events, sub.since + 1, Len(events))
        IN
        sub.state # "idle" =>
            sub.got \o sub.queue =
                Yielded(later, {i \in DOMAIN later : MatchesFilter(later[i], sub.filter)})

\* The promise a waiting generator awaits is always settled: a queue that
\* has events is drained in the end (no wake-up is lost).
QueuesDrain ==
    \A s \in Subscribers :
        subscriptions[s].queue # << >> ~> subscriptions[s].queue = << >>

\* The store implements the ledger: append is its only write, nothing it
\* holds is ever changed, moved or removed.
L == INSTANCE Ledger WITH
        Versioned <- FALSE,
        ledger <- [i \in DOMAIN events |->
                      [aggregate |-> events[i].aggregate,
                       version |-> events[i].version, type |-> events[i].type]]

ImplementsLedger == L!Spec

=============================================================================
