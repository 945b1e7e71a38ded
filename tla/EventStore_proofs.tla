-------------------------- MODULE EventStore_proofs --------------------------
(***************************************************************************)
(* Proofs about the in-memory event store, for every set of aggregates,    *)
(* event types, versions, subscribers and filters, every digest and every  *)
(* bound on the number of events.                                          *)
(***************************************************************************)
EXTENDS EventStore, SequenceTheorems, WellFoundedInduction, TLAPS

\* The inductive invariant: the counter equals the length of the log, event i
\* has number i, and the log is a hash chain that starts at Genesis.  The
\* numbering is what makes validateTemporal accept the next event; without
\* that the chain could not be shown to grow with the counter.
IInv ==
    /\ TypeOK
    /\ GaplessSequence
    /\ VerifyChain(events)

-----------------------------------------------------------------------------
\* The event append builds is a well-formed event that carries the next
\* number and its own digest, and it passes the temporal validation.
LEMMA NewEventFacts ==
    ASSUME EventStoreAssumption, IInv,
           NEW a \in Aggregates, NEW v \in Versions, NEW t \in EventTypes,
           Len(events) < MaxEvents
    PROVE  LET e == NewEvent(a, v, t) IN
           /\ e \in Event
           /\ e.sequence = Len(events) + 1
           /\ e.aggregate = a /\ e.version = v /\ e.type = t
           /\ e.previousHash = LastHash
           /\ VerifyHash(e)
           /\ ValidateTemporal(e, events)
<1> DEFINE body == [sequence |-> sequence + 1, type |-> t, aggregate |-> a,
                    version |-> v, previousHash |-> LastHash]
           e == NewEvent(a, v, t)
<1>1. /\ events \in Seq(Event) /\ sequence \in Nat
      /\ sequence = Len(events)
      /\ Len(events) \in Nat
  BY DEF IInv, TypeOK, GaplessSequence
<1>2. LastHash \in Hashes
  <2>1. CASE events = << >>
    BY <2>1 DEF LastHash, EventStoreAssumption
  <2>2. CASE events # << >>
    <3>1. events[Len(events)] \in Event
      BY <1>1, <2>2
    <3>2. QED BY <3>1, <2>2 DEF LastHash, Event
  <2>3. QED BY <2>1, <2>2
<1>3. body \in Body
  BY <1>1, <1>2 DEF EventStoreAssumption, Body
<1>4. Digest(body) \in Hashes
  BY <1>3 DEF EventStoreAssumption
<1>5. e = [sequence |-> sequence + 1, type |-> t, aggregate |-> a,
           version |-> v, previousHash |-> LastHash, hash |-> Digest(body)]
  BY DEF NewEvent, WithHash
<1>6. e \in Event
  BY <1>1, <1>2, <1>4, <1>5 DEF Event
<1>7. WithoutHash(e) = body
  BY <1>5 DEF WithoutHash
<1>8. VerifyHash(e)
  BY <1>5, <1>7 DEF VerifyHash
<1>9. ValidateTemporal(e, events)
  <2>1. CASE events = << >>
    BY <2>1 DEF ValidateTemporal
  <2>2. CASE events # << >>
    <3>1. Len(events) \in DOMAIN events
      BY <1>1, <2>2
    <3>2. events[Len(events)].sequence = Len(events)
      BY <3>1 DEF IInv, GaplessSequence
    <3>3. e.previousHash = events[Len(events)].hash
      BY <1>5, <2>2 DEF LastHash
    <3>4. QED BY <1>1, <1>5, <3>2, <3>3 DEF ValidateTemporal
  <2>3. QED BY <2>1, <2>2
<1>10. QED BY <1>1, <1>5, <1>6, <1>8, <1>9

\* Appending an event that carries its own digest and the hash of the last
\* event keeps a chain a chain.
LEMMA ChainExtends ==
    ASSUME NEW es \in Seq(Event), VerifyChain(es),
           NEW e \in Event, VerifyHash(e),
           es # << >> => e.previousHash = es[Len(es)].hash
    PROVE  VerifyChain(Append(es, e))
<1> DEFINE fs == Append(es, e)
<1>1. /\ fs \in Seq(Event) /\ Len(fs) = Len(es) + 1
      /\ \A i \in 1 .. Len(es) : fs[i] = es[i]
      /\ fs[Len(es) + 1] = e
      /\ DOMAIN fs = 1 .. (Len(es) + 1) /\ DOMAIN es = 1 .. Len(es)
      /\ Len(es) \in Nat
  OBVIOUS
<1>2. ASSUME NEW i \in DOMAIN fs PROVE VerifyHash(fs[i])
  <2>1. CASE i \in 1 .. Len(es)
    BY <1>1, <2>1 DEF VerifyChain
  <2>2. CASE i = Len(es) + 1
    BY <1>1, <2>2
  <2>3. QED BY <1>1, <2>1, <2>2
<1>3. ASSUME NEW i \in DOMAIN fs \ {1}
      PROVE  fs[i].previousHash = fs[i - 1].hash
  <2>1. CASE i \in 1 .. Len(es)
    <3>1. i \in DOMAIN es \ {1} /\ i - 1 \in 1 .. Len(es)
      BY <1>1, <1>3, <2>1
    <3>2. es[i].previousHash = es[i - 1].hash
      BY <3>1 DEF VerifyChain
    <3>3. fs[i] = es[i] /\ fs[i - 1] = es[i - 1]
      BY <1>1, <2>1, <3>1
    <3>4. QED BY <3>2, <3>3
  <2>2. CASE i = Len(es) + 1
    <3>1. es # << >> /\ Len(es) \in 1 .. Len(es) /\ i - 1 = Len(es)
      BY <1>1, <1>3, <2>2
    <3>2. fs[i] = e /\ fs[i - 1] = es[Len(es)]
      BY <1>1, <2>2, <3>1
    <3>3. QED BY <3>1, <3>2
  <2>3. QED BY <1>1, <2>1, <2>2
<1>4. QED BY <1>2, <1>3 DEF VerifyChain

\* A callback keeps the type of the subscription.
LEMMA NotifyType ==
    ASSUME NEW sub \in [state : {"idle", "waiting", "woken", "handling"},
                        filter : Filters \cup {NoFilter},
                        queue : Seq(Event), since : Nat, got : Seq(Event)],
           NEW e \in Event
    PROVE  Notify(sub, e) \in
                       [state : {"idle", "waiting", "woken", "handling"},
                        filter : Filters \cup {NoFilter},
                        queue : Seq(Event), since : Nat, got : Seq(Event)]
<1> DEFINE woken == IF sub.state = "waiting" THEN "woken" ELSE sub.state
           q == Append(sub.queue, e)
<1>1. woken \in {"idle", "waiting", "woken", "handling"}
  OBVIOUS
<1>2. q \in Seq(Event)
  OBVIOUS
<1> HIDE DEF woken, q
<1>3. [sub EXCEPT !.queue = q, !.state = woken] \in
          [state : {"idle", "waiting", "woken", "handling"},
           filter : Filters \cup {NoFilter},
           queue : Seq(Event), since : Nat, got : Seq(Event)]
  BY <1>1, <1>2
<1>4. QED BY <1>3 DEF Notify, woken, q

-----------------------------------------------------------------------------
LEMMA InitIInv == EventStoreAssumption /\ Init => IInv
<1> SUFFICES ASSUME EventStoreAssumption, Init PROVE IInv
  OBVIOUS
<1>1. TypeOK
  <2>1. NotSubscribed \in
             [state : {"idle", "waiting", "woken", "handling"},
              filter : Filters \cup {NoFilter},
              queue : Seq(Event), since : Nat, got : Seq(Event)]
    BY DEF NotSubscribed
  <2>2. << >> \in Seq(Event)
    OBVIOUS
  <2>3. QED BY <2>1, <2>2 DEF Init, TypeOK
<1>2. GaplessSequence
  BY DEF Init, GaplessSequence
<1>3. VerifyChain(events)
  BY DEF Init, VerifyChain
<1>4. QED BY <1>1, <1>2, <1>3 DEF IInv

LEMMA AppendIInv ==
    ASSUME EventStoreAssumption, IInv,
           NEW a \in Aggregates, NEW v \in Versions, NEW t \in EventTypes,
           AppendEvent(a, v, t)
    PROVE  IInv'
<1> DEFINE e == NewEvent(a, v, t)
<1>1. Len(events) < MaxEvents
  BY DEF AppendEvent
<1>2. /\ e \in Event /\ e.sequence = Len(events) + 1
      /\ e.previousHash = LastHash
      /\ VerifyHash(e)
      /\ ValidateTemporal(e, events)
  BY <1>1, NewEventFacts
<1> HIDE DEF e
<1>3. /\ sequence' = sequence + 1
      /\ events' = Append(events, e)
      /\ eventsByAggregate' = [eventsByAggregate EXCEPT ![a] = Append(@, e)]
      /\ subscriptions' = [s \in Subscribers |-> Notify(subscriptions[s], e)]
  BY <1>2 DEF AppendEvent, e
<1>4. /\ events \in Seq(Event) /\ sequence \in Nat /\ sequence = Len(events)
      /\ eventsByAggregate \in [Aggregates -> Seq(Event)]
      /\ Len(events) \in Nat
      /\ VerifyChain(events)
      /\ \A i \in DOMAIN events : events[i].sequence = i
  BY DEF IInv, TypeOK, GaplessSequence
<1>5. TypeOK'
  <2>1. events' \in Seq(Event) /\ sequence' \in Nat
    BY <1>2, <1>3, <1>4
  <2>2. eventsByAggregate' \in [Aggregates -> Seq(Event)]
    BY <1>2, <1>3, <1>4
  <2>3. \A s \in Subscribers : Notify(subscriptions[s], e) \in
             [state : {"idle", "waiting", "woken", "handling"},
              filter : Filters \cup {NoFilter},
              queue : Seq(Event), since : Nat, got : Seq(Event)]
    BY <1>2, NotifyType DEF IInv, TypeOK
  <2>4. QED BY <1>3, <2>1, <2>2, <2>3 DEF TypeOK
<1>6. GaplessSequence'
  <2>1. /\ Len(events') = Len(events) + 1
        /\ \A i \in 1 .. Len(events) : events'[i] = events[i]
        /\ events'[Len(events) + 1] = e
        /\ DOMAIN events' = 1 .. (Len(events) + 1)
        /\ DOMAIN events = 1 .. Len(events)
    BY <1>2, <1>3, <1>4
  <2>2. \A i \in 1 .. (Len(events) + 1) : events'[i].sequence = i
    BY <1>2, <1>4, <2>1
  <2>3. QED BY <1>3, <1>4, <2>1, <2>2 DEF GaplessSequence
<1>7. VerifyChain(events)'
  <2>1. events # << >> => e.previousHash = events[Len(events)].hash
    BY <1>2 DEF LastHash
  <2>2. VerifyChain(Append(events, e))
    BY <1>2, <1>4, <2>1, ChainExtends
  <2>3. VerifyChain(events')
    BY <1>3, <2>2
  <2>4. QED BY <2>3 DEF VerifyChain, VerifyHash, WithoutHash
<1>8. QED BY <1>5, <1>6, <1>7 DEF IInv

\* The steps of a subscriber leave the log and the index alone and keep the
\* type of its record.
LEMMA SubscriberIInv ==
    ASSUME EventStoreAssumption, IInv, NEW s \in Subscribers,
           \/ \E f \in Filters : Subscribe(s, f)
           \/ Deliver(s) \/ Await(s) \/ Unsubscribe(s)
    PROVE  IInv'
<1> DEFINE Sub == [state : {"idle", "waiting", "woken", "handling"},
                   filter : Filters \cup {NoFilter},
                   queue : Seq(Event), since : Nat, got : Seq(Event)]
<1>1. UNCHANGED <<events, sequence, eventsByAggregate>>
  BY DEF Subscribe, Deliver, Await, Unsubscribe
<1>2. /\ subscriptions \in [Subscribers -> Sub] /\ subscriptions[s] \in Sub
      /\ events \in Seq(Event) /\ Len(events) \in Nat
  BY DEF IInv, TypeOK
<1>3. subscriptions' \in [Subscribers -> Sub]
  <2>1. CASE \E f \in Filters : Subscribe(s, f)
    <3>1. PICK f \in Filters : Subscribe(s, f)
      BY <2>1
    <3>2. [state |-> "waiting", filter |-> f, queue |-> << >>,
           since |-> Len(events), got |-> << >>] \in Sub
      BY <1>2
    <3>3. QED BY <1>2, <3>1, <3>2 DEF Subscribe
  <2>2. CASE Deliver(s)
    <3> DEFINE q == subscriptions[s].queue
               new == [subscriptions[s] EXCEPT
                          !.state = "handling",
                          !.got = Append(@, Head(q)), !.queue = Tail(@)]
    <3>1. q \in Seq(Event) /\ q # << >> /\ subscriptions[s].got \in Seq(Event)
      BY <1>2, <2>2 DEF Deliver
    <3>2. Head(q) \in Event /\ Tail(q) \in Seq(Event)
      BY <3>1
    <3>3. Append(subscriptions[s].got, Head(q)) \in Seq(Event)
      BY <3>1, <3>2
    <3>4. new \in Sub
      BY <1>2, <3>2, <3>3
    <3>5. subscriptions' = [subscriptions EXCEPT ![s] = new]
      BY <1>2, <2>2 DEF Deliver
    <3> HIDE DEF new
    <3>6. QED BY <1>2, <3>4, <3>5
  <2>3. CASE Await(s)
    BY <1>2, <2>3 DEF Await
  <2>4. CASE Unsubscribe(s)
    <3>1. NotSubscribed \in Sub
      BY DEF NotSubscribed
    <3>2. QED BY <1>2, <2>4, <3>1 DEF Unsubscribe
  <2>5. QED BY <2>1, <2>2, <2>3, <2>4
<1>4. TypeOK'
  BY <1>1, <1>3 DEF IInv, TypeOK
<1>5. GaplessSequence' /\ VerifyChain(events)'
  BY <1>1 DEF IInv, GaplessSequence, VerifyChain, VerifyHash, WithoutHash
<1>6. QED BY <1>4, <1>5 DEF IInv

LEMMA NextIInv == EventStoreAssumption /\ IInv /\ [Next]_vars => IInv'
<1> SUFFICES ASSUME EventStoreAssumption, IInv, [Next]_vars PROVE IInv'
  OBVIOUS
<1>1. CASE \E a \in Aggregates, v \in Versions, t \in EventTypes :
              AppendEvent(a, v, t)
  BY <1>1, AppendIInv
<1>2. CASE \E s \in Subscribers : \/ \E f \in Filters : Subscribe(s, f)
                                  \/ Deliver(s) \/ Await(s) \/ Unsubscribe(s)
  BY <1>2, SubscriberIInv
<1>3. CASE UNCHANGED vars
  BY <1>3 DEF vars, IInv, TypeOK, GaplessSequence, VerifyChain, VerifyHash,
              WithoutHash
<1>4. QED BY <1>1, <1>2, <1>3 DEF Next

\* The inductive invariant holds in every state of append and of the
\* subscribers (append and subscribe of event-store.ts); the others follow.
THEOREM Invariance == Spec => []IInv
<1>1. EventStoreAssumption
  BY EventStoreAssumption
<1>2. QED BY <1>1, InitIInv, NextIInv, PTL DEF Spec

\* The variables keep their types.
THEOREM TypeCorrect == Spec => []TypeOK
<1>1. IInv => TypeOK
  BY DEF IInv
<1>2. QED BY <1>1, Invariance, PTL

\* The numbers of the events are 1, 2, 3, ... without a gap, and the counter
\* is never ahead: append (event-store.ts:162) never takes a number it does
\* not use.
THEOREM Gapless == Spec => []GaplessSequence
<1>1. IInv => GaplessSequence
  BY DEF IInv
<1>2. QED BY <1>1, Invariance, PTL

\* verifyIntegrity() accepts the whole log in every reachable state.
THEOREM LogVerifies == Spec => []VerifyChain(events)
<1>1. IInv => VerifyChain(events)
  BY DEF IInv
<1>2. QED BY <1>1, Invariance, PTL

-----------------------------------------------------------------------------
\* What VerifyChain detects, for every digest: if an event before the last is
\* replaced and the log still verifies, the replacement has the same hash as
\* the event it replaces, that is, their contents collide.
THEOREM ReplacementDetected ==
    ASSUME NEW es \in Seq(Event), VerifyChain(es),
           NEW i \in 1 .. (Len(es) - 1), NEW f \in Event,
           VerifyChain([es EXCEPT ![i] = f])
    PROVE  Digest(WithoutHash(f)) = Digest(WithoutHash(es[i]))
<1> DEFINE fs == [es EXCEPT ![i] = f]
<1>1. /\ DOMAIN fs = 1 .. Len(es) /\ DOMAIN es = 1 .. Len(es)
      /\ Len(es) \in Nat /\ i \in 1 .. Len(es) /\ i + 1 \in 1 .. Len(es)
      /\ i + 1 # 1 /\ (i + 1) - 1 = i /\ i + 1 # i
  OBVIOUS
<1>2. fs[i] = f /\ fs[i + 1] = es[i + 1]
  BY <1>1
<1>3. fs[i + 1].previousHash = fs[i].hash /\ es[i + 1].previousHash = es[i].hash
  BY <1>1 DEF VerifyChain
<1>4. VerifyHash(fs[i]) /\ VerifyHash(es[i])
  BY <1>1 DEF VerifyChain
<1>5. QED BY <1>2, <1>3, <1>4 DEF VerifyHash

-----------------------------------------------------------------------------
(***************************************************************************)
(* What the loop of a read yields.  The function it is defined by is       *)
(* recursive: that it exists, and what it computes, is shown by looking at *)
(* the least number at which the claim would fail.                         *)
(***************************************************************************)

\* A set of natural numbers that is not empty has a least one.
LEMMA LeastNumber ==
    ASSUME NEW T \in SUBSET Nat, T # {}
    PROVE  \E n \in T : \A m \in T : n <= m
<1> DEFINE R == OpToRel(<, Nat)
<1>1. \A m, n \in Nat : <<m, n>> \in R <=> m < n
  BY DEF OpToRel
<1>2. IsWellFoundedOn(R, Nat)
  BY NatLessThanWellFounded
<1> HIDE DEF R
<1>3. PICK n \in T : \A m \in T : ~ (<<m, n>> \in R)
  BY <1>2, WFMin
<1>4. ASSUME NEW m \in T PROVE n <= m
  <2>1. ~ (<<m, n>> \in R) /\ m \in Nat /\ n \in Nat
    BY <1>3
  <2>2. ~ (m < n)
    BY <1>1, <2>1
  <2>3. QED BY <2>1, <2>2
<1>5. QED BY <1>4

\* Induction over the numbers up to n, for a set of numbers instead of a
\* predicate.
LEMMA UpTo ==
    ASSUME NEW n \in Nat, NEW T, 0 \in T,
           \A k \in 1 .. n : k - 1 \in T => k \in T
    PROVE  0 .. n \subseteq T
<1> DEFINE bad == {k \in 0 .. n : k \notin T}
<1>1. ASSUME bad # {} PROVE FALSE
  <2>1. bad \in SUBSET Nat
    OBVIOUS
  <2>2. PICK k \in bad : \A j \in bad : k <= j
    BY <1>1, <2>1, LeastNumber
  <2>3. k \in 1 .. n /\ k \notin T
    BY <2>2
  <2>4. k - 1 \in 0 .. n /\ ~ (k <= k - 1)
    BY <2>3
  <2>5. k - 1 \notin bad
    BY <2>2, <2>4
  <2>6. QED BY <2>3, <2>4, <2>5
<1>2. QED BY <1>1

\* The loop, one event after the other.
IsLoop(f, S, es, places) ==
    /\ f \in [0 .. Len(es) -> Seq(S)]
    /\ f[0] = << >>
    /\ \A n \in 1 .. Len(es) :
          f[n] = IF n \in places THEN Append(f[n - 1], es[n]) ELSE f[n - 1]

LEMMA YieldedByLoop ==
    ASSUME NEW S, NEW es \in Seq(S), NEW places
    PROVE  \E f : IsLoop(f, S, es, places) /\ Yielded(es, places) = f[Len(es)]
<1> DEFINE N == Len(es)
           Loop(k, g) ==
               /\ g \in [0 .. k -> Seq(S)]
               /\ g[0] = << >>
               /\ \A n \in 1 .. k :
                     g[n] = IF n \in places THEN Append(g[n - 1], es[n]) ELSE g[n - 1]
           Fcn(g) == [n \in 0 .. N |->
                         IF n = 0 THEN << >>
                         ELSE IF n \in places THEN Append(g[n - 1], es[n]) ELSE g[n - 1]]
<1>1. N \in Nat /\ \A n \in 1 .. N : es[n] \in S
  OBVIOUS
<1> HIDE DEF N
<1>2. \E g : Loop(N, g)
  <2> DEFINE T == {k \in 0 .. N : \E g : Loop(k, g)}
  <2>1. 0 \in T
    <3>1. Loop(0, [n \in 0 .. 0 |-> << >>])
      OBVIOUS
    <3> HIDE DEF Loop
    <3>2. QED BY <1>1, <3>1
  <2>2. ASSUME NEW k \in 1 .. N, k - 1 \in T PROVE k \in T
    <3>1. PICK g : Loop(k - 1, g)
      BY <2>2
    <3> DEFINE next == IF k \in places THEN Append(g[k - 1], es[k]) ELSE g[k - 1]
               h == [n \in 0 .. k |-> IF n = k THEN next ELSE g[n]]
    <3>2. k - 1 \in 0 .. (k - 1) /\ g[k - 1] \in Seq(S)
      BY <1>1, <3>1
    <3>3. next \in Seq(S)
      BY <1>1, <3>2
    <3> HIDE DEF next
    <3>4. h \in [0 .. k -> Seq(S)] /\ h[0] = << >>
      BY <1>1, <3>1, <3>3
    <3>5. \A n \in 1 .. k :
             h[n] = IF n \in places THEN Append(h[n - 1], es[n]) ELSE h[n - 1]
      <4> SUFFICES ASSUME NEW n \in 1 .. k
                   PROVE  h[n] = IF n \in places THEN Append(h[n - 1], es[n])
                                 ELSE h[n - 1]
        OBVIOUS
      <4>1. h[n - 1] = g[n - 1]
        BY <1>1
      <4>2. CASE n = k
        BY <1>1, <4>1, <4>2 DEF next
      <4>3. CASE n # k
        <5>1. n \in 1 .. (k - 1) /\ h[n] = g[n]
          BY <1>1, <4>3
        <5>2. QED BY <3>1, <4>1, <5>1
      <4>4. QED BY <4>2, <4>3
    <3> HIDE DEF h
    <3>6. Loop(k, h)
      BY <3>4, <3>5
    <3> HIDE DEF Loop
    <3>7. QED BY <1>1, <3>6
  <2> HIDE DEF T
  <2>3. 0 .. N \subseteq T
    BY <1>1, <2>1, <2>2, UpTo
  <2>4. N \in T
    BY <1>1, <2>3
  <2> HIDE DEF Loop
  <2>5. QED BY <2>4 DEF T
<1>3. PICK g : Loop(N, g)
  BY <1>2
<1>4. g = Fcn(g)
  <2>1. DOMAIN g = 0 .. N /\ g = [n \in 0 .. N |-> g[n]]
    BY <1>3
  <2>2. ASSUME NEW n \in 0 .. N PROVE g[n] = Fcn(g)[n]
    <3>1. CASE n = 0
      BY <1>1, <1>3, <3>1
    <3>2. CASE n # 0
      <4>1. n \in 1 .. N
        BY <1>1, <3>2
      <4>2. QED BY <1>3, <3>2, <4>1
    <3>3. QED BY <3>1, <3>2
  <2>3. QED BY <2>1, <2>2
<1> DEFINE f == CHOOSE h : h = Fcn(h)
<1>5. f = Fcn(f)
  <2> HIDE DEF Fcn
  <2>1. \E h : h = Fcn(h)
    BY <1>4
  <2>2. QED BY <2>1
<1>6. Yielded(es, places) = f[N]
  BY DEF Yielded, N
<1> HIDE DEF f
<1>7. /\ DOMAIN f = 0 .. N /\ f[0] = << >>
      /\ \A n \in 1 .. N :
            f[n] = IF n \in places THEN Append(f[n - 1], es[n]) ELSE f[n - 1]
  <2>1. DOMAIN f = 0 .. N
    BY <1>5
  <2>2. ASSUME NEW n \in 0 .. N PROVE f[n] = Fcn(f)[n]
    BY <1>5
  <2>3. f[0] = << >>
    BY <1>1, <2>2
  <2>4. ASSUME NEW n \in 1 .. N
        PROVE  f[n] = IF n \in places THEN Append(f[n - 1], es[n]) ELSE f[n - 1]
    <3>1. n \in 0 .. N /\ n # 0
      BY <1>1
    <3>2. QED BY <2>2, <3>1
  <2>5. QED BY <2>1, <2>3, <2>4
<1>8. f \in [0 .. N -> Seq(S)]
  <2> DEFINE T == {k \in 0 .. N : f[k] \in Seq(S)}
  <2>1. 0 \in T
    <3>1. f[0] \in Seq(S)
      BY <1>7
    <3>2. QED BY <1>1, <3>1
  <2>2. ASSUME NEW k \in 1 .. N, k - 1 \in T PROVE k \in T
    <3>1. f[k - 1] \in Seq(S) /\ es[k] \in S /\ k \in 0 .. N
      BY <1>1, <2>2
    <3>2. Append(f[k - 1], es[k]) \in Seq(S)
      BY <3>1
    <3>3. f[k] \in Seq(S)
      BY <1>7, <3>1, <3>2
    <3>4. QED BY <3>1, <3>3
  <2> HIDE DEF T
  <2>3. 0 .. N \subseteq T
    BY <1>1, <2>1, <2>2, UpTo
  <2>4. \A k \in 0 .. N : f[k] \in Seq(S)
    BY <2>3 DEF T
  <2>5. f = [k \in 0 .. N |-> f[k]]
    BY <1>5
  <2>6. QED BY <2>4, <2>5
<1>9. QED BY <1>6, <1>7, <1>8 DEF IsLoop, N

LEMMA YieldedType ==
    ASSUME NEW S, NEW es \in Seq(S), NEW places
    PROVE  Yielded(es, places) \in Seq(S)
<1>1. PICK f : IsLoop(f, S, es, places) /\ Yielded(es, places) = f[Len(es)]
  BY YieldedByLoop
<1>2. Len(es) \in 0 .. Len(es)
  OBVIOUS
<1>3. QED BY <1>1, <1>2 DEF IsLoop

LEMMA YieldedEmpty == \A places : Yielded(<< >>, places) = << >>
<1> SUFFICES ASSUME NEW places PROVE Yielded(<< >>, places) = << >>
  OBVIOUS
<1>1. << >> \in Seq({}) /\ Len(<< >>) = 0
  OBVIOUS
<1>2. PICK f : IsLoop(f, {}, << >>, places) /\ Yielded(<< >>, places) = f[Len(<< >>)]
  BY <1>1, YieldedByLoop
<1>3. QED BY <1>1, <1>2 DEF IsLoop

\* One event more at the end of the list: it is yielded last, or skipped.
LEMMA YieldedAppend ==
    ASSUME NEW S, NEW es \in Seq(S), NEW e \in S, NEW P, NEW Q,
           \A i \in 1 .. Len(es) : i \in P <=> i \in Q
    PROVE  Yielded(Append(es, e), Q) =
               IF Len(es) + 1 \in Q THEN Append(Yielded(es, P), e) ELSE Yielded(es, P)
<1> DEFINE N == Len(es)
           fs == Append(es, e)
<1>1. /\ N \in Nat /\ fs \in Seq(S) /\ Len(fs) = N + 1
      /\ \A i \in 1 .. N : fs[i] = es[i]
      /\ fs[N + 1] = e
  BY AppendProperties
<1> HIDE DEF fs
<1>2. PICK f : IsLoop(f, S, es, P) /\ Yielded(es, P) = f[N]
  BY YieldedByLoop
<1>3. PICK g : IsLoop(g, S, fs, Q) /\ Yielded(fs, Q) = g[N + 1]
  BY <1>1, YieldedByLoop
<1>4. /\ f[0] = << >>
      /\ \A n \in 1 .. N : f[n] = IF n \in P THEN Append(f[n - 1], es[n]) ELSE f[n - 1]
  BY <1>2 DEF IsLoop
<1>5. /\ g[0] = << >>
      /\ \A n \in 1 .. (N + 1) :
            g[n] = IF n \in Q THEN Append(g[n - 1], fs[n]) ELSE g[n - 1]
  BY <1>1, <1>3 DEF IsLoop
<1> DEFINE T == {k \in 0 .. N : g[k] = f[k]}
<1>6. 0 \in T
  BY <1>1, <1>4, <1>5
<1>7. ASSUME NEW k \in 1 .. N, k - 1 \in T PROVE k \in T
  <2>1. /\ g[k - 1] = f[k - 1] /\ k \in 0 .. N /\ k \in 1 .. (N + 1)
        /\ fs[k] = es[k] /\ (k \in P <=> k \in Q)
    BY <1>1, <1>7
  <2>2. g[k] = f[k]
    BY <1>4, <1>5, <2>1
  <2>3. QED BY <2>1, <2>2
<1> HIDE DEF T
<1>8. 0 .. N \subseteq T
  BY <1>1, <1>6, <1>7, UpTo
<1>9. g[N] = f[N]
  BY <1>1, <1>8 DEF T
<1>10. N + 1 \in 1 .. (N + 1) /\ (N + 1) - 1 = N
  BY <1>1
<1>11. g[N + 1] = IF N + 1 \in Q THEN Append(f[N], e) ELSE f[N]
  BY <1>1, <1>5, <1>9, <1>10
<1>12. QED BY <1>2, <1>3, <1>11 DEF fs

\* The list c is the events at the places from lo to hi.
IsPart(c, S, es, lo, hi) ==
    /\ c \in Seq(S)
    /\ Len(c) = IF lo <= hi THEN hi - lo + 1 ELSE 0
    /\ \A j \in 1 .. Len(c) : c[j] = es[lo + j - 1]

\* A loop that skips the events before lo and after hi yields those between.
LEMMA YieldedRange ==
    ASSUME NEW S, NEW es \in Seq(S), NEW lo \in Nat \ {0}, NEW hi \in 0 .. Len(es),
           NEW P, \A i \in 1 .. Len(es) : i \in P <=> lo <= i /\ i <= hi
    PROVE  IsPart(Yielded(es, P), S, es, lo, hi)
<1> DEFINE N == Len(es)
           Count(n) == IF n < lo \/ hi < lo THEN 0
                       ELSE IF n <= hi THEN n - lo + 1 ELSE hi - lo + 1
           Right(c, n) == /\ c \in Seq(S) /\ Len(c) = Count(n)
                          /\ \A j \in 1 .. Count(n) : c[j] = es[lo + j - 1]
<1>1. N \in Nat /\ hi \in 0 .. N /\ \A n \in 1 .. N : es[n] \in S
  OBVIOUS
<1>2. PICK f : IsLoop(f, S, es, P) /\ Yielded(es, P) = f[N]
  BY YieldedByLoop
<1>3. /\ f[0] = << >>
      /\ \A n \in 1 .. N : f[n] = IF n \in P THEN Append(f[n - 1], es[n]) ELSE f[n - 1]
  BY <1>2 DEF IsLoop
<1> DEFINE T == {k \in 0 .. N : Right(f[k], k)}
<1>4. 0 \in T
  <2>1. Count(0) = 0 /\ << >> \in Seq(S) /\ Len(<< >>) = 0
    OBVIOUS
  <2> HIDE DEF Count
  <2>2. Right(f[0], 0)
    BY <1>3, <2>1
  <2>3. QED BY <1>1, <2>2
<1> HIDE DEF N
<1>5. ASSUME NEW k \in 1 .. N, k - 1 \in T PROVE k \in T
  <2> DEFINE c == f[k - 1]
  <2>1. Right(c, k - 1) /\ k \in 0 .. N /\ es[k] \in S
    BY <1>1, <1>5
  <2>2. k \in P <=> lo <= k /\ k <= hi
    BY DEF N
  <2>3. f[k] = IF k \in P THEN Append(c, es[k]) ELSE c
    BY <1>3
  <2> HIDE DEF c
  <2>4. CASE k \in P
    <3>1. /\ Count(k) = Count(k - 1) + 1 /\ Count(k - 1) \in Nat
          /\ lo + Count(k) - 1 = k
      BY <1>1, <2>2, <2>4
    <3> HIDE DEF Count
    <3>2. /\ Append(c, es[k]) \in Seq(S)
          /\ Len(Append(c, es[k])) = Count(k - 1) + 1
          /\ \A j \in 1 .. Count(k - 1) : Append(c, es[k])[j] = c[j]
          /\ Append(c, es[k])[Count(k - 1) + 1] = es[k]
      BY <2>1, AppendProperties
    <3>3. ASSUME NEW j \in 1 .. Count(k)
          PROVE  Append(c, es[k])[j] = es[lo + j - 1]
      <4>1. CASE j = Count(k)
        BY <3>1, <3>2, <4>1
      <4>2. CASE j # Count(k)
        <5>1. j \in 1 .. Count(k - 1)
          BY <3>1, <4>2
        <5>2. QED BY <2>1, <3>2, <5>1
      <4>3. QED BY <4>1, <4>2
    <3>4. Right(f[k], k)
      BY <2>3, <2>4, <3>1, <3>2, <3>3
    <3>5. QED BY <2>1, <3>4
  <2>5. CASE k \notin P
    <3>1. Count(k) = Count(k - 1)
      BY <1>1, <2>2, <2>5
    <3> HIDE DEF Count
    <3>2. Right(f[k], k)
      BY <2>1, <2>3, <2>5, <3>1
    <3>3. QED BY <2>1, <3>2
  <2>6. QED BY <2>4, <2>5
<1> HIDE DEF T
<1>6. 0 .. N \subseteq T
  BY <1>1, <1>4, <1>5, UpTo
<1>7. N \in T
  BY <1>1, <1>6
<1>8. Right(f[N], N)
  BY <1>7 DEF T
<1>9. Count(N) = IF lo <= hi THEN hi - lo + 1 ELSE 0
  BY <1>1
<1> HIDE DEF Count
<1>10. QED BY <1>2, <1>8, <1>9 DEF IsPart

LEMMA YieldedAll ==
    ASSUME NEW S, NEW es \in Seq(S), NEW P, 1 .. Len(es) \subseteq P
    PROVE  Yielded(es, P) = es
<1> DEFINE lo == 1
           hi == Len(es)
<1>1. /\ lo \in Nat \ {0} /\ hi \in Nat /\ hi \in 0 .. Len(es)
      /\ \A i \in 1 .. Len(es) : i \in P <=> lo <= i /\ i <= hi
      /\ (IF lo <= hi THEN hi - lo + 1 ELSE 0) = Len(es)
      /\ \A j \in 1 .. Len(es) : lo + j - 1 = j
  OBVIOUS
<1> HIDE DEF lo, hi
<1>2. /\ Yielded(es, P) \in Seq(S)
      /\ Len(Yielded(es, P)) = IF lo <= hi THEN hi - lo + 1 ELSE 0
      /\ \A j \in 1 .. Len(Yielded(es, P)) : Yielded(es, P)[j] = es[lo + j - 1]
  <2>1. IsPart(Yielded(es, P), S, es, lo, hi)
    BY <1>1, YieldedRange
  <2>2. QED BY <2>1 DEF IsPart
<1>3. Len(Yielded(es, P)) = Len(es)
  BY <1>1, <1>2
<1>4. \A j \in 1 .. Len(es) : Yielded(es, P)[j] = es[j]
  BY <1>1, <1>2, <1>3
<1>5. QED BY <1>2, <1>3, <1>4, SeqEqual

-----------------------------------------------------------------------------
(***************************************************************************)
(* What the reads and the subscriptions give of the log.                   *)
(***************************************************************************)

\* The index holds, for each aggregate, what a loop over the whole log yields
\* of it.
IndexIsLog ==
    \A a \in Aggregates :
        eventsByAggregate[a] =
            Yielded(events, {i \in DOMAIN events : events[i].aggregate = a})

\* A subscriber's history starts inside the log: without this its part of the
\* log would not grow with the log.
SubscribedWithinLog ==
    \A s \in Subscribers :
        subscriptions[s].state # "idle" => subscriptions[s].since <= Len(events)

ReadsInv == IndexIsLog /\ SubscribedWithinLog /\ SubscribersMissNothing

LEMMA ReadsInit == EventStoreAssumption /\ Init => ReadsInv
<1> SUFFICES ASSUME Init PROVE ReadsInv
  OBVIOUS
<1>1. IndexIsLog
  BY YieldedEmpty DEF Init, IndexIsLog
<1>2. SubscribedWithinLog /\ SubscribersMissNothing
  BY DEF Init, SubscribedWithinLog, SubscribersMissNothing, NotSubscribed
<1>3. QED BY <1>1, <1>2 DEF ReadsInv

\* An append adds the event to the index of its aggregate and to the queues of
\* the subscribers whose filter it passes, and to no other.
LEMMA ReadsAppend ==
    ASSUME EventStoreAssumption, IInv, ReadsInv,
           NEW a \in Aggregates, NEW v \in Versions, NEW t \in EventTypes,
           AppendEvent(a, v, t)
    PROVE  ReadsInv'
<1> DEFINE e == NewEvent(a, v, t)
           N == Len(events)
<1>1. N < MaxEvents
  BY DEF AppendEvent
<1>2. e \in Event /\ e.aggregate = a /\ ValidateTemporal(e, events)
  BY <1>1, NewEventFacts
<1> HIDE DEF e
<1>3. /\ events' = Append(events, e)
      /\ eventsByAggregate' = [eventsByAggregate EXCEPT ![a] = Append(@, e)]
      /\ subscriptions' = [s \in Subscribers |-> Notify(subscriptions[s], e)]
  BY <1>2 DEF AppendEvent, e
<1>4. /\ events \in Seq(Event) /\ N \in Nat
      /\ eventsByAggregate \in [Aggregates -> Seq(Event)]
  BY DEF IInv, TypeOK
<1>5. /\ events' \in Seq(Event) /\ Len(events') = N + 1
      /\ DOMAIN events' = 1 .. (N + 1) /\ DOMAIN events = 1 .. N
      /\ \A i \in 1 .. N : events'[i] = events[i]
      /\ events'[N + 1] = e
  BY <1>2, <1>3, <1>4, AppendProperties
<1>6. IndexIsLog'
  <2> SUFFICES ASSUME NEW b \in Aggregates
               PROVE  eventsByAggregate'[b] =
                        Yielded(events', {i \in DOMAIN events' : events'[i].aggregate = b})
    BY DEF IndexIsLog, Yielded
  <2> DEFINE P == {i \in DOMAIN events : events[i].aggregate = b}
             Q == {i \in DOMAIN events' : events'[i].aggregate = b}
  <2>1. ASSUME NEW i \in 1 .. Len(events) PROVE i \in P <=> i \in Q
    <3>1. i \in DOMAIN events /\ i \in DOMAIN events' /\ events'[i] = events[i]
      BY <1>4, <1>5
    <3>2. QED BY <3>1
  <2>2. Len(events) + 1 \in Q <=> b = a
    BY <1>2, <1>4, <1>5
  <2>3. eventsByAggregate[b] = Yielded(events, P)
    BY DEF ReadsInv, IndexIsLog
  <2> HIDE DEF P, Q
  <2>4. Yielded(Append(events, e), Q) =
            IF Len(events) + 1 \in Q THEN Append(Yielded(events, P), e)
            ELSE Yielded(events, P)
    BY <1>2, <1>4, <2>1, YieldedAppend
  <2>5. eventsByAggregate'[b] = Yielded(events', Q)
    BY <1>3, <1>4, <2>2, <2>3, <2>4
  <2>6. QED BY <2>5 DEF Q
<1>7. \A s \in Subscribers :
          /\ subscriptions'[s].state = "idle" <=> subscriptions[s].state = "idle"
          /\ subscriptions'[s].since = subscriptions[s].since
          /\ subscriptions'[s].got = subscriptions[s].got
          /\ subscriptions'[s].filter = subscriptions[s].filter
          /\ subscriptions'[s].queue =
                IF subscriptions[s].state # "idle" /\ MatchesFilter(e, subscriptions[s].filter)
                THEN Append(subscriptions[s].queue, e) ELSE subscriptions[s].queue
  <2> SUFFICES ASSUME NEW s \in Subscribers
               PROVE  LET old == subscriptions[s]
                          new == Notify(old, e)
                      IN  /\ new.state = "idle" <=> old.state = "idle"
                          /\ new.since = old.since /\ new.got = old.got
                          /\ new.filter = old.filter
                          /\ new.queue = IF old.state # "idle" /\ MatchesFilter(e, old.filter)
                                         THEN Append(old.queue, e) ELSE old.queue
    BY <1>3
  <2> DEFINE Sub == [state : {"idle", "waiting", "woken", "handling"},
                     filter : Filters \cup {NoFilter},
                     queue : Seq(Event), since : Nat, got : Seq(Event)]
  <2>1. subscriptions[s] \in Sub
    BY DEF IInv, TypeOK
  <2> DEFINE old == subscriptions[s]
  <2>2. old \in Sub
    BY <2>1
  <2> HIDE DEF old
  <2>3. LET new == Notify(old, e)
        IN  /\ new.state = "idle" <=> old.state = "idle"
            /\ new.since = old.since /\ new.got = old.got
            /\ new.filter = old.filter
            /\ new.queue = IF old.state # "idle" /\ MatchesFilter(e, old.filter)
                           THEN Append(old.queue, e) ELSE old.queue
    BY <2>2 DEF Notify
  <2>4. QED BY <2>3 DEF old
<1>8. SubscribedWithinLog'
  <2>1. \A s \in Subscribers : subscriptions[s].since \in Nat
    BY DEF IInv, TypeOK
  <2>2. QED BY <1>4, <1>5, <1>7, <2>1 DEF ReadsInv, SubscribedWithinLog
<1>9. SubscribersMissNothing'
  <2> SUFFICES ASSUME NEW s \in Subscribers, subscriptions[s].state # "idle"
               PROVE  LET sub == subscriptions'[s]
                          later == SubSeq(events', sub.since + 1, Len(events'))
                      IN  sub.got \o sub.queue =
                             Yielded(later, {i \in DOMAIN later :
                                               MatchesFilter(later[i], sub.filter)})
    BY <1>7 DEF SubscribersMissNothing, Yielded, MatchesFilter
  <2> DEFINE n == subscriptions[s].since
             f == subscriptions[s].filter
             got == subscriptions[s].got
             queue == subscriptions[s].queue
             es == SubSeq(events, n + 1, Len(events))
             fs == SubSeq(events', n + 1, Len(events'))
             P == {i \in DOMAIN es : MatchesFilter(es[i], f)}
             Q == {i \in DOMAIN fs : MatchesFilter(fs[i], f)}
  <2>1. n \in Nat /\ n <= N /\ got \in Seq(Event) /\ queue \in Seq(Event)
    BY DEF IInv, TypeOK, ReadsInv, SubscribedWithinLog
  <2>2. got \o queue = Yielded(es, P)
    BY DEF ReadsInv, SubscribersMissNothing
  <2> HIDE DEF n, f, got, queue
  <2>3. /\ es \in Seq(Event) /\ Len(es) = N - n
        /\ \A i \in 1 .. (N - n) : es[i] = events[n + i]
    <3>1. /\ n + 1 \in Int /\ Len(events) \in Int
          /\ \A i \in (n + 1) .. Len(events) : events[i] \in Event
      BY <1>4, <2>1
    <3>2. /\ es \in Seq(Event)
          /\ Len(es) = IF n + 1 <= Len(events) THEN Len(events) - (n + 1) + 1 ELSE 0
          /\ \A i \in 1 .. Len(events) - (n + 1) + 1 : es[i] = events[(n + 1) + i - 1]
      BY <3>1, SubSeqProperties
    <3>3. QED BY <1>4, <2>1, <3>2
  <2>4. /\ fs \in Seq(Event) /\ Len(fs) = N - n + 1
        /\ \A i \in 1 .. (N - n + 1) : fs[i] = events'[n + i]
    <3>1. /\ n + 1 \in Int /\ Len(events') \in Int
          /\ \A i \in (n + 1) .. Len(events') : events'[i] \in Event
      BY <1>4, <1>5, <2>1
    <3>2. /\ fs \in Seq(Event)
          /\ Len(fs) = IF n + 1 <= Len(events') THEN Len(events') - (n + 1) + 1 ELSE 0
          /\ \A i \in 1 .. Len(events') - (n + 1) + 1 : fs[i] = events'[(n + 1) + i - 1]
      BY <3>1, SubSeqProperties
    <3>3. /\ n + 1 <= Len(events') /\ Len(events') - (n + 1) + 1 = N - n + 1
          /\ \A i \in 1 .. (N - n + 1) : (n + 1) + i - 1 = n + i
      BY <1>4, <1>5, <2>1
    <3> HIDE DEF fs
    <3>4. QED BY <3>2, <3>3
  <2> HIDE DEF es, fs
  <2>5. fs = Append(es, e)
    <3>1. /\ Append(es, e) \in Seq(Event) /\ Len(Append(es, e)) = Len(es) + 1
          /\ \A i \in 1 .. Len(es) : Append(es, e)[i] = es[i]
          /\ Append(es, e)[Len(es) + 1] = e
      BY <1>2, <2>3, AppendProperties
    <3>2. ASSUME NEW i \in 1 .. (N - n + 1) PROVE fs[i] = Append(es, e)[i]
      <4>1. CASE i = N - n + 1
        <5>1. n + i = N + 1 /\ i = Len(es) + 1
          BY <1>4, <2>1, <2>3, <4>1
        <5>2. QED BY <1>5, <2>4, <3>1, <5>1
      <4>2. CASE i # N - n + 1
        <5>1. i \in 1 .. (N - n) /\ n + i \in 1 .. N /\ i \in 1 .. Len(es)
          BY <1>4, <2>1, <2>3, <4>2
        <5>2. QED BY <1>5, <2>3, <2>4, <3>1, <5>1
      <4>3. QED BY <4>1, <4>2
    <3>3. Len(fs) = Len(Append(es, e)) /\ \A i \in 1 .. Len(fs) : fs[i] = Append(es, e)[i]
      BY <2>3, <2>4, <3>1, <3>2
    <3>4. QED BY <2>4, <3>1, <3>3, SeqEqual
  <2>6. \A i \in 1 .. Len(es) : i \in P <=> i \in Q
    <3>1. \A i \in 1 .. Len(es) : es[i] = fs[i]
      BY <1>2, <2>3, <2>5, AppendProperties
    <3>2. DOMAIN es = 1 .. Len(es) /\ DOMAIN fs = 1 .. Len(fs) /\ Len(fs) = Len(es) + 1
          /\ Len(es) \in Nat
      BY <1>4, <2>1, <2>3, <2>4
    <3>3. QED BY <3>1, <3>2
  <2>7. Len(es) + 1 \in Q <=> MatchesFilter(e, f)
    <3>1. fs[Len(es) + 1] = e /\ Len(es) + 1 \in DOMAIN fs
      BY <1>2, <2>3, <2>5, AppendProperties
    <3>2. QED BY <3>1
  <2> HIDE DEF P, Q
  <2>8. Yielded(Append(es, e), Q) =
            IF Len(es) + 1 \in Q THEN Append(Yielded(es, P), e) ELSE Yielded(es, P)
    BY <1>2, <2>3, <2>6, YieldedAppend
  <2>9. got \o Append(queue, e) = Append(got \o queue, e)
    BY <1>2, <2>1
  <2>10. LET q == IF MatchesFilter(e, f) THEN Append(queue, e) ELSE queue
         IN  got \o q = Yielded(fs, Q)
    BY <2>2, <2>5, <2>7, <2>8, <2>9
  <2>11. /\ subscriptions'[s].since = n /\ subscriptions'[s].filter = f
         /\ subscriptions'[s].got = got
         /\ subscriptions'[s].queue =
               IF MatchesFilter(e, f) THEN Append(queue, e) ELSE queue
    BY <1>7 DEF n, f, got, queue
  <2>12. QED BY <2>10, <2>11 DEF fs, Q
<1>10. QED BY <1>6, <1>8, <1>9 DEF ReadsInv

\* The steps of one subscriber move events from its queue to what it was given
\* or begin its history anew.
LEMMA ReadsSubscriber ==
    ASSUME EventStoreAssumption, IInv, ReadsInv, NEW s \in Subscribers,
           \/ \E f \in Filters : Subscribe(s, f)
           \/ Deliver(s) \/ Await(s) \/ Unsubscribe(s)
    PROVE  ReadsInv'
<1> DEFINE Sub == [state : {"idle", "waiting", "woken", "handling"},
                   filter : Filters \cup {NoFilter},
                   queue : Seq(Event), since : Nat, got : Seq(Event)]
           Good(sub) ==
              sub.state # "idle" =>
                 /\ sub.since <= Len(events)
                 /\ LET later == SubSeq(events, sub.since + 1, Len(events))
                    IN  sub.got \o sub.queue =
                          Yielded(later, {i \in DOMAIN later :
                                            MatchesFilter(later[i], sub.filter)})
<1>1. UNCHANGED <<events, eventsByAggregate>>
  BY DEF Subscribe, Deliver, Await, Unsubscribe
<1>2. /\ subscriptions \in [Subscribers -> Sub] /\ subscriptions[s] \in Sub
      /\ events \in Seq(Event) /\ Len(events) \in Nat
  BY DEF IInv, TypeOK
<1>3. \A x \in Subscribers : Good(subscriptions[x])
  BY DEF ReadsInv, SubscribedWithinLog, SubscribersMissNothing
<1>4. \E new : subscriptions' = [subscriptions EXCEPT ![s] = new] /\ Good(new)
  <2>1. CASE \E f \in Filters : Subscribe(s, f)
    <3>1. PICK f \in Filters : Subscribe(s, f)
      BY <2>1
    <3> DEFINE new == [state |-> "waiting", filter |-> f, queue |-> << >>,
                       since |-> Len(events), got |-> << >>]
    <3>2. SubSeq(events, Len(events) + 1, Len(events)) = << >>
      BY <1>2, SubSeqEmpty
    <3>3. << >> \o << >> = << >>
      OBVIOUS
    <3>4. Good(new)
      <4> DEFINE later == SubSeq(events, new.since + 1, Len(events))
                 P == {i \in DOMAIN later : MatchesFilter(later[i], new.filter)}
      <4>1. later = << >> /\ new.got \o new.queue = << >> /\ new.since <= Len(events)
        BY <1>2, <3>2, <3>3
      <4>2. Yielded(later, P) = << >>
        <5> HIDE DEF later, P
        <5>1. QED BY <4>1, YieldedEmpty
      <4> HIDE DEF new
      <4>3. QED BY <4>1, <4>2
    <3>5. subscriptions' = [subscriptions EXCEPT ![s] = new]
      BY <3>1 DEF Subscribe
    <3>6. QED BY <3>4, <3>5
  <2>2. CASE Deliver(s)
    <3> DEFINE old == subscriptions[s]
               new == [old EXCEPT !.state = "handling",
                                  !.got = Append(@, Head(old.queue)),
                                  !.queue = Tail(@)]
    <3>1. /\ old \in Sub /\ old.state # "idle" /\ old.queue # << >>
          /\ subscriptions' = [subscriptions EXCEPT ![s] = new]
      BY <1>2, <2>2 DEF Deliver
    <3>2. Good(old)
      BY <1>3
    <3>3. Append(old.got, Head(old.queue)) \o Tail(old.queue) = old.got \o old.queue
      <4> DEFINE g == old.got
                 q == old.queue
      <4>1. g \in Seq(Event) /\ q \in Seq(Event) /\ q # << >>
        BY <3>1
      <4> HIDE DEF g, q
      <4>2. Head(q) \in Event /\ Tail(q) \in Seq(Event) /\ <<Head(q)>> \in Seq(Event)
        BY <4>1
      <4>3. Append(g, Head(q)) = g \o <<Head(q)>>
        BY <4>1, <4>2, AppendIsConcat
      <4>4. (g \o <<Head(q)>>) \o Tail(q) = g \o (<<Head(q)>> \o Tail(q))
        BY <4>1, <4>2, ConcatAssociative
      <4>5. <<Head(q)>> \o Tail(q) = q
        BY <4>1, <4>2
      <4>6. QED BY <4>3, <4>4, <4>5 DEF g, q
    <3>4. /\ new.state = "handling" /\ new.since = old.since /\ new.filter = old.filter
          /\ new.got = Append(old.got, Head(old.queue)) /\ new.queue = Tail(old.queue)
      BY <3>1
    <3>5. Good(new)
      <4> HIDE DEF new, old
      <4>1. QED BY <3>1, <3>2, <3>3, <3>4
    <3>6. QED BY <3>1, <3>5
  <2>3. CASE Await(s)
    <3> DEFINE old == subscriptions[s]
               new == [old EXCEPT !.state = "waiting"]
    <3>1. /\ old \in Sub /\ old.state # "idle"
          /\ subscriptions' = [subscriptions EXCEPT ![s] = new]
      BY <1>2, <2>3 DEF Await
    <3>2. Good(old)
      BY <1>3
    <3>3. /\ new.since = old.since /\ new.filter = old.filter
          /\ new.got = old.got /\ new.queue = old.queue
      BY <3>1
    <3>4. Good(new)
      <4> HIDE DEF new, old
      <4>1. QED BY <3>1, <3>2, <3>3
    <3>5. QED BY <3>1, <3>4
  <2>4. CASE Unsubscribe(s)
    <3>1. Good(NotSubscribed)
      BY DEF NotSubscribed
    <3>2. QED BY <2>4, <3>1 DEF Unsubscribe
  <2>5. QED BY <2>1, <2>2, <2>3, <2>4
<1>5. PICK new : subscriptions' = [subscriptions EXCEPT ![s] = new] /\ Good(new)
  BY <1>4
<1>6. \A x \in Subscribers : Good(subscriptions'[x])
  BY <1>2, <1>3, <1>5
<1>7. SubscribedWithinLog' /\ SubscribersMissNothing'
  BY <1>1, <1>6 DEF SubscribedWithinLog, SubscribersMissNothing, MatchesFilter
<1>8. IndexIsLog'
  BY <1>1 DEF ReadsInv, IndexIsLog, Yielded
<1>9. QED BY <1>7, <1>8 DEF ReadsInv

LEMMA ReadsNext ==
    EventStoreAssumption /\ IInv /\ ReadsInv /\ [Next]_vars => ReadsInv'
<1> SUFFICES ASSUME EventStoreAssumption, IInv, ReadsInv, [Next]_vars PROVE ReadsInv'
  OBVIOUS
<1>1. CASE \E a \in Aggregates, v \in Versions, t \in EventTypes :
              AppendEvent(a, v, t)
  BY <1>1, ReadsAppend
<1>2. CASE \E s \in Subscribers : \/ \E f \in Filters : Subscribe(s, f)
                                  \/ Deliver(s) \/ Await(s) \/ Unsubscribe(s)
  BY <1>2, ReadsSubscriber
<1>3. CASE UNCHANGED vars
  BY <1>3 DEF vars, ReadsInv, IndexIsLog, SubscribedWithinLog,
              SubscribersMissNothing, MatchesFilter
<1>4. QED BY <1>1, <1>2, <1>3 DEF Next

LEMMA ReadsInvariance == Spec => []ReadsInv
<1>1. EventStoreAssumption
  BY EventStoreAssumption
<1>2. QED BY <1>1, Invariance, ReadsInit, ReadsNext, PTL DEF Spec

\* getByAggregate (event-store.ts:210) yields the events of the aggregate in
\* the order of the log: the index that append keeps beside the log is never
\* ahead of it, behind it or out of order.
THEOREM IndexAgrees == Spec => []IndexAgreesWithLog
<1>1. IInv /\ ReadsInv => IndexAgreesWithLog
  <2> SUFFICES ASSUME IInv, ReadsInv, NEW a \in Aggregates
               PROVE  GetByAggregate(a, 0, 0) =
                        Yielded(events, {i \in DOMAIN events : events[i].aggregate = a})
    BY DEF IndexAgreesWithLog
  <2> DEFINE own == eventsByAggregate[a]
             P == {i \in DOMAIN own : InRange(own[i].version, 0, 0)}
  <2>1. own \in Seq(Event) /\ 1 .. Len(own) \subseteq P
    BY DEF IInv, TypeOK, InRange
  <2>2. GetByAggregate(a, 0, 0) = Yielded(own, P)
    BY DEF GetByAggregate
  <2> HIDE DEF P
  <2>3. Yielded(own, P) = own
    BY <2>1, YieldedAll
  <2>4. QED BY <2>2, <2>3 DEF ReadsInv, IndexIsLog
<1>2. QED BY <1>1, Invariance, ReadsInvariance, PTL

\* A subscriber is given every matching event appended since it subscribed,
\* once and in order, whatever is appended while it waits, is woken or handles
\* an event (subscribe, event-store.ts:259).
THEOREM SubscriptionsComplete == Spec => []SubscribersMissNothing
<1>1. ReadsInv => SubscribersMissNothing
  BY DEF ReadsInv
<1>2. QED BY <1>1, ReadsInvariance, PTL

\* A range of a gapless chain is a chain, whatever its bounds.
LEMMA RangeIsChain ==
    ASSUME NEW es \in Seq(Event), VerifyChain(es),
           \A i \in 1 .. Len(es) : es[i].sequence = i,
           NEW from \in Nat, NEW to \in Nat
    PROVE  VerifyChain(GetBySequence(es, from, to))
<1> DEFINE N == Len(es)
           P == {i \in DOMAIN es : InRange(es[i].sequence, from, to)}
           c == Yielded(es, P)
<1>1. /\ N \in Nat /\ DOMAIN es = 1 .. N
      /\ \A i \in 1 .. N : VerifyHash(es[i])
      /\ \A i \in 2 .. N : es[i].previousHash = es[i - 1].hash
  BY DEF VerifyChain
<1>2. PICK lo \in Nat \ {0}, hi \in 0 .. Len(es) :
         \A i \in 1 .. Len(es) : i \in P <=> lo <= i /\ i <= hi
  <2> DEFINE l == IF from = 0 THEN 1 ELSE from
             h == IF to = 0 \/ to > N THEN N ELSE to
  <2>1. l \in Nat \ {0} /\ h \in 0 .. Len(es)
    BY <1>1
  <2>2. \A i \in 1 .. Len(es) : i \in P <=> l <= i /\ i <= h
    BY <1>1 DEF InRange
  <2> HIDE DEF l, h, P
  <2>3. QED BY <2>1, <2>2
<1> HIDE DEF P
<1>3. /\ c \in Seq(Event)
      /\ Len(c) = IF lo <= hi THEN hi - lo + 1 ELSE 0
      /\ \A j \in 1 .. Len(c) : c[j] = es[lo + j - 1]
  <2>1. lo \in Nat /\ lo \in Nat \ {0} /\ hi \in Nat /\ hi \in 0 .. Len(es)
    BY <1>1
  <2>2. \A i \in 1 .. Len(es) : i \in P <=> lo <= i /\ i <= hi
    BY <1>2
  <2>3. IsPart(Yielded(es, P), Event, es, lo, hi)
    BY <2>1, <2>2, YieldedRange
  <2>4. QED BY <2>3 DEF IsPart
<1> HIDE DEF c
<1>4. /\ Len(c) \in Nat /\ DOMAIN c = 1 .. Len(c)
      /\ \A j \in 1 .. Len(c) : lo + j - 1 \in 1 .. N
  BY <1>1, <1>2, <1>3
<1>5. ASSUME NEW j \in DOMAIN c PROVE VerifyHash(c[j])
  BY <1>1, <1>3, <1>4
<1>6. ASSUME NEW j \in DOMAIN c \ {1} PROVE c[j].previousHash = c[j - 1].hash
  <2>1. /\ j \in 1 .. Len(c) /\ j - 1 \in 1 .. Len(c)
        /\ lo + j - 1 \in 2 .. N /\ lo + (j - 1) - 1 = (lo + j - 1) - 1
    BY <1>1, <1>2, <1>4
  <2>2. c[j] = es[lo + j - 1] /\ c[j - 1] = es[(lo + j - 1) - 1]
    BY <1>3, <2>1
  <2>3. QED BY <1>1, <2>1, <2>2
<1>7. QED BY <1>5, <1>6 DEF VerifyChain, GetBySequence, c, P

\* verifyIntegrity(from, to) (event-store.ts:290) accepts every range of the
\* log in every reachable state.
THEOREM RangesVerify == Spec => []EveryRangeVerifies
<1>1. EventStoreAssumption /\ IInv => EveryRangeVerifies
  <2> SUFFICES ASSUME EventStoreAssumption, IInv,
                      NEW from \in 0 .. MaxEvents, NEW to \in 0 .. MaxEvents
               PROVE  VerifyChain(GetBySequence(events, from, to))
    BY DEF EveryRangeVerifies, VerifyIntegrity
  <2>1. /\ events \in Seq(Event) /\ VerifyChain(events)
        /\ \A i \in 1 .. Len(events) : events[i].sequence = i
        /\ from \in Nat /\ to \in Nat
    BY DEF IInv, TypeOK, GaplessSequence, EventStoreAssumption
  <2>2. QED BY <2>1, RangeIsChain
<1>2. EventStoreAssumption
  BY EventStoreAssumption
<1>3. QED BY <1>1, <1>2, Invariance, PTL

\* Replacing an event before the last by one that carries its own correct hash
\* is noticed by verifyIntegrity, unless the two collide under computeHash
\* (invariants.ts:62): in every reachable state, for every digest.
THEOREM Tampering == Spec => []TamperEvident
<1>1. EventStoreAssumption /\ IInv => TamperEvident
  <2> SUFFICES ASSUME EventStoreAssumption, IInv,
                      NEW i \in 1 .. (Len(events) - 1), NEW b \in Body,
                      VerifyChain([events EXCEPT ![i] = WithHash(b, Digest(b))])
               PROVE  Digest(b) = Digest(WithoutHash(events[i]))
    BY DEF TamperEvident
  <2> DEFINE f == WithHash(b, Digest(b))
  <2>1. Digest(b) \in Hashes
    BY DEF EventStoreAssumption
  <2>2. f \in Event
    BY <2>1 DEF WithHash, Body, Event, EventStoreAssumption
  <2>3. WithoutHash(f) = b
    BY DEF WithHash, WithoutHash, Body
  <2> HIDE DEF f
  <2>4. events \in Seq(Event) /\ VerifyChain(events)
    BY DEF IInv, TypeOK
  <2>5. VerifyChain([events EXCEPT ![i] = f])
    BY DEF f
  <2>6. Digest(WithoutHash(f)) = Digest(WithoutHash(events[i]))
    BY <2>2, <2>4, <2>5, ReplacementDetected
  <2>7. QED BY <2>3, <2>6
<1>2. EventStoreAssumption
  BY EventStoreAssumption
<1>3. QED BY <1>1, <1>2, Invariance, PTL

-----------------------------------------------------------------------------
\* The store implements the ledger: its first state is the empty ledger and a
\* step either records one fact at the end or changes no fact.
THEOREM Refinement == Spec => ImplementsLedger
<1> DEFINE FactOf(e) == [aggregate |-> e.aggregate, version |-> e.version,
                         type |-> e.type]
           abs == [i \in DOMAIN events |-> FactOf(events[i])]
<1>1. Init => L!Init
  BY DEF Init, L!Init
<1>2. IInv /\ EventStoreAssumption /\ [Next]_vars => [L!Next]_abs
  <2> SUFFICES ASSUME IInv, EventStoreAssumption, [Next]_vars
               PROVE  L!Next \/ abs' = abs
    BY DEF L!Next
  <2>1. CASE \E a \in Aggregates, v \in Versions, t \in EventTypes :
                AppendEvent(a, v, t)
    <3>1. PICK a \in Aggregates, v \in Versions, t \in EventTypes :
                AppendEvent(a, v, t)
      BY <2>1
    <3> DEFINE e == NewEvent(a, v, t)
    <3>2. Len(events) < MaxEvents
      BY <3>1 DEF AppendEvent
    <3>3. /\ e \in Event /\ e.aggregate = a /\ e.version = v /\ e.type = t
          /\ ValidateTemporal(e, events)
      BY <3>2, NewEventFacts
    <3>4. events' = Append(events, e) /\ events \in Seq(Event)
      BY <3>1, <3>3 DEF AppendEvent, IInv, TypeOK
    <3> HIDE DEF e
    <3>5. abs' = Append(abs, FactOf(e))
      BY <3>3, <3>4
    <3>6. FactOf(e) = [aggregate |-> a, version |-> v, type |-> t]
      BY <3>3
    <3>7. L!Record(a, v, t)
      BY <3>5, <3>6 DEF L!Record
    <3>8. QED BY <3>7 DEF L!Next
  <2>2. CASE \E s \in Subscribers : \/ \E f \in Filters : Subscribe(s, f)
                                    \/ Deliver(s) \/ Await(s) \/ Unsubscribe(s)
    BY <2>2 DEF Subscribe, Deliver, Await, Unsubscribe
  <2>3. CASE UNCHANGED vars
    BY <2>3 DEF vars
  <2>4. QED BY <2>1, <2>2, <2>3 DEF Next
<1>3. EventStoreAssumption
  BY EventStoreAssumption
<1>4. QED BY <1>1, <1>2, <1>3, Invariance, PTL DEF Spec, ImplementsLedger, L!Spec

=============================================================================
