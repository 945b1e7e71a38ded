------------------------- MODULE DeadlineScheduler --------------------------
(***************************************************************************)
(* The scheduler of a cluster (createClusterSafeScheduler on every node),  *)
(* with the advisory lock and the idempotency table it goes through.       *)
(*                                                                         *)
(* A node keeps its deadlines in memory.  A tick takes the lock, walks     *)
(* through the deadlines and, for a stage whose time has come, marks the   *)
(* stage's key as processed, executes its action and puts its own copy of  *)
(* the deadline, made before the awaits, back into the map.  Nothing keeps *)
(* two ticks of a node apart but the lock.                                 *)
(*                                                                         *)
(* PostgreSQL is external.  An advisory lock belongs to a session, counts  *)
(* how often that session took it, and goes with the session; pool.query   *)
(* takes any idle session of the node's pool, so a lock may be released    *)
(* through a session that does not hold it, which has no effect.           *)
(***************************************************************************)
EXTENDS Naturals, FiniteSets

CONSTANTS
    Nodes,
    PoolSize,      \* sessions in the pool of a node
    Deadlines,     \* [subject, dueAt, triggers]: what createDeadline is given
    Ticks,         \* ticks in flight, in all nodes
    Window,        \* how long after its time a stage may trigger (60 s)
    Day,           \* how long a deadline is Due before it is Overdue
    Stores,        \* "memory", "postgres": the event stores it may run on
    Known,         \* subjects whose aggregate has events already
    MaxHolds,      \* bound: how often a session holds the lock
    MaxTime        \* bound: the clock

\* The stages of a deadline: their trigger times, dueAt plus or minus a
\* duration, in order.
Stages(d) == DOMAIN d.triggers

\* realm, subject type, subject id, dueAt, index of the stage.
Key(d, i) == <<d.subject, d.dueAt, i>>

Keys == {Key(d, i) : d \in Deadlines, i \in UNION {Stages(e) : e \in Deadlines}}

Sessions == Nodes \X (1 .. PoolSize)

ASSUME SchedulerAssumption ==
    /\ IsFiniteSet(Ticks)
    /\ \A d \in Deadlines : Stages(d) \subseteq Nat

VARIABLES
    store,         \* the event store; never changes
    now,           \* the clock
    deadlines,     \* of each node: Map: deadline -> [state, executed]
    lock,          \* the advisory lock: [holder, count]
    processed,     \* deadline_idempotency: the keys
    emitted,       \* history: how often the event of a key was appended
    severed,       \* history: a session was closed while a tick held its lock
    ticks          \* local state of each tick

vars == <<store, now, deadlines, lock, processed, emitted,
          severed, ticks>>

-----------------------------------------------------------------------------
(***************************************************************************)
(* The lock.                                                               *)
(***************************************************************************)
Free == [holder |-> <<>>, count |-> 0]

\* Mutant of TryAcquire: a session takes over the lock of another.
TryAcquireShared(s) == [holder |-> s, count |-> lock.count + 1]

\* pg_try_advisory_lock in session s.
TryAcquire(s) ==
    IF lock.count = 0 \/ lock.holder = s
    THEN [holder |-> s, count |-> lock.count + 1] ELSE lock

\* Mutant of Released: the last release leaves the holder.
ReleasedNotFreed(s) ==
    IF lock.holder # s THEN lock ELSE [lock EXCEPT !.count = @ - 1]

\* pg_advisory_unlock in session s.
Released(s) ==
    IF lock.holder # s THEN lock
    ELSE IF lock.count = 1 THEN Free
    ELSE [lock EXCEPT !.count = @ - 1]

-----------------------------------------------------------------------------
(***************************************************************************)
(* A tick.  phase:                                                         *)
(*   "idle"        "acquiring"   "walking"    between two deadlines        *)
(*   "staging"     at stage i of its copy of a deadline                    *)
(*   "marking"     markAsProcessed    "acting"    executeTaskAction        *)
(*   "releasing"   the finally of withLock                                 *)
(***************************************************************************)
Idle == [phase |-> "idle"]

Go(t, local) == ticks' = [ticks EXCEPT ![t] = local]

InCriticalSection(t) == ticks[t].phase \notin {"idle", "acquiring"}

\* start runs a tick, and from then on a timer does; runSchedulingTick may be
\* called besides.  A tick may begin while others of its node are under way.
RunSchedulingTick(t, n) ==
    /\ ticks[t].phase = "idle"
    /\ Go(t, [phase |-> "acquiring", node |-> n])
    /\ UNCHANGED <<store, now, deadlines, lock, processed, emitted, severed>>

Acquire(t) ==
    LET tick == ticks[t] IN
    /\ tick.phase = "acquiring" /\ lock.count < MaxHolds
    /\ \E k \in 1 .. PoolSize :
          LET s == <<tick.node, k>> IN
          /\ lock' = TryAcquire(s)
          /\ IF lock' # lock
             THEN Go(t, [phase |-> "walking", node |-> tick.node, now |-> now,
                         visited |-> {}])
             ELSE Go(t, Idle)
    /\ UNCHANGED <<store, now, deadlines, processed, emitted, severed>>

Walking(tick) ==
    [phase |-> "walking", node |-> tick.node, now |-> tick.now,
     visited |-> tick.visited]

Releasing(tick) == [phase |-> "releasing", node |-> tick.node]

\* The iterator of the map gives a deadline as it is at this moment.
Visit(t) ==
    LET tick == ticks[t]  mine == deadlines[tick.node] IN
    /\ tick.phase = "walking"
    /\ IF DOMAIN mine \subseteq tick.visited THEN Go(t, Releasing(tick))
       ELSE \E d \in DOMAIN mine \ tick.visited :
               LET seen == [tick EXCEPT !.visited = @ \cup {d}] IN
               Go(t, IF mine[d].state = "Completed" THEN seen
                     ELSE [phase |-> "staging", node |-> tick.node, now |-> tick.now,
                           visited |-> seen.visited,
                           deadline |-> d, copy |-> mine[d], stage |-> 1])
    /\ UNCHANGED <<store, now, deadlines, lock, processed,
                   emitted, severed>>

\* triggerAt <= now and triggerAt > now - 60000
ShouldTrigger(d, i) == d.triggers[i] <= now /\ now < d.triggers[i] + Window

NextStage(tick) == [tick EXCEPT !.phase = "staging", !.stage = @ + 1]

\* The stages a tick finds to trigger, from the stage it is at.
ToTrigger(tick) ==
    {i \in Stages(tick.deadline) : /\ i >= tick.stage
                                   /\ ShouldTrigger(tick.deadline, i)
                                   /\ ~tick.copy.executed[i]}

\* Up to the await of markAsProcessed, for the first of them.
ProcessDeadlineStage(t) ==
    LET tick == ticks[t] IN
    /\ tick.phase = "staging"
    /\ \E i \in ToTrigger(tick) :
          /\ \A j \in ToTrigger(tick) : i <= j
          /\ Go(t, [tick EXCEPT !.phase = "marking", !.stage = i])
    /\ UNCHANGED <<store, now, deadlines, lock, processed, emitted, severed>>

\* Mutant of MarkAsProcessed: the key is looked up and not inserted.
ReadWhetherProcessed(t) ==
    LET tick == ticks[t]  key == Key(tick.deadline, tick.stage) IN
    /\ tick.phase = "marking"
    /\ Go(t, IF key \in processed \/ emitted[key] > 0 THEN NextStage(tick)
             ELSE [tick EXCEPT !.phase = "acting"])
    /\ UNCHANGED <<store, now, deadlines, lock, processed,
                   emitted, severed>>

\* INSERT ... ON CONFLICT DO NOTHING RETURNING
MarkAsProcessed(t) ==
    LET tick == ticks[t]  key == Key(tick.deadline, tick.stage) IN
    /\ tick.phase = "marking"
    /\ Go(t, IF key \in processed THEN NextStage(tick)
             ELSE [tick EXCEPT !.phase = "acting"])
    /\ processed' = processed \cup {key}
    /\ UNCHANGED <<store, now, deadlines, lock, emitted, severed>>

\* The event is appended with version 1, whatever its aggregate has seen.
AppendThrows(d) ==
    /\ store = "postgres"
    /\ \/ d.subject \in Known
       \/ \E e \in Deadlines : e.subject = d.subject
                               /\ \E i \in Stages(e) : emitted[Key(e, i)] > 0

Put(n, d, deadline) ==
    deadlines' = [deadlines EXCEPT ![n] =
        [e \in DOMAIN @ \cup {d} |-> IF e = d THEN deadline ELSE @[e]]]

\* Mutant of ExecuteTaskAction: the stage is marked executed whatever happens.
ExecuteAndIgnore(t) ==
    LET tick == ticks[t]  d == tick.deadline  key == Key(d, tick.stage) IN
    /\ tick.phase = "acting"
    /\ emitted' = IF AppendThrows(d) THEN emitted ELSE [emitted EXCEPT ![key] = @ + 1]
    /\ Put(tick.node, d, [tick.copy EXCEPT !.executed[tick.stage] = TRUE])
    /\ Go(t, NextStage(tick))
    /\ UNCHANGED <<store, now, lock, processed, severed>>

\* executeTaskAction and the update of the map; an append that throws ends
\* the tick.
ExecuteTaskAction(t) ==
    LET tick == ticks[t]  d == tick.deadline  key == Key(d, tick.stage) IN
    /\ tick.phase = "acting"
    /\ IF AppendThrows(d)
       THEN Go(t, Releasing(tick)) /\ UNCHANGED <<deadlines, emitted>>
       ELSE /\ emitted' = [emitted EXCEPT ![key] = @ + 1]
            /\ Put(tick.node, d, [tick.copy EXCEPT !.executed[tick.stage] = TRUE])
            /\ Go(t, NextStage(tick))
    /\ UNCHANGED <<store, now, lock, processed, severed>>

\* The state of a deadline after its stages, by the time the tick began.
NewState(d, state, time) ==
    IF d.dueAt <= time /\ state = "Pending" THEN "Due"
    ELSE IF d.dueAt + Day < time /\ state = "Due" THEN "Overdue"
    ELSE state

UpdateState(t) ==
    LET tick == ticks[t]  d == tick.deadline
        state == NewState(d, tick.copy.state, tick.now)
    IN
    /\ tick.phase = "staging" /\ ToTrigger(tick) = {}
    /\ IF state # tick.copy.state
       THEN Put(tick.node, d, [tick.copy EXCEPT !.state = state])
       ELSE UNCHANGED deadlines
    /\ Go(t, Walking(tick))
    /\ UNCHANGED <<store, now, lock, processed, emitted, severed>>

Release(t) ==
    LET tick == ticks[t] IN
    /\ tick.phase = "releasing"
    /\ \E k \in 1 .. PoolSize : lock' = Released(<<tick.node, k>>)
    /\ Go(t, Idle)
    /\ UNCHANGED <<store, now, deadlines, processed, emitted, severed>>

-----------------------------------------------------------------------------
(***************************************************************************)
(* The deadlines of a node, and the world around it.                       *)
(***************************************************************************)
CreateDeadline(n, d) ==
    /\ d \notin DOMAIN deadlines[n]
    /\ Put(n, d, [state |-> "Pending", executed |-> [i \in Stages(d) |-> FALSE]])
    /\ UNCHANGED <<store, now, lock, processed, emitted,
                   severed, ticks>>

CompleteDeadline(n, d) ==
    /\ d \in DOMAIN deadlines[n]
    /\ Put(n, d, [deadlines[n][d] EXCEPT !.state = "Completed"])
    /\ UNCHANGED <<store, now, lock, processed, emitted,
                   severed, ticks>>

\* The pool closes an idle session, or its connection breaks.
CloseSession(s) ==
    /\ lock.holder = s
    /\ lock' = Free
    /\ severed' = (severed \/ \E t \in Ticks : InCriticalSection(t) /\ ticks[t].node = s[1])
    /\ UNCHANGED <<store, now, deadlines, processed, emitted, ticks>>

\* A node dies; its deadlines are gone and its sessions are closed.
Crash(n) ==
    /\ deadlines' = [deadlines EXCEPT ![n] = << >>]
    /\ ticks' = [t \in Ticks |->
          IF ticks[t].phase # "idle" /\ ticks[t].node = n THEN Idle ELSE ticks[t]]
    /\ lock' = IF lock.count > 0 /\ lock.holder[1] = n THEN Free ELSE lock
    /\ UNCHANGED <<store, now, processed, emitted, severed>>

TimePasses ==
    /\ now < MaxTime
    /\ now' = now + 1
    /\ UNCHANGED <<store, deadlines, lock, processed, emitted,
                   severed, ticks>>

Init ==
    /\ store \in Stores
    /\ now = 0
    /\ deadlines = [n \in Nodes |-> << >>]
    /\ lock = Free
    /\ processed = {}
    /\ emitted = [k \in Keys |-> 0]
    /\ severed = FALSE
    /\ ticks = [t \in Ticks |-> Idle]

TickStep(t) ==
    \/ Acquire(t) \/ Visit(t) \/ ProcessDeadlineStage(t) \/ MarkAsProcessed(t)
    \/ ExecuteTaskAction(t) \/ UpdateState(t) \/ Release(t)

Next ==
    \/ \E t \in Ticks : TickStep(t)
    \/ \E t \in Ticks, n \in Nodes : RunSchedulingTick(t, n)
    \/ \E n \in Nodes : Crash(n)
    \/ \E n \in Nodes, d \in Deadlines : CreateDeadline(n, d) \/ CompleteDeadline(n, d)
    \/ \E s \in Sessions : CloseSession(s)
    \/ TimePasses

Spec == Init /\ [][Next]_vars

-----------------------------------------------------------------------------
(***************************************************************************)
(* Properties.                                                             *)
(***************************************************************************)
Deadline(d) == [state : {"Pending", "Due", "Overdue", "Completed"},
                executed : [Stages(d) -> BOOLEAN]]

\* Types; the lock is held by a session exactly if it is counted.
TypeOK ==
    /\ \A n \in Nodes : \A d \in DOMAIN deadlines[n] : deadlines[n][d] \in Deadline(d)
    /\ lock.count \in Nat
    /\ lock.holder \in Sessions <=> lock.count > 0
    /\ processed \subseteq Keys
    /\ \A t \in Ticks : InCriticalSection(t) => ticks[t].node \in Nodes

\* A deadline's stage emits at most one event in the whole cluster, however
\* many ticks run at once: also when the lock failed to keep them apart.
AtMostOnce == \A k \in Keys : emitted[k] <= 1

\* A stage that some node has down as executed has its event in the store.
ExecutedIsEmitted ==
    \A n \in Nodes : \A d \in DOMAIN deadlines[n] : \A i \in Stages(d) :
        deadlines[n][d].executed[i] => emitted[Key(d, i)] > 0

\* Only one node is inside a tick, as long as no session is closed under a
\* tick -- although ticks of one node overlap, share the lock and release it
\* through whatever session they are given.
OneNodeAtATime ==
    ~severed =>
        \A t, u \in Ticks :
            InCriticalSection(t) /\ InCriticalSection(u) => ticks[t].node = ticks[u].node

\* What is marked as processed has been done, once no tick is under way
\* (scheduler-impl.ts:8: after a failure or restart the system resumes safely).
ProcessedIsEmitted ==
    (\A t \in Ticks : ticks[t].phase = "idle") => \A k \in processed : emitted[k] > 0

=============================================================================
