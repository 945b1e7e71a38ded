---------------------------- MODULE PgEventStore ----------------------------
(***************************************************************************)
(* The PostgreSQL event store (createPostgresEventStoreImpl).              *)
(*                                                                         *)
(* append awaits four queries, each on whatever pooled connection is free  *)
(* and in a transaction of its own: the version check, the hash of the     *)
(* last row, the highest sequence number, the INSERT.  Appends of one      *)
(* process and of several interleave at every await.  The table has the    *)
(* constraints ensureSchema installs: UNIQUE (sequence) and UNIQUE         *)
(* (aggregate_type, aggregate_id, aggregate_version), and no trigger.      *)
(*                                                                         *)
(* PostgreSQL is external: a query sees the committed rows, an INSERT that *)
(* breaks a constraint fails and leaves the table as it was.  The id       *)
(* column is taken to be TEXT (migration 003 and diagnostico-uuid.ts       *)
(* convert the columns that hold generated ids).                           *)
(***************************************************************************)
EXTENDS Naturals, Sequences, FiniteSets

CONSTANTS
    Aggregates,        \* (type, id) pairs
    EventTypes,        \* event types
    Versions,          \* the aggregate versions callers pass
    Actors,            \* actor references: [type, who]
    NoOne,             \* the who of an actor that names nobody
    Causations,        \* causation objects, as passed by callers
    Requests,          \* the EventInputs passed to append
    Appenders,         \* appends in flight, in all processes
    Pollers,           \* consumers of subscribe
    Hashes,            \* the values computeHash returns, and 'genesis'
    Digest(_),         \* computeHash
    Genesis,           \* 'genesis'
    MaxEvents          \* bound: number of rows

\* A payload is one of two texts of the same JSON object: with its keys in the
\* order JSONB keeps them, or in another.
Payloads == {"jsonb order", "other order"}

Request == [aggregate : Aggregates, version : Versions, type : EventTypes,
            payload : Payloads, actor : Actors, causation : Causations]

\* An event before it is hashed.
Body == [sequence : 1 .. MaxEvents, aggregate : Aggregates,
         version : Versions, type : EventTypes, payload : Payloads,
         actor : Actors, causation : Causations, previousHash : Hashes]

ASSUME PgAssumption ==
    /\ Versions \subseteq Nat \ {0}
    /\ MaxEvents \in Nat
    /\ Requests # {} /\ Requests \subseteq Request
    /\ Genesis \in Hashes
    /\ \A b \in Body : Digest(b) \in Hashes
    /\ \A a \in Actors : [a EXCEPT !.who = NoOne] \in Actors

VARIABLES
    table,      \* the events table: the rows, by their sequence column
    appends,    \* the local state of each append in flight
    pollers     \* the local state of each subscribe generator

vars == <<table, appends, pollers>>

-----------------------------------------------------------------------------
(***************************************************************************)
(* Rows and events.                                                        *)
(***************************************************************************)

\* A row: the columns of INSERT INTO events, less the sequence.
Row == [aggregate : Aggregates, version : Versions, type : EventTypes,
        payload : Payloads, actor : Actors, causation : Causations,
        previousHash : Hashes, hash : Hashes]

\* actor_id is set from `'id' in actor`, and no kind of ActorReference has a
\* field id; actor_reason keeps what an Anonymous actor says of itself.
StoredActor(actor) ==
    IF actor.type = "Anonymous" THEN actor ELSE [actor EXCEPT !.who = NoOne]

\* rowToEvent builds a causation object with three keys, null where nothing
\* was passed; an event that was appended without one comes back with nulls.
ReadBackCausation(causation) == IF causation = "absent" THEN "nulls" ELSE causation

\* The payload column is JSONB, and computeHash does not sort the keys: the
\* array it passes as the last argument of JSON.stringify has no effect.
StoredPayload(payload) == "jsonb order"

\* The event rowToEvent makes of the row with number s.
RowToEvent(s) ==
    [sequence |-> s, aggregate |-> table[s].aggregate,
     version |-> table[s].version, type |-> table[s].type,
     payload |-> table[s].payload, actor |-> table[s].actor,
     causation |-> ReadBackCausation(table[s].causation),
     previousHash |-> table[s].previousHash]

\* verifyIntegrity() over the whole table.
VerifyIntegrity ==
    \A s \in DOMAIN table :
        /\ Digest(RowToEvent(s)) = table[s].hash
        /\ s - 1 \in DOMAIN table => table[s].previousHash = table[s - 1].hash

RowsOf(a) == {s \in DOMAIN table : table[s].aggregate = a}

\* COALESCE(MAX(aggregate_version), 0) + 1 = v
IsExpectedVersion(a, v) ==
    /\ \A s \in RowsOf(a) : table[s].version < v
    /\ v = 1 \/ \E s \in RowsOf(a) : table[s].version = v - 1

\* COALESCE(MAX(sequence), 0) = n
IsMaxSequence(n) ==
    /\ n = 0 \/ n \in DOMAIN table
    /\ \A s \in DOMAIN table : s <= n

\* SELECT hash FROM events ORDER BY sequence DESC LIMIT 1
IsLastHash(h) ==
    IF DOMAIN table = {} THEN h = Genesis
    ELSE \E n \in DOMAIN table : IsMaxSequence(n) /\ h = table[n].hash

-----------------------------------------------------------------------------
(***************************************************************************)
(* append.                                                                 *)
(***************************************************************************)

\* phase: "idle"      no call
\*        "called"    the version is to be checked
\*        "checked"   ... the previous hash is to be read
\*        "linked"    ... the highest sequence number is to be read
\*        "numbered"  ... the row is to be inserted
\*        "stored"    returned the event
\*        "conflict"  threw 'Optimistic concurrency violation'
\*        "refused"   threw the constraint violation of the INSERT
Phases == {"idle", "called", "checked", "linked", "numbered",
           "stored", "conflict", "refused"}

NoAppend == [phase |-> "idle", request |-> CHOOSE r \in Requests : TRUE,
             previousHash |-> Genesis, current |-> 0]

AppendState == [phase : Phases, request : Requests, previousHash : Hashes,
                current : Nat]

Call(w, r) ==
    /\ appends[w].phase = "idle"
    /\ appends' = [appends EXCEPT ![w] = [NoAppend EXCEPT !.phase = "called",
                                                          !.request = r]]
    /\ UNCHANGED <<table, pollers>>

\* Mutant of CheckAggregateVersion: only a version in use is a conflict.
CheckVersionUnused(w) ==
    LET r == appends[w].request IN
    /\ appends[w].phase = "called"
    /\ appends' = [appends EXCEPT ![w].phase =
          IF \A s \in RowsOf(r.aggregate) : table[s].version # r.version
          THEN "checked" ELSE "conflict"]
    /\ UNCHANGED <<table, pollers>>

CheckAggregateVersion(w) ==
    LET r == appends[w].request IN
    /\ appends[w].phase = "called"
    /\ appends' = [appends EXCEPT ![w].phase =
          IF IsExpectedVersion(r.aggregate, r.version) THEN "checked" ELSE "conflict"]
    /\ UNCHANGED <<table, pollers>>

GetPreviousHash(w) ==
    /\ appends[w].phase = "checked"
    /\ \E h \in Hashes :
          /\ IsLastHash(h)
          /\ appends' = [appends EXCEPT ![w].phase = "linked",
                                        ![w].previousHash = h]
    /\ UNCHANGED <<table, pollers>>

\* Mutant of GetCurrentSequence: the number comes from the column's own
\* serial, which failed INSERTs have advanced.
GetSerialSequence(w) ==
    /\ appends[w].phase = "linked"
    /\ \E n \in 0 .. MaxEvents, burned \in {0, 1} :
          /\ IsMaxSequence(n)
          /\ appends' = [appends EXCEPT ![w].phase = "numbered",
                                        ![w].current = n + burned]
    /\ UNCHANGED <<table, pollers>>

GetCurrentSequence(w) ==
    /\ appends[w].phase = "linked"
    /\ \E n \in 0 .. MaxEvents :
          /\ IsMaxSequence(n)
          /\ appends' = [appends EXCEPT ![w].phase = "numbered",
                                        ![w].current = n]
    /\ UNCHANGED <<table, pollers>>

NewRow(w) ==
    LET r == appends[w].request
        body == [sequence |-> appends[w].current + 1, aggregate |-> r.aggregate,
                 version |-> r.version, type |-> r.type,
                 payload |-> r.payload, actor |-> r.actor,
                 causation |-> r.causation,
                 previousHash |-> appends[w].previousHash]
    IN  [aggregate |-> r.aggregate, version |-> r.version, type |-> r.type,
         payload |-> StoredPayload(r.payload),
         actor |-> StoredActor(r.actor), causation |-> r.causation,
         previousHash |-> appends[w].previousHash, hash |-> Digest(body)]

\* The constraints of the table.
SequenceFree(n) == n \notin DOMAIN table

\* Mutant of VersionFree: the table has no UNIQUE (aggregate, version).
VersionUnconstrained(a, v) == TRUE

VersionFree(a, v) == \A s \in RowsOf(a) : table[s].version # v

Insert(w) ==
    LET n == appends[w].current + 1
        r == appends[w].request
    IN
    /\ appends[w].phase = "numbered"
    /\ n <= MaxEvents
    /\ IF SequenceFree(n) /\ VersionFree(r.aggregate, r.version)
       THEN /\ table' = [s \in DOMAIN table \cup {n} |->
                            IF s = n THEN NewRow(w) ELSE table[s]]
            /\ appends' = [appends EXCEPT ![w].phase = "stored"]
       ELSE /\ appends' = [appends EXCEPT ![w].phase = "refused"]
            /\ UNCHANGED table
    /\ UNCHANGED pollers

\* The caller gets its answer; or its process or its connection dies, at any
\* point of the call.
Finish(w) ==
    /\ appends[w].phase # "idle"
    /\ appends' = [appends EXCEPT ![w] = NoAppend]
    /\ UNCHANGED <<table, pollers>>

-----------------------------------------------------------------------------
(***************************************************************************)
(* subscribe: a loop that polls the table.                                 *)
(***************************************************************************)

\* since: the number it started after; given: the numbers of the events it
\* has yielded (both history variables); current: what the poll has read.
NotPolling == [phase |-> "off", since |-> 0, last |-> 0, current |-> 0,
               given |-> << >>]

PollerState == [phase : {"off", "polling", "fetching"}, since : Nat,
                last : Nat, current : Nat, given : Seq(Nat)]

StartPolling(p) ==
    /\ pollers[p].phase = "off"
    /\ \E n \in 0 .. MaxEvents :
          /\ IsMaxSequence(n)
          /\ pollers' = [pollers EXCEPT ![p] =
                [phase |-> "polling", since |-> n, last |-> n, current |-> 0,
                 given |-> << >>]]
    /\ UNCHANGED <<table, appends>>

\* Mutant of Poll: a poll that finds a single new row is skipped.
PollTwo(p) ==
    /\ pollers[p].phase = "polling"
    /\ \E n \in 0 .. MaxEvents :
          /\ IsMaxSequence(n)
          /\ n > pollers[p].last + 1
          /\ pollers' = [pollers EXCEPT ![p].phase = "fetching", ![p].current = n]
    /\ UNCHANGED <<table, appends>>

Poll(p) ==
    /\ pollers[p].phase = "polling"
    /\ \E n \in 0 .. MaxEvents :
          /\ IsMaxSequence(n)
          /\ n > pollers[p].last
          /\ pollers' = [pollers EXCEPT ![p].phase = "fetching", ![p].current = n]
    /\ UNCHANGED <<table, appends>>

\* The numbers of the rows from first to last, ORDER BY sequence ASC (a set
\* with one element).
RowsInOrder(first, last) ==
    LET found == (first .. last) \cap DOMAIN table IN
    {f \in [1 .. Cardinality(found) -> found] :
        \A i, j \in DOMAIN f : i < j => f[i] < f[j]}

\* Mutant of Fetch: the upper bound of the query is exclusive.
FetchBelow(p) ==
    LET q == pollers[p] IN
    /\ q.phase = "fetching"
    /\ \E found \in RowsInOrder(q.last + 1, q.current - 1) :
          pollers' = [pollers EXCEPT ![p].phase = "polling",
                                     ![p].given = @ \o found,
                                     ![p].last = q.current]
    /\ UNCHANGED <<table, appends>>

\* getBySequence(last + 1, current), each row yielded in order.
Fetch(p) ==
    LET q == pollers[p] IN
    /\ q.phase = "fetching"
    /\ \E found \in RowsInOrder(q.last + 1, q.current) :
          pollers' = [pollers EXCEPT ![p].phase = "polling",
                                     ![p].given = @ \o found,
                                     ![p].last = q.current]
    /\ UNCHANGED <<table, appends>>

StopPolling(p) ==
    /\ pollers[p].phase # "off"
    /\ pollers' = [pollers EXCEPT ![p] = NotPolling]
    /\ UNCHANGED <<table, appends>>

-----------------------------------------------------------------------------
Init ==
    /\ table = << >>
    /\ appends = [w \in Appenders |-> NoAppend]
    /\ pollers = [p \in Pollers |-> NotPolling]

AppendStep(w) ==
    \/ \E r \in Requests : Call(w, r)
    \/ CheckAggregateVersion(w)
    \/ GetPreviousHash(w)
    \/ GetCurrentSequence(w)
    \/ Insert(w)
    \/ Finish(w)

PollStep(p) == StartPolling(p) \/ Poll(p) \/ Fetch(p) \/ StopPolling(p)

Next == (\E w \in Appenders : AppendStep(w)) \/ (\E p \in Pollers : PollStep(p))

Spec == Init /\ [][Next]_vars

\* The polling loop runs every 100 ms for as long as its consumer pulls.
FairSpec == Spec /\ \A p \in Pollers : WF_vars(Poll(p)) /\ WF_vars(Fetch(p))

-----------------------------------------------------------------------------
(***************************************************************************)
(* Properties.                                                             *)
(***************************************************************************)

\* Types, and the sequence numbers in use are 1 .. n for some n.
TypeOK ==
    /\ \E n \in 0 .. MaxEvents : table \in [1 .. n -> Row]
    /\ appends \in [Appenders -> AppendState]
    /\ pollers \in [Pollers -> PollerState]

\* Optimistic concurrency works without a lock: although the check and the
\* INSERT are four round trips apart, the versions of an aggregate are
\* 1, 2, 3, ... in the order of the log, without gap or repetition.
VersionsSequential ==
    \A s \in DOMAIN table :
        /\ \A r \in RowsOf(table[s].aggregate) :
              r < s <=> table[r].version < table[s].version
        /\ \A u \in 1 .. (table[s].version - 1) :
              \E r \in RowsOf(table[s].aggregate) : table[r].version = u

\* A polling consumer is given every row stored since it started, once and
\* in order: no row is ever committed behind a number it has already passed.
PollersMissNothing ==
    \A p \in Pollers :
        pollers[p].phase # "off" =>
            pollers[p].given =
                [i \in 1 .. (pollers[p].last - pollers[p].since) |-> pollers[p].since + i]

\* ... and it is given every row in the end, for as long as it polls.
PollersCatchUp ==
    \A p \in Pollers, n \in 1 .. MaxEvents :
        (pollers[p].phase # "off" /\ n \in DOMAIN table)
            ~> (pollers[p].phase = "off" \/ pollers[p].last >= n)

\* The table implements the versioned ledger.
L == INSTANCE Ledger WITH
        Versioned <- TRUE,
        ledger <- [s \in DOMAIN table |->
                      [aggregate |-> table[s].aggregate,
                       version |-> table[s].version, type |-> table[s].type]]

ImplementsLedger == L!Spec

\* The hash of the previous event links every event to it
\* (core/schema/ledger.ts:68).
ChainIntact ==
    \A s \in DOMAIN table :
        table[s].previousHash = IF s = 1 THEN Genesis ELSE table[s - 1].hash

\* verifyIntegrity accepts a log that was only ever appended to.
IntactLogVerifies == ChainIntact => VerifyIntegrity

=============================================================================
