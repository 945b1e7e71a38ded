------------------------------ MODULE Database ------------------------------
(***************************************************************************)
(* The database of the system (src/core/db): the pools of connections a    *)
(* process makes and what it finds the schema to be; the commands that     *)
(* make, migrate and reset the schema, each a process of its own; and the  *)
(* events table with its triggers.  Each of the three has a specification  *)
(* of its own, in a section of its own.                                    *)
(***************************************************************************)
EXTENDS Naturals, Sequences, FiniteSets, SequencesExt, FiniteSetsExt

CONSTANTS
    \* Pools.
    Calls,      \* calls made of the module, each once
    Asks,       \* what they may be: functions from calls to [op, dsn]
    Databases,
    Tables,     \* the tables a schema is expected to have
    Critical,   \* those with a column whose type is checked
    MaxChanges, \* bound: statements that change a table
    \* Migrations.
    Procs,      \* the commands that are run, each once
    MaxEvents,  \* bound: events the server appends
    \* The events table.
    Aggregates,
    Versions,   \* aggregate versions clients give
    Clients,    \* transactions, one for each
    MaxRows,    \* bound: sequence numbers taken
    MaxTime     \* bound: time

VARIABLES
    \* Pools.
    pool,       \* the global pool, 0 for none
    pools,      \* the pools ever made: [dsn, state]
    calls,      \* call |-> [op, dsn, pc, on, listed, read, answer]
    tables,     \* database |-> table |-> "right", "wrong" or "none"
    moments,    \* call |-> what the tables have been since it began to read
    shadowed,   \* calls whose handle met another database's pool, or outlived one
    changes,
    \* Migrations.
    command,    \* process |-> "migrate", "full", "reset" or "force"
    readable,   \* whether postgres-schema.sql is found
    objects,    \* tables, extensions and indexes of the database
    events,     \* events in the table of that name: 1, 2, ... in their order
    appended,   \* how many have been appended
    marked,     \* rows of schema_migrations
    phase,      \* process |-> what it does next
    next,       \* process |-> the statement it runs next
    fresh,      \* process |-> nothing was dropped since it read schema_migrations
    first,      \* process |-> how many events had been appended when it began
    \* The events table.
    clock,
    committed,  \* the committed rows
    taken,      \* the last value of the sequence
    tx,         \* client |-> [pc, at, rows, new]
    met         \* two transactions were open at once

-----------------------------------------------------------------------------
(***************************************************************************)
(* The connections of src/core/db: connection.ts keeps one pool for the    *)
(* whole process, made by whoever connects first and ended by whoever      *)
(* closes, and every handle sends its queries to the pool of the moment;   *)
(* validators.ts reads the schema with a query for the names of the tables *)
(* and three more for each of them, while migrations may be running.       *)
(***************************************************************************)
poolVars == <<pool, pools, calls, tables, moments, shadowed, changes>>

-----------------------------------------------------------------------------
PoolInit ==
    /\ pool = 0 /\ pools = << >>
    /\ \E asked \in Asks :
           calls = [c \in Calls |-> [op |-> asked[c].op, dsn |-> asked[c].dsn, pc |-> "idle", on |-> {},
                                     listed |-> {}, read |-> [t \in {} |-> ""], answer |-> ""]]
    /\ tables \in {[d \in Databases |-> m] : m \in
           {[t \in Tables |-> "right"], [t \in Tables |-> IF t \in Critical THEN "wrong" ELSE "none"]}}
    /\ moments = [c \in Calls |-> {}]
    /\ shadowed = {}
    /\ changes = 0

\* Mutant of MakesPool: every connection has a pool of its own.
MakesAlways(c) == TRUE

MakesPool(c) == pool = 0

\* Mutant of MadeFor: the database of the environment comes first.
MadeForEnv(c) == CHOOSE d \in Databases : TRUE

MadeFor(c) == calls[c].dsn

\* createDBConnection, with a string that is one.
CreateDBConnection(c) ==
    /\ calls[c].pc = "idle"
    /\ calls' = [calls EXCEPT ![c].pc = "connected"]
    /\ IF MakesPool(c)
       THEN /\ pools' = Append(pools, [dsn |-> MadeFor(c), state |-> "open"])
            /\ pool' = Len(pools')
       ELSE UNCHANGED <<pool, pools>>
    /\ shadowed' = IF pool # 0 /\ pools[pool].dsn # calls[c].dsn THEN shadowed \cup {c} ELSE shadowed
    /\ UNCHANGED <<tables, moments, changes>>

Fail(c) == calls' = [calls EXCEPT ![c].pc = "done", ![c].answer = "failed"]

\* query: sent to the global pool, which may be gone, or ending.
Query(c) ==
    /\ calls[c].pc = "connected" /\ calls[c].op # "close"
    /\ IF pool = 0 THEN Fail(c) /\ UNCHANGED moments
       ELSE IF pools[pool].state # "open" THEN Fail(c) /\ UNCHANGED moments
       ELSE /\ calls' = [calls EXCEPT ![c].pc = "querying", ![c].on = @ \cup {pool}]
            /\ moments' = [moments EXCEPT ![c] = @ \cup {tables[pools[pool].dsn]}]
    /\ UNCHANGED <<pool, pools, tables, shadowed, changes>>

\* The pool a call's query is running on.
Running(c) == CHOOSE p \in calls[c].on : \A q \in calls[c].on : q <= p
Now(c) == tables[pools[Running(c)].dsn]

Unread(c) == calls[c].listed \ DOMAIN calls[c].read

\* Mutant of Valid: only the names are looked at.
ValidNames(c) == Tables \subseteq calls[c].listed

\* Mutant of Valid: the tables that are missing are reported and forgiven.
ValidTypes(c) == \A t \in calls[c].listed \cap Critical : calls[c].read[t] # "wrong"

\* validateSchema: all tables were listed and no critical column that was
\* read has another type; one that is gone when it is read has none.
Valid(c) ==
    /\ Tables \subseteq calls[c].listed
    /\ \A t \in calls[c].listed \cap Critical : calls[c].read[t] # "wrong"

\* Any query may fail for itself: what awaits it hears of it.
QueryFails(c) ==
    /\ calls[c].pc = "querying"
    /\ Fail(c)
    /\ UNCHANGED <<pool, pools, tables, moments, shadowed, changes>>

QueryReturns(c) ==
    /\ calls[c].pc = "querying" /\ calls[c].op = "query"
    /\ calls' = [calls EXCEPT ![c].pc = "done", ![c].answer = "rows"]
    /\ UNCHANGED <<pool, pools, tables, moments, shadowed, changes>>

\* The list of the tables, and the check that follows if there are none.
ListTables(c) ==
    /\ calls[c].pc = "querying" /\ calls[c].op = "validate"
    /\ LET listed == {t \in Tables : Now(c)[t] # "none"}
       IN  calls' = [calls EXCEPT ![c].listed = listed, ![c].op = "describe",
                                  ![c].pc = IF listed = {} THEN "done" ELSE "connected",
                                  ![c].answer = IF listed = {} THEN "invalid" ELSE ""]
    /\ UNCHANGED <<pool, pools, tables, moments, shadowed, changes>>

\* getTableInfo of the next table.
GetTableInfo(c) ==
    /\ calls[c].pc = "querying" /\ calls[c].op = "describe" /\ Unread(c) # {}
    /\ \E t \in Unread(c) :
           calls' = [calls EXCEPT
               ![c].read = [u \in DOMAIN @ \cup {t} |-> IF u = t THEN Now(c)[t] ELSE @[u]],
               ![c].pc = IF Unread(c) = {t} THEN "judging" ELSE "connected"]
    /\ UNCHANGED <<pool, pools, tables, moments, shadowed, changes>>

ValidateSchema(c) ==
    /\ calls[c].pc = "judging"
    /\ calls' = [calls EXCEPT ![c].pc = "done", ![c].answer = IF Valid(c) THEN "valid" ELSE "invalid"]
    /\ UNCHANGED <<pool, pools, tables, moments, shadowed, changes>>

\* close: a pool can be ended once, and closing none is nothing.
Close(c) ==
    /\ calls[c].pc = "connected" /\ calls[c].op = "close"
    /\ IF pool = 0
       THEN calls' = [calls EXCEPT ![c].pc = "done", ![c].answer = "closed"] /\ UNCHANGED pools
       ELSE IF pools[pool].state # "open" THEN Fail(c) /\ UNCHANGED pools
       ELSE /\ pools' = [pools EXCEPT ![pool].state = "ending"]
            /\ calls' = [calls EXCEPT ![c].pc = "ending", ![c].on = {pool}]
    /\ UNCHANGED <<pool, tables, moments, shadowed, changes>>

Busy(p) == {c \in Calls : calls[c].pc = "querying" /\ Running(c) = p}

\* Mutant of EndedWhen: end does not wait for the queries under way.
EndedAtOnce(p) == TRUE

EndedWhen(p) == Busy(p) = {}

\* The pool has let its clients go: the variable is cleared.
Ended(c) ==
    /\ calls[c].pc = "ending" /\ EndedWhen(Running(c))
    /\ pools' = [pools EXCEPT ![Running(c)].state = "ended"]
    /\ pool' = 0
    /\ calls' = [calls EXCEPT ![c].pc = "done", ![c].answer = "closed"]
    /\ shadowed' = shadowed \cup {d \in Calls : calls[d].pc \notin {"idle", "done"}}
    /\ UNCHANGED <<tables, moments, changes>>

\* A migration creates, alters or drops a table.
Change ==
    /\ changes < MaxChanges
    /\ changes' = changes + 1
    /\ \E d \in Databases, t \in Tables, state \in {"right", "none"} :
           tables' = [tables EXCEPT ![d][t] = state]
    /\ moments' = [c \in Calls |->
           IF calls[c].pc = "done" \/ calls[c].on = {} THEN moments[c]
           ELSE moments[c] \cup {tables'[pools[Running(c)].dsn]}]
    /\ UNCHANGED <<pool, pools, calls, shadowed>>

PoolNext ==
    \/ \E c \in Calls :
           \/ CreateDBConnection(c) \/ Query(c) \/ QueryFails(c) \/ QueryReturns(c) \/ ListTables(c)
           \/ GetTableInfo(c) \/ ValidateSchema(c) \/ Close(c) \/ Ended(c)
    \/ Change

PoolSpec == PoolInit /\ [][PoolNext]_poolVars

-----------------------------------------------------------------------------
PoolTypeOK ==
    /\ pool \in 0 .. Len(pools)
    /\ \A p \in DOMAIN pools : pools[p] \in [dsn : Databases, state : {"open", "ending", "ended"}]
    /\ \A c \in Calls :
           /\ calls[c].pc \in {"idle", "connected", "querying", "judging", "ending", "done"}
           /\ calls[c].answer \in {"", "failed", "rows", "valid", "invalid", "closed"}
           /\ calls[c].on \subseteq DOMAIN pools
    /\ tables \in [Databases -> [Tables -> {"right", "wrong", "none"}]]
    /\ changes \in 0 .. MaxChanges

(***************************************************************************)
(* Every pool but the global one has ended, and no query runs on a pool    *)
(* that has: a process that closes leaves no connection behind.            *)
(***************************************************************************)
NoPoolLeaks ==
    \A p \in DOMAIN pools :
        /\ p # pool => pools[p].state = "ended"
        /\ pools[p].state = "ended" => Busy(p) = {}

(***************************************************************************)
(* A call reaches the database it asked for, and no other, unless a pool   *)
(* for another one was there when it connected, or the pool was closed     *)
(* under it.                                                               *)
(***************************************************************************)
AskedIsServed ==
    \A c \in Calls \ shadowed :
        calls[c].op # "close" => \A p \in calls[c].on : pools[p].dsn = calls[c].dsn

(***************************************************************************)
(* A schema that was found valid had all its tables at one moment of the   *)
(* reading, and none of its critical columns was wrong throughout; one     *)
(* that was found invalid had not all that was expected at some moment.    *)
(***************************************************************************)
ValidWasThere ==
    \A c \in Calls \ shadowed :
        /\ calls[c].answer = "valid" =>
               /\ \E m \in moments[c] : \A t \in Tables : m[t] # "none"
               /\ \A t \in Critical : \E m \in moments[c] : m[t] # "wrong"
        /\ calls[c].answer = "invalid" =>
               \E m \in moments[c], t \in Tables : m[t] = "none" \/ (t \in Critical /\ m[t] = "wrong")

\* What the pools rest on: the global pool is the last that was made, and
\* ends only under one close and no query; a call that was not shadowed is
\* served by it, and has met what its tables are now.
Tabled == [Tables -> {"right", "wrong", "none"}]
CallsOfPools ==
    [op : {"query", "validate", "describe", "close"}, dsn : Databases,
     pc : {"idle", "connected", "querying", "judging", "ending", "done"}, on : SUBSET Nat,
     listed : SUBSET Tables, read : UNION {[S -> {"right", "wrong", "none"}] : S \in SUBSET Tables},
     answer : {"", "failed", "rows", "valid", "invalid", "closed"}]
Served(c) == c \notin shadowed /\ calls[c].pc \notin {"idle", "done"}
Described(c) ==
    /\ \E m \in moments[c] : calls[c].listed = {t \in Tables : m[t] # "none"}
    /\ DOMAIN calls[c].read \subseteq calls[c].listed
    /\ \A t \in DOMAIN calls[c].read : \E m \in moments[c] : m[t] = calls[c].read[t]
    /\ calls[c].pc = "judging" => DOMAIN calls[c].read = calls[c].listed
PoolInv ==
    /\ pools \in Seq([dsn : Databases, state : {"open", "ending", "ended"}])
    /\ pool \in {0, Len(pools)}
    /\ \A p \in DOMAIN pools : pools[p].state = "ended" <=> p # pool
    /\ calls \in [Calls -> CallsOfPools]
    /\ tables \in [Databases -> Tabled] /\ moments \in [Calls -> SUBSET Tabled]
    /\ \A c \in Calls :
           /\ calls[c].on \subseteq DOMAIN pools
           /\ calls[c].pc = "idle" => calls[c].on = {} /\ calls[c].op # "describe"
           /\ calls[c].op # "describe" => DOMAIN calls[c].read = {}
           /\ calls[c].pc = "querying" => pool \in calls[c].on
           /\ calls[c].pc = "judging" => calls[c].op = "describe"
           /\ calls[c].pc = "ending" =>
                  /\ calls[c].on = {pool} /\ pools[pool].state = "ending"
                  /\ \A d \in Calls : calls[d].pc = "ending" => d = c
           /\ calls[c].pc # "done" => calls[c].answer = ""
           /\ c \notin shadowed => \A p \in calls[c].on : pools[p].dsn = calls[c].dsn
           /\ Served(c) =>
                  /\ pool # 0 /\ pools[pool].dsn = calls[c].dsn /\ calls[c].on \subseteq {pool}
                  /\ calls[c].on # {} /\ calls[c].op # "close" => tables[calls[c].dsn] \in moments[c]
                  /\ calls[c].op = "describe" => Described(c)
    /\ ValidWasThere

-----------------------------------------------------------------------------
(***************************************************************************)
(* The database commands (src/core/db/migrations.ts, src/cli/db-migrate.ts *)
(* and src/cli/db-reset.ts).  Each runs in a process of its own, next to   *)
(* other commands and to a server that appends events; every statement is  *)
(* a transaction of its own, so a command that fails or dies half-way      *)
(* leaves what it did.  A statement is what it makes and what it needs; it *)
(* is led by a comment or not, which is what the splitting of the file at  *)
(* semicolons makes of the comment above it.                               *)
(***************************************************************************)
migrationVars == <<command, readable, objects, events, appended, marked, phase, next, fresh, first>>

-----------------------------------------------------------------------------
(* The scripts.                                                            *)

Statement(makes, needs, led) == [makes |-> makes, needs |-> needs, led |-> led]

\* The beginning of postgres-schema.sql: tables and extensions follow a
\* comment, the indexes follow each other, and a function's body is split.
SchemaFile ==
    <<Statement("uuid-ossp", {}, TRUE), Statement("pgcrypto", {}, TRUE),
      Statement("events", {"uuid-ossp"}, TRUE), Statement("index", {"events"}, FALSE),
      Statement("function", {"the rest of its text"}, FALSE)>>

\* What version 1 is when the file is not found.
Fallback ==
    <<Statement("uuid-ossp", {}, TRUE), Statement("pgcrypto", {}, FALSE),
      Statement("events", {"uuid-ossp"}, FALSE)>>

MIGRATIONS == IF readable THEN SchemaFile ELSE Fallback

\* What is left of a script once the statements that begin with -- are gone.
Run(script) == {i \in DOMAIN script : ~script[i].led}
Script(p) == IF phase[p] = "schema" THEN SchemaFile ELSE MIGRATIONS
ToRun(p) == {i \in Run(Script(p)) : i >= next[p]}

MigrationTables == {"events", "schema_migrations"}

-----------------------------------------------------------------------------
\* A database is new, has the extension, or was set up with psql and used.
MigrationInit ==
    /\ command \in [Procs -> {"migrate", "full", "reset", "force"}]
    /\ readable \in BOOLEAN
    /\ objects \in {{}, {"uuid-ossp"}, {"uuid-ossp", "pgcrypto", "events", "index"}}
    /\ events \in {{}, {1}}
    /\ events # {} => "events" \in objects
    /\ appended = Cardinality(events)
    /\ marked = {}
    /\ phase = [p \in Procs |-> "start"]
    /\ next = [p \in Procs |-> 1]
    /\ fresh = [p \in Procs |-> FALSE]
    /\ first = [p \in Procs |-> 0]

Goto(p, where) == phase' = [phase EXCEPT ![p] = where]

\* main of the two commands: without the file, --full-schema gives up.
Start(p) ==
    /\ phase[p] = "start"
    /\ Goto(p, CASE command[p] = "migrate" -> "ensure"
                 [] command[p] = "full" -> IF readable THEN "schema" ELSE "failed"
                 [] OTHER -> "check")
    /\ first' = [first EXCEPT ![p] = appended]
    /\ UNCHANGED <<command, readable, objects, events, appended, marked, next, fresh>>

\* ensureMigrationsTable
Ensure(p) ==
    /\ phase[p] = "ensure"
    /\ objects' = objects \cup {"schema_migrations"}
    /\ Goto(p, "read")
    /\ UNCHANGED <<command, readable, events, appended, marked, next, fresh, first>>

\* getAppliedMigrations makes the table once more and reads it.
GetApplied(p) ==
    /\ phase[p] = "read"
    /\ objects' = objects \cup {"schema_migrations"}
    /\ fresh' = [fresh EXCEPT ![p] = TRUE]
    /\ Goto(p, IF marked = {} THEN "apply" ELSE "done")
    /\ next' = [next EXCEPT ![p] = 1]
    /\ UNCHANGED <<command, readable, events, appended, marked, first>>

\* Mutant of AllRun: the last statement is not run.
AllRunButLast(p) == Cardinality(ToRun(p)) <= 1

AllRun(p) == ToRun(p) = {}

\* A statement of applyMigration or of applyFullSchema.  That what it makes
\* is there already is not an error, any other error ends the process.
Execute(p) ==
    /\ phase[p] \in {"schema", "apply"} /\ ~AllRun(p)
    /\ LET i == Min(ToRun(p))
           s == Script(p)[i] IN
        IF s.needs \subseteq objects
        THEN /\ objects' = objects \cup {s.makes}
             /\ next' = [next EXCEPT ![p] = i + 1]
             /\ UNCHANGED phase
        ELSE Goto(p, "failed") /\ UNCHANGED <<objects, next>>
    /\ UNCHANGED <<command, readable, events, appended, marked, fresh, first>>

\* markMigrationApplied; the row is whole while nothing has been dropped
\* since the process that writes it read the table.
MarkApplied(p) ==
    /\ phase[p] = "apply" /\ AllRun(p)
    /\ IF "schema_migrations" \in objects
       THEN /\ marked' = IF marked = {} THEN {[version |-> 1, whole |-> fresh[p]]} ELSE marked
            /\ Goto(p, "done")
       ELSE Goto(p, "failed") /\ UNCHANGED marked
    /\ UNCHANGED <<command, readable, objects, events, appended, next, fresh, first>>

\* applyFullSchema has ended; a reset is over, --full-schema migrates.
SchemaApplied(p) ==
    /\ phase[p] = "schema" /\ AllRun(p)
    /\ Goto(p, IF command[p] = "full" THEN "ensure" ELSE "done")
    /\ UNCHANGED <<command, readable, objects, events, appended, marked, next, fresh, first>>

\* Mutant of Empty: a database in which no migration ran is taken for empty.
EmptyIfUntracked == "schema_migrations" \notin objects \/ events = {}

\* validateDatabaseEmpty: no table, or no event in a table of events.
Empty == objects \cap MigrationTables = {} \/ events = {}

CheckEmpty(p) ==
    /\ phase[p] = "check"
    /\ Goto(p, IF Empty \/ command[p] = "force" THEN "drop" ELSE "failed")
    /\ UNCHANGED <<command, readable, objects, events, appended, marked, next, fresh, first>>

\* The tables, in one statement; then each of the extensions.
Drop(p, what) ==
    /\ objects' = objects \ what
    /\ fresh' = [q \in Procs |-> FALSE]
    /\ marked' = IF "schema_migrations" \in what THEN {}
                 ELSE {[row EXCEPT !.whole = FALSE] : row \in marked}

DropTables(p) ==
    /\ phase[p] = "drop"
    /\ Drop(p, MigrationTables \cup {"index"})
    /\ events' = {}
    /\ Goto(p, "uuid-ossp")
    /\ UNCHANGED <<command, readable, appended, next, first>>

DropExtension(p) ==
    /\ phase[p] \in {"uuid-ossp", "pgcrypto"}
    /\ Drop(p, {phase[p]})
    /\ Goto(p, IF phase[p] = "uuid-ossp" THEN "pgcrypto"
               ELSE IF readable THEN "schema" ELSE "failed")
    /\ UNCHANGED <<command, readable, events, appended, next, first>>

\* The process is killed.
Crash(p) ==
    /\ phase[p] \notin {"start", "done", "failed"}
    /\ Goto(p, "failed")
    /\ UNCHANGED <<command, readable, objects, events, appended, marked, next, fresh, first>>

\* The server appends an event.
AppendEvent ==
    /\ "events" \in objects /\ appended < MaxEvents
    /\ appended' = appended + 1
    /\ events' = events \cup {appended + 1}
    /\ UNCHANGED <<command, readable, objects, marked, phase, next, fresh, first>>

MigrationNext ==
    \/ \E p \in Procs :
        \/ Start(p) \/ Ensure(p) \/ GetApplied(p) \/ Execute(p) \/ MarkApplied(p)
        \/ SchemaApplied(p) \/ CheckEmpty(p) \/ DropTables(p) \/ DropExtension(p)
        \/ Crash(p)
    \/ AppendEvent

MigrationSpec == MigrationInit /\ [][MigrationNext]_migrationVars

-----------------------------------------------------------------------------
MigrationTypeOK ==
    /\ readable \in BOOLEAN
    /\ marked \subseteq [version : {1}, whole : BOOLEAN]
    /\ appended \in 0 .. MaxEvents
    /\ events \subseteq 1 .. appended
    /\ fresh \in [Procs -> BOOLEAN]
    /\ first \in [Procs -> 0 .. MaxEvents]

(***************************************************************************)
(* A migration counts as applied only when all that it runs is there, even *)
(* if several processes applied it at once or one of them died half-way    *)
(* and another began again, unless a reset dropped things meanwhile.       *)
(***************************************************************************)
MarkedIsMade ==
    \A row \in marked : row.whole => \A i \in Run(MIGRATIONS) : MIGRATIONS[i].makes \in objects

(***************************************************************************)
(* A reset that was not forced costs no event that was there when it was   *)
(* started; one that a server appends while it runs may be lost.           *)
(***************************************************************************)
LosesNothingOld ==
    \A p \in Procs : phase[p] = "drop" /\ command[p] = "reset" /\ phase'[p] = "uuid-ossp"
        => \A e \in events : e > first[p]

UnforcedLosesNothingOld == [][LosesNothingOld]_migrationVars

\* What it rests on: a reset that was let through found no event, and what
\* has come since was appended after it began.
MigrationInv ==
    /\ appended \in Nat /\ events \subseteq 1 .. appended
    /\ events # {} => "events" \in objects
    /\ phase \in [Procs -> {"start", "ensure", "read", "apply", "schema", "check", "drop",
                           "uuid-ossp", "pgcrypto", "done", "failed"}]
    /\ first \in [Procs -> 0 .. appended]
    /\ \A p \in Procs :
           phase[p] = "drop" /\ command[p] = "reset" => \A e \in events : e > first[p]

\* A migration that nothing was dropped under has made what it has run.
MadeInv ==
    /\ marked \subseteq [version : {1}, whole : BOOLEAN]
    /\ fresh \in [Procs -> BOOLEAN] /\ next \in [Procs -> Nat]
    /\ \A p \in Procs : phase[p] = "apply" /\ fresh[p] =>
           \A i \in Run(MIGRATIONS) : i < next[p] => MIGRATIONS[i].makes \in objects
    /\ MarkedIsMade

-----------------------------------------------------------------------------
(***************************************************************************)
(* The events table as src/core/store/postgres-schema.sql declares it,     *)
(* with its triggers, under clients that write in transactions at READ     *)
(* COMMITTED.  A row's hash is the digest of all of it, its sequence       *)
(* number included, so the number stands for the hash, and 0 for           *)
(* 'genesis'.  The genesis row of the file is not in the table: its        *)
(* aggregate_type is not one the table allows.                             *)
(***************************************************************************)
schemaVars == <<clock, committed, taken, tx, met>>

Open(c) == tx[c].pc \in {"open", "inserting"}
Unborn == [pc |-> "none", at |-> 0, rows |-> {}, new |-> <<>>]

SchemaInit ==
    /\ clock = 1
    /\ committed = {}
    /\ taken = 0
    /\ tx = [c \in Clients |-> Unborn]
    /\ met = FALSE

Tick ==
    /\ clock < MaxTime
    /\ clock' = clock + 1
    /\ UNCHANGED <<committed, taken, tx, met>>

\* NOW() is the time a transaction begins at.
Begin(c) ==
    /\ tx[c].pc = "none"
    /\ tx' = [tx EXCEPT ![c].pc = "open", ![c].at = clock]
    /\ met' = (met \/ \E d \in Clients : Open(d))
    /\ UNCHANGED <<clock, committed, taken>>

\* What a statement of a transaction sees.
Seen(c) == committed \cup tx[c].rows

\* ORDER BY of rows that differ in it.
OrderedBy(rows, key) ==
    CHOOSE s \in [1 .. Cardinality(rows) -> rows] : \A i, j \in DOMAIN s : i < j => s[i][key] < s[j][key]

-----------------------------------------------------------------------------
(* The triggers before an insert, in the order of their names.             *)

MaxVersion(rows) == Max({r.version : r \in rows} \cup {0})

\* Mutant of VerifyAggregateVersion: any version that is not there yet.
VerifyAggregateVersionFree(c, row) ==
    \A r \in Seen(c) : r.aggregate = row.aggregate => r.version # row.version

VerifyAggregateVersion(c, row) ==
    row.version = MaxVersion({r \in Seen(c) : r.aggregate = row.aggregate}) + 1

LastHash(rows) == Max({r.sequence : r \in rows} \cup {0})

\* Mutant of VerifyHashChain: the row is linked to one that is there.
VerifyHashChainSome(c, row) ==
    row.previous \in {r.sequence : r \in Seen(c)} \cup {0}

VerifyHashChain(c, row) == row.previous = LastHash(Seen(c))

\* Mutant of RollBack: the row that was being placed stays with it.
RollBackPlacing(c) == tx' = [tx EXCEPT ![c] = [@ EXCEPT !.pc = "ended", !.rows = {}]]

\* What raises an exception ends the transaction; the number stays taken.
RollBack(c) == tx' = [tx EXCEPT ![c] = [@ EXCEPT !.pc = "ended", !.rows = {}, !.new = <<>>]]

\* An insert; previous is what the client has read for its link.
Insert(c, a, v, previous) ==
    LET row == [sequence |-> taken + 1, at |-> tx[c].at, aggregate |-> a, version |-> v,
                previous |-> previous]
    IN /\ tx[c].pc = "open"
       /\ taken < MaxRows
       /\ taken' = taken + 1
       /\ IF VerifyAggregateVersion(c, row) /\ VerifyHashChain(c, row)
          THEN tx' = [tx EXCEPT ![c].pc = "inserting", ![c].new = <<row>>]
          ELSE RollBack(c)
       /\ UNCHANGED <<clock, committed, met>>

\* UNIQUE (aggregate_type, aggregate_id, aggregate_version): a row another
\* transaction holds is waited for, one that is committed is an error.
Place(c) ==
    LET row == Head(tx[c].new)
        Same(r) == r.aggregate = row.aggregate /\ r.version = row.version
    IN /\ tx[c].pc = "inserting"
       /\ \A d \in Clients \ {c} : ~\E r \in tx[d].rows : Same(r)
       /\ IF \E r \in Seen(c) : Same(r)
          THEN RollBack(c)
          ELSE tx' = [tx EXCEPT ![c] = [@ EXCEPT !.pc = "open", !.new = <<>>,
                                                 !.rows = tx[c].rows \cup {row}]]
       /\ UNCHANGED <<clock, committed, taken, met>>

Commit(c) ==
    /\ tx[c].pc = "open"
    /\ committed' = committed \cup tx[c].rows
    /\ tx' = [tx EXCEPT ![c] = [@ EXCEPT !.pc = "ended", !.rows = {}]]
    /\ UNCHANGED <<clock, taken, met>>

\* The client gives up, or is the one of two that wait for each other.
Abandon(c) ==
    /\ Open(c)
    /\ RollBack(c)
    /\ UNCHANGED <<clock, committed, taken, met>>

\* Mutant of ChangeOrDelete: the row goes.
ChangeOrDeleteAllowed(c) ==
    /\ tx[c].pc = "open"
    /\ \E r \in committed : committed' = committed \ {r}
    /\ UNCHANGED <<clock, taken, tx, met>>

\* An UPDATE or a DELETE of a row raises.
ChangeOrDelete(c) ==
    /\ tx[c].pc = "open"
    /\ Seen(c) # {}
    /\ RollBack(c)
    /\ UNCHANGED <<clock, committed, taken, met>>

SchemaNext ==
    \/ Tick
    \/ \E c \in Clients :
           \/ Begin(c) \/ Place(c) \/ Commit(c) \/ Abandon(c) \/ ChangeOrDelete(c)
           \/ \E a \in Aggregates, v \in Versions, previous \in 0 .. taken : Insert(c, a, v, previous)

SchemaSpec == SchemaInit /\ [][SchemaNext]_schemaVars

-----------------------------------------------------------------------------
(* The functions of the file.                                              *)

GetEventsAtTime(a, t) == OrderedBy({r \in committed : r.aggregate = a /\ r.at <= t}, "version")

\* Mutant of VerifyChainIntegrity: the link is looked for among all rows.
VerifyChainIntegritySome(from) ==
    \A r \in {s \in committed : s.sequence >= from} : r.previous \in {s.sequence : s \in committed} \cup {0}

\* The first row of any range has to be linked to 'genesis'.
VerifyChainIntegrity(from) ==
    LET rows == OrderedBy({r \in committed : r.sequence >= from}, "sequence")
    IN \A i \in DOMAIN rows :
           rows[i].previous = IF i = 1 THEN 0 ELSE rows[i - 1].sequence

-----------------------------------------------------------------------------
SchemaTypeOK ==
    /\ taken \in 0 .. MaxRows
    /\ \A r \in committed \cup UNION {tx[c].rows : c \in Clients} :
           r.sequence \in 1 .. taken /\ r.at \in 1 .. clock
    /\ \A c \in Clients : tx[c].pc = "inserting" <=> tx[c].new # <<>>

(***************************************************************************)
(* The versions of an aggregate are those from 1 on, whichever             *)
(* transactions met and whichever were rolled back.                        *)
(***************************************************************************)
VersionsAreSequential ==
    \A a \in Aggregates :
        LET rows == {r \in committed : r.aggregate = a}
        IN {r.version : r \in rows} = 1 .. Cardinality(rows)

(***************************************************************************)
(* The table is one chain when no two transactions were open at once: they *)
(* would link their rows to the same one.  And only such a table verifies. *)
(***************************************************************************)
ChainHoldsApart ==
    LET chain == \A r \in committed : r.previous = LastHash({s \in committed : s.sequence < r.sequence})
    IN (~met => chain) /\ (VerifyChainIntegrity(1) <=> chain)

(***************************************************************************)
(* A committed row stays as it is, and what was there at a time that is    *)
(* over stays so, once no transaction is open that began by then.          *)
(***************************************************************************)
CommittedStays ==
    /\ committed \subseteq committed'
    /\ \A a \in Aggregates, t \in 1 .. clock - 1 :
           (\A c \in Clients : Open(c) => tx[c].at > t) =>
               GetEventsAtTime(a, t) = GetEventsAtTime(a, t)'

\* What it rests on: what a transaction inserts is of the time it began at.
Rows ==
    [sequence : Nat, at : Nat, aggregate : Aggregates, version : Versions, previous : Nat]
Transactions ==
    [pc : {"none", "open", "inserting", "ended"}, at : Nat, rows : SUBSET Rows, new : Seq(Rows)]
SchemaInv ==
    /\ clock \in Nat /\ taken \in Nat
    /\ committed \subseteq Rows
    /\ tx \in [Clients -> Transactions]
    /\ \A c \in Clients :
           /\ tx[c].pc = "none" => tx[c].rows = {}
           /\ tx[c].pc = "inserting" => tx[c].new # <<>> /\ Head(tx[c].new).at = tx[c].at
           /\ \A r \in tx[c].rows : r.at = tx[c].at

\* What each transaction sees has all versions of an aggregate once, and two
\* transactions do not hold the same; what is about to be placed is the next.
SameVersion(r, s) == r.aggregate = s.aggregate /\ r.version = s.version
HasVersions(rows, a, upto) ==
    \A v \in 1 .. upto : \E r \in rows : r.aggregate = a /\ r.version = v
Complete(rows) ==
    /\ IsFiniteSet(rows)
    /\ \A r, s \in rows : SameVersion(r, s) => r = s
    /\ \A r \in rows : r.version >= 1 /\ HasVersions(rows, r.aggregate, r.version)
VersionsInv ==
    /\ Complete(committed)
    /\ \A c \in Clients :
           /\ Complete(Seen(c))
           /\ tx[c].pc = "inserting" =>
                  /\ Head(tx[c].new).version >= 1
                  /\ HasVersions(Seen(c), Head(tx[c].new).aggregate, Head(tx[c].new).version - 1)
           /\ \A d \in Clients \ {c} : \A r \in tx[c].rows, s \in tx[d].rows : ~ SameVersion(r, s)

\* Rows have numbers of their own; one transaction alone links each to the last.
Chained(rows) == \A r \in rows : r.previous = LastHash({s \in rows : s.sequence < r.sequence})
ChainInv ==
    /\ \A c \in Clients :
           /\ tx[c].pc \in {"none", "ended"} => tx[c].rows = {}
           /\ tx[c].pc # "inserting" => tx[c].new = <<>>
    /\ LET held == committed \cup UNION {tx[c].rows \cup Range(tx[c].new) : c \in Clients}
       IN  /\ \A r \in held : r.sequence \in 1 .. taken
           /\ \A r, s \in held : r.sequence = s.sequence => r = s
    /\ ~met =>
           /\ Chained(committed)
           /\ \A c \in Clients : Open(c) =>
                  /\ \A d \in Clients : Open(d) => d = c
                  /\ Chained(Seen(c))
                  /\ tx[c].pc = "inserting" =>
                         /\ Head(tx[c].new).previous = LastHash(Seen(c))
                         /\ \A r \in Seen(c) : r.sequence < Head(tx[c].new).sequence
=============================================================================
