------------------------- MODULE WorkspaceProjection ------------------------
(***************************************************************************)
(* The workspace projection (WorkspaceProjection) and the manager that     *)
(* runs it (ProjectionManager) in every process on one database.           *)
(*                                                                         *)
(* A run reads the checkpoint, takes the events after it and, event by     *)
(* event, changes the row of the workspace and then the checkpoint, each   *)
(* with a query of its own; a file event first reads the row.  A rebuild   *)
(* empties the table and replays the log.  isProcessing keeps the periodic *)
(* runs of one manager apart, and nothing else: a rebuild overlaps with a  *)
(* run in flight, and so do the managers of two processes.                 *)
(*                                                                         *)
(* The log is external: events are only added, numbered without gaps and   *)
(* visible in that order (the ImplementsLedger of PgEventStore).           *)
(***************************************************************************)
EXTENDS Integers, Sequences, FiniteSets, SequencesExt

CONSTANTS
    Processes,
    Jobs,          \* runs and rebuilds in flight, in all processes
    Workspaces,
    Files,
    None,          \* the file of an event that is about none
    EventTypes,    \* what is appended
    Payloads,      \* "declared", "emitted": what WorkspaceCreated may carry
    MaxVersion,    \* the largest version a BIGINT column takes
    MaxLog,        \* bound: number of events
    MaxDisturbances \* bound: rebuilds, queries that fail, restarts

\* The log has room for its genesis event; events that are about no file are
\* not about one.
ASSUME ProjectionAssumption == MaxLog \in Nat \ {0} /\ None \notin Files

VARIABLES
    payload,       \* what WorkspaceCreated carries; never changes
    log,           \* the events: [type, ws, file]
    rows,          \* workspace_projection: id -> [version, files, activity]
    checkpoint,    \* last_sequence of the checkpoint, 0 if there is no row
    status,        \* of each manager: ProjectionStatus.status
    jobs,          \* local state of each run and rebuild
    trust,         \* history: what can be said of the rows
    disturbances       \* counter of the bound

vars == <<payload, log, rows, checkpoint, status, jobs, trust, disturbances>>

FileEvents == {"FileUploaded", "FileModified", "FileDeleted"}

\* The events whose handler reads the row before it writes it.
Reading == FileEvents \cup {"FunctionRegistered"}

Event ==
    [type : EventTypes \cap FileEvents, ws : Workspaces, file : Files] \cup
    [type : EventTypes \ FileEvents, ws : Workspaces, file : {None}]

\* The genesis event, and every event of another component.
Genesis(w) == [type |-> "Other", ws |-> w, file |-> None]

-----------------------------------------------------------------------------
(***************************************************************************)
(* The history.  "exact": the rows are those of the log up to the          *)
(* checkpoint.  "as a set": an event may have been applied more than once. *)
(* "none": two jobs were in flight together, or a rebuild ended between    *)
(* its first two queries.  A rebuild that has the table to itself starts   *)
(* over.                                                                   *)
(***************************************************************************)
Busy(j) == jobs[j].phase # "idle"

\* Job j ends where it is: what is left of the trust in the rows.
Interrupted(j) ==
    CASE jobs[j].phase = "resetting" -> "none"
      [] jobs[j].phase = "applied" /\ trust = "exact" -> "as a set"
      [] OTHER -> trust

-----------------------------------------------------------------------------
(***************************************************************************)
(* Jobs.  phase:                                                           *)
(*   "truncating"  "resetting"      the first two queries of rebuild       *)
(*   "starting"    getCheckpoint    "ranging"  getCurrentSequence and      *)
(*                                             getBySequence               *)
(*   "event"       handle           "writing"  ... its second query        *)
(*   "applied"     updateCheckpoint                                        *)
(***************************************************************************)
Idle == [phase |-> "idle"]

Go(j, local) == jobs' = [jobs EXCEPT ![j] = local]

Current(j) == log[jobs[j].next]

\* Job j with what it knows in each phase: the checkpoint it read; the event
\* it is at and the last one it took; the row it read.
Ranging(j, from) ==
    [phase |-> "ranging", kind |-> jobs[j].kind, process |-> jobs[j].process,
     from |-> from]

At(j, phase, next, upTo) ==
    [phase |-> phase, kind |-> jobs[j].kind, process |-> jobs[j].process,
     next |-> next, upTo |-> upTo]

Writing(j, row) ==
    [phase |-> "writing", kind |-> jobs[j].kind, process |-> jobs[j].process,
     next |-> jobs[j].next, upTo |-> jobs[j].upTo, row |-> row]

Applied(j) == At(j, "applied", jobs[j].next, jobs[j].upTo)

\* Mutant of Ended: a rebuild leaves the status as it is.
EndedKeepingStatus(j) == status

\* What the manager makes of a job that is over; a run leaves the status
\* alone, which may be that of a rebuild.
Ended(j) ==
    IF jobs[j].kind = "rebuild" THEN [status EXCEPT ![jobs[j].process] = "running"]
    ELSE status

\* The catch of the manager, for a run and for a rebuild.
Throw(j) ==
    /\ status' = [status EXCEPT ![jobs[j].process] = "error"]
    /\ trust' = Interrupted(j)
    /\ Go(j, Idle)
    /\ UNCHANGED <<payload, log, rows, checkpoint>>

Start(j, local) ==
    /\ ~Busy(j)
    /\ Go(j, local)
    /\ trust' = IF \E i \in Jobs : Busy(i) THEN "none" ELSE trust
    /\ UNCHANGED <<payload, log, rows, checkpoint>>

IsProcessing(p) ==
    \E j \in Jobs : Busy(j) /\ jobs[j].kind = "run" /\ jobs[j].process = p

\* processNewEvents of the manager: at start, and every five seconds.
ProcessNewEvents(p, j) ==
    /\ ~IsProcessing(p) /\ status[p] = "running"
    /\ Start(j, [phase |-> "starting", kind |-> "run", process |-> p])
    /\ UNCHANGED <<status, disturbances>>

Rebuild(p, j) ==
    /\ disturbances < MaxDisturbances
    /\ disturbances' = disturbances + 1
    /\ status' = [status EXCEPT ![p] = "rebuilding"]
    /\ Start(j, [phase |-> "truncating", kind |-> "rebuild", process |-> p])

\* TRUNCATE TABLE workspace_projection
Truncate(j) ==
    /\ jobs[j].phase = "truncating"
    /\ rows' = << >>
    /\ trust' = IF \E i \in Jobs \ {j} : Busy(i) THEN "none" ELSE "exact"
    /\ Go(j, [jobs[j] EXCEPT !.phase = "resetting"])
    /\ UNCHANGED <<payload, log, checkpoint, status>>

\* Mutant of ResetCheckpoint: the checkpoint stays where it is.
ResetStatusOnly(j) ==
    /\ jobs[j].phase = "resetting"
    /\ Go(j, Ranging(j, 0))
    /\ UNCHANGED <<payload, log, rows, checkpoint, status, trust>>

\* UPDATE projection_checkpoints SET last_sequence = 1: no row, no effect.
ResetCheckpoint(j) ==
    /\ jobs[j].phase = "resetting"
    /\ checkpoint' = IF checkpoint = 0 THEN 0 ELSE 1
    /\ Go(j, Ranging(j, 0))
    /\ UNCHANGED <<payload, log, rows, status, trust>>

\* getCheckpoint; where there is no row it returns the number 1, to which
\* 1n cannot be added.
GetCheckpoint(j) ==
    /\ jobs[j].phase = "starting"
    /\ Go(j, Ranging(j, checkpoint))
    /\ UNCHANGED <<payload, log, rows, checkpoint, status, trust>>

NoCheckpoint(j) ==
    jobs[j].kind = "run" /\ jobs[j].from = 0

\* Mutant of NextAfter: the event of the checkpoint is taken again.
NextFrom(sequence) == Max({sequence, 1})

NextAfter(sequence) == sequence + 1

\* getCurrentSequence and getBySequence: from here on the job has its events.
GetBySequence(j) ==
    /\ jobs[j].phase = "ranging"
    /\ IF jobs[j].from >= Len(log) \/ (NoCheckpoint(j) /\ Len(log) = 1)
       THEN /\ Go(j, Idle) /\ status' = Ended(j)
            /\ UNCHANGED <<payload, log, rows, checkpoint, trust>>
       ELSE IF NoCheckpoint(j) THEN Throw(j)
       ELSE /\ Go(j, At(j, "event", NextAfter(jobs[j].from), Len(log)))
            /\ UNCHANGED <<payload, log, rows, checkpoint, status, trust>>

-----------------------------------------------------------------------------
(***************************************************************************)
(* The handlers of the events.                                             *)
(***************************************************************************)
Put(ws, row) ==
    rows' = [w \in DOMAIN rows \cup {ws} |-> IF w = ws THEN row ELSE rows[w]]

Entry(f, n) == [id |-> f, at |-> n]

\* files.filter: those that are not f (kept[n]: what is left of the first n).
Without(files, f) ==
    LET kept[n \in 0 .. Len(files)] ==
            IF n = 0 THEN << >>
            ELSE IF files[n].id = f THEN kept[n - 1] ELSE Append(kept[n - 1], files[n])
    IN  kept[Len(files)]

\* The files of a row after event n.
UpdatedFiles(files, e, n) ==
    CASE e.type = "FileUploaded" -> Append(files, Entry(e.file, n))
      [] e.type = "FileModified" ->
            [i \in DOMAIN files |-> IF files[i].id = e.file THEN Entry(e.file, n) ELSE files[i]]
      [] e.type = "FileDeleted" -> Without(files, e.file)
      [] OTHER -> files

\* INSERT ... ON CONFLICT (id) DO UPDATE, which keeps files and activity.
\* The id and the realm are taken from the payload: the handler declares them
\* in it, the intent that appends the event leaves them out, and the columns
\* are NOT NULL.
HandleWorkspaceCreated(j) ==
    LET e == Current(j) IN
    /\ jobs[j].phase = "event" /\ e.type = "WorkspaceCreated"
    /\ IF payload = "emitted" THEN Throw(j)
       ELSE /\ Put(e.ws, IF e.ws \in DOMAIN rows THEN [rows[e.ws] EXCEPT !.version = 1]
                         ELSE [version |-> 1, files |-> << >>,
                               activity |-> jobs[j].next])
            /\ Go(j, Applied(j))
            /\ UNCHANGED <<payload, log, checkpoint, status, trust>>

\* UPDATE ... SET last_activity_at
HandleFunctionExecuted(j) ==
    LET e == Current(j) IN
    /\ jobs[j].phase = "event" /\ e.type = "FunctionExecuted"
    /\ IF e.ws \in DOMAIN rows
       THEN Put(e.ws, [rows[e.ws] EXCEPT !.activity = jobs[j].next])
       ELSE UNCHANGED rows
    /\ Go(j, Applied(j))
    /\ UNCHANGED <<payload, log, checkpoint, status, trust>>

\* SELECT files, version: no row, nothing to do.
ReadRow(j) ==
    LET e == Current(j) IN
    /\ jobs[j].phase = "event" /\ e.type \in Reading
    /\ Go(j, IF e.ws \in DOMAIN rows THEN Writing(j, rows[e.ws]) ELSE Applied(j))
    /\ UNCHANGED <<payload, log, rows, checkpoint, status, trust>>

\* version + 1, of a BIGINT, which node-postgres hands out as a string.
NextVersion(version) == 10 * version + 1

\* UPDATE of what was read.  The list of functions is written as JSON to an
\* array column, which refuses it; so does the version column what is too
\* large for it.
WriteRow(j) ==
    LET e == Current(j)  read == jobs[j].row IN
    /\ jobs[j].phase = "writing"
    /\ IF e.type = "FunctionRegistered" \/ NextVersion(read.version) > MaxVersion
       THEN Throw(j)
       ELSE /\ IF e.ws \in DOMAIN rows
               THEN Put(e.ws, [version |-> NextVersion(read.version),
                               files |-> UpdatedFiles(read.files, e, jobs[j].next),
                               activity |-> jobs[j].next])
               ELSE UNCHANGED rows
            /\ Go(j, Applied(j))
            /\ UNCHANGED <<payload, log, checkpoint, status, trust>>

\* Mutant of Reached: the checkpoint is the event that comes next.
ReachedNext(j) == jobs[j].next + 1

Reached(j) == jobs[j].next

\* updateCheckpoint, at once for an event of another kind.
UpdateCheckpoint(j) ==
    /\ \/ jobs[j].phase = "applied"
       \/ jobs[j].phase = "event" /\ Current(j).type = "Other"
    /\ checkpoint' = Reached(j)
    /\ IF jobs[j].next = jobs[j].upTo
       THEN Go(j, Idle) /\ status' = Ended(j)
       ELSE /\ Go(j, At(j, "event", jobs[j].next + 1, jobs[j].upTo))
            /\ UNCHANGED status
    /\ UNCHANGED <<payload, log, rows, trust>>

\* A query fails.
Fail(j) ==
    /\ Busy(j) /\ disturbances < MaxDisturbances
    /\ disturbances' = disturbances + 1
    /\ Throw(j)

\* The process ends and is started again.
Restart(p) ==
    LET mine == {j \in Jobs : Busy(j) /\ jobs[j].process = p} IN
    /\ disturbances < MaxDisturbances
    /\ disturbances' = disturbances + 1
    /\ jobs' = [j \in Jobs |-> IF j \in mine THEN Idle ELSE jobs[j]]
    /\ trust' = IF \E j \in mine : Interrupted(j) = "none" THEN "none"
                ELSE IF \E j \in mine : Interrupted(j) # trust THEN "as a set" ELSE trust
    /\ status' = [status EXCEPT ![p] = "running"]
    /\ UNCHANGED <<payload, log, rows, checkpoint>>

-----------------------------------------------------------------------------
Numbers(type, ws, file) ==
    {k \in DOMAIN log : log[k].type = type /\ log[k].ws = ws /\ log[k].file = file}

\* What the intent handlers append: identifiers are fresh, and a file that was
\* uploaded is modified and deleted.  The handlers look for a deletion long
\* before they append, so either may follow one.
Possible(e) ==
    CASE e.type = "WorkspaceCreated" -> Numbers(e.type, e.ws, None) = {}
      [] e.type = "FileUploaded" -> \A ws \in Workspaces : Numbers(e.type, ws, e.file) = {}
      [] e.type \in {"FileModified", "FileDeleted"} -> Numbers("FileUploaded", e.ws, e.file) # {}
      [] OTHER -> TRUE

AppendEvent(e) ==
    /\ Len(log) < MaxLog
    /\ Possible(e)
    /\ log' = Append(log, e)
    /\ UNCHANGED <<payload, rows, checkpoint, status, jobs, trust, disturbances>>

\* postgres-schema.sql numbers its genesis event 1 and sets the checkpoint to
\* 1; the checkpoint may be missing.
Init ==
    /\ payload \in Payloads
    /\ \E w \in Workspaces : log = <<Genesis(w)>>
    /\ rows = << >>
    /\ checkpoint \in {0, 1}
    /\ status = [p \in Processes |-> "running"]
    /\ jobs = [j \in Jobs |-> Idle]
    /\ trust = "exact"
    /\ disturbances = 0

JobStep(j) ==
    /\ UNCHANGED disturbances
    /\ \/ Truncate(j) \/ ResetCheckpoint(j) \/ GetCheckpoint(j) \/ GetBySequence(j)
       \/ HandleWorkspaceCreated(j) \/ HandleFunctionExecuted(j)
       \/ ReadRow(j) \/ WriteRow(j) \/ UpdateCheckpoint(j)

Next ==
    \/ \E j \in Jobs : JobStep(j) \/ Fail(j)
    \/ \E p \in Processes, j \in Jobs : ProcessNewEvents(p, j) \/ Rebuild(p, j)
    \/ \E p \in Processes : Restart(p)
    \/ \E e \in Event : AppendEvent(e)

Spec == Init /\ [][Next]_vars

\* A job goes on, and the timer of a manager fires again and again.
FairSpec ==
    /\ Spec
    /\ \A j \in Jobs : WF_vars(JobStep(j))
    /\ \A p \in Processes : SF_vars(\E j \in Jobs : ProcessNewEvents(p, j))

-----------------------------------------------------------------------------
(***************************************************************************)
(* Properties.                                                             *)
(***************************************************************************)
Row == [version : Nat, files : Seq([id : Files, at : 1 .. MaxLog]),
        activity : 1 .. MaxLog]

\* Types; the checkpoint and what a job has taken are in the log.
TypeOK ==
    /\ log \in Seq(Event \cup {Genesis(w) : w \in Workspaces}) /\ Len(log) <= MaxLog
    /\ DOMAIN rows \subseteq Workspaces /\ \A w \in DOMAIN rows : rows[w] \in Row
    /\ checkpoint \in 0 .. Len(log)
    /\ status \in [Processes -> {"running", "rebuilding", "error"}]
    /\ \A j \in Jobs :
          jobs[j].phase \in {"event", "writing", "applied"} =>
              1 <= jobs[j].next /\ jobs[j].next <= jobs[j].upTo /\ jobs[j].upTo <= Len(log)

\* What the events es say of workspace w after the first n of them.  What
\* comes before the creation is skipped.
Created(es, w, n) ==
    \E k \in 1 .. n : es[k].type = "WorkspaceCreated" /\ es[k].ws = w

About(es, w, n) == {k \in 1 .. n : es[k].ws = w /\ Created(es, w, k)}

\* The last of these events about file f, and the uploads of files that are
\* still there.
LastAbout(es, w, n, f) == Max({i \in About(es, w, n) : es[i].file = f})

Kept(es, w, n) ==
    {k \in About(es, w, n) :
        /\ es[k].type = "FileUploaded"
        /\ ~\E d \in k .. n : es[d].type = "FileDeleted" /\ es[d].file = es[k].file}

FilesAt(es, w, n) ==
    {Entry(es[k].file, LastAbout(es, w, n, es[k].file)) : k \in Kept(es, w, n)}

Changes(es, w, n) == {k \in About(es, w, n) : es[k].type \in FileEvents}

Ones[n \in Nat] == IF n = 0 THEN 0 ELSE 10 * Ones[n - 1] + 1

\* The row is what the log says after n events; its version has a digit for
\* every event that changed it.
RowIsAt(w, n) ==
    /\ rows[w].version = Ones[1 + Cardinality(Changes(log, w, n))]
    /\ rows[w].activity = Max({k \in About(log, w, n) : log[k].type # "Other"})
    /\ Len(rows[w].files) = Cardinality(FilesAt(log, w, n))
    /\ ToSet(rows[w].files) = FilesAt(log, w, n)

\* The event whose effect is in the table already and the checkpoint not yet.
Behind == {j \in Jobs : jobs[j].phase = "applied"}

Emptied == \E j \in Jobs : jobs[j].phase = "resetting"

\* The events of which the table may show the effect.
Shown == IF Behind = {} THEN Max({checkpoint, 1}) ELSE Max({jobs[j].next : j \in Behind})

\* As long as jobs do not overlap and none ends between an event and its
\* checkpoint, the table is what the log says up to the checkpoint.
FollowsLog ==
    trust = "exact" /\ ~Emptied =>
        /\ DOMAIN rows = {w \in Workspaces : Created(log, w, Shown)}
        /\ \A w \in DOMAIN rows : RowIsAt(w, Shown)

\* As long as jobs do not overlap, wherever they end: every workspace has its
\* files, and no other, in their latest version; at worst some appear twice.
FilesFollowLog ==
    trust # "none" /\ ~Emptied =>
        \A w \in Workspaces :
            IF w \in DOMAIN rows
            THEN \E n \in {Shown, Min({Shown + 1, Len(log)})} :
                    ToSet(rows[w].files) = FilesAt(log, w, n)
            ELSE ~Created(log, w, Shown)

\* Again and again the checkpoint is at the end of the log, unless every
\* manager is in error from some time on.
AllInError == \A p \in Processes : status[p] = "error"

CatchesUp == []<>(Max({checkpoint, 1}) = Len(log)) \/ <>[]AllInError

=============================================================================
