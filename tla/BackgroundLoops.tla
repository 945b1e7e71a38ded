-------------------------- MODULE BackgroundLoops ---------------------------
(***************************************************************************)
(* The loops a process runs beside its requests: the job processor's,      *)
(* which takes jobs from a list, and the scheduler's, which looks for what *)
(* is due time and again. They share nothing: each has a specification of  *)
(* its own, in a section of its own.                                       *)
(***************************************************************************)
EXTENDS Naturals, Sequences, SequencesExt, FiniteSets

CONSTANTS
    \* The job processor.
    Jobs,
    \* The scheduler's loop.
    Starts,         \* calls of start
    MaxStops,       \* bound: calls of stop
    MaxChanges      \* bound: what is asked of the deadline and the task

VARIABLES
    \* The job processor.
    queue,      \* the jobs in the list, in order
    status,     \* job |-> its status in the list
    doing,      \* what the loop waits for, with the job and its outcome
    log,        \* the events of the jobs: [job, type, version]
    alive,
    \* The scheduler's loop.
    isRunning,
    tickInterval,   \* the timer the loop knows of, or None
    timers,         \* the timers that run, each named by the start it is of
    starts,         \* start |-> how far it has come
    deadline,       \* [state, acknowledged] of the deadline there is
    task,           \* state of the task there is, or "none"
    tick,           \* what the tick under way has read, or Idle
    calls,          \* how many stops, and changes of the data, were asked so far
    overtaken,      \* starts whose first tick was under way at a stop
    acknowledged    \* "no", "apart" or "met": how an acknowledgement met a tick

-----------------------------------------------------------------------------
(***************************************************************************)
(* The background worker of src/workers/job-processor.ts: one loop takes   *)
(* the first queued job of a list in memory, records that it has started,  *)
(* runs it and records what came of it.  An append that is not accepted in *)
(* the handler of a failure, or before the run, ends the loop and with it  *)
(* the process.  What puts jobs in the list is not in the repository.      *)
(***************************************************************************)
jobVars == <<queue, status, doing, log, alive>>

Polling == [at |-> "poll", job |-> 0, ok |-> FALSE]
At(place, job, ok) == [at |-> place, job |-> job, ok |-> ok]

-----------------------------------------------------------------------------
JobInit ==
    /\ queue = << >>
    /\ status = [j \in Jobs |-> "none"]
    /\ doing = Polling
    /\ log = << >>
    /\ alive = TRUE

\* A job that the list has lost may be put there again.
Enqueue(j) ==
    /\ alive /\ status[j] \in {"none", "lost"}
    /\ queue' = Append(queue, j)
    /\ status' = [status EXCEPT ![j] = "queued"]
    /\ UNCHANGED <<doing, log, alive>>

\* The first that is queued, marked before anything is awaited.
Take ==
    /\ alive /\ doing.at = "poll"
    /\ \E i \in DOMAIN queue :
           /\ status[queue[i]] = "queued" /\ \A k \in 1 .. i - 1 : status[queue[k]] # "queued"
           /\ status' = [status EXCEPT ![queue[i]] = "processing"]
           /\ doing' = At("start", queue[i], FALSE)
    /\ UNCHANGED <<queue, log, alive>>

\* The store refuses a version that its aggregate has.
Accepts(j, version) == \A i \in DOMAIN log : log[i].job = j => log[i].version < version
Event(j, type, version) == [job |-> j, type |-> type, version |-> version]

Dies == alive' = FALSE

JobStarted ==
    /\ alive /\ doing.at = "start"
    /\ \/ /\ Accepts(doing.job, 1)
          /\ log' = Append(log, Event(doing.job, "JobStarted", 1))
          /\ \/ doing' = At("run", doing.job, FALSE) /\ UNCHANGED alive
             \/ Dies /\ UNCHANGED doing
       \/ Dies /\ UNCHANGED <<log, doing>>
    /\ UNCHANGED <<queue, status>>

Run ==
    /\ alive /\ doing.at = "run"
    /\ \E ok \in BOOLEAN : doing' = At(IF ok THEN "completed" ELSE "failed", doing.job, ok)
    /\ UNCHANGED <<queue, status, log, alive>>

\* The outcome is recorded inside the try: an append that fails, or whose
\* answer is lost, is a failure of the job.
JobCompleted ==
    /\ alive /\ doing.at = "completed"
    /\ \/ /\ Accepts(doing.job, 2)
          /\ log' = Append(log, Event(doing.job, "JobCompleted", 2))
          /\ \/ doing' = Polling /\ status' = [status EXCEPT ![doing.job] = "completed"]
             \/ doing' = At("failed", doing.job, TRUE) /\ UNCHANGED status
       \/ doing' = At("failed", doing.job, TRUE) /\ UNCHANGED <<status, log>>
    /\ UNCHANGED <<queue, alive>>

\* Mutant of FailedVersion: a failure is the third event of its job.
FailedAfter == 3

FailedVersion == 2

\* The status is written after the append and by nothing else.
JobFailed ==
    /\ alive /\ doing.at = "failed"
    /\ \/ /\ Accepts(doing.job, FailedVersion)
          /\ log' = Append(log, Event(doing.job, "JobFailed", FailedVersion))
          /\ \/ doing' = Polling /\ status' = [status EXCEPT ![doing.job] = "failed"] /\ UNCHANGED alive
             \/ Dies /\ UNCHANGED <<doing, status>>
       \/ Dies /\ UNCHANGED <<log, doing, status>>
    /\ UNCHANGED queue

\* The process is started again: the list is empty, the log is there.
Restart ==
    /\ ~alive
    /\ alive' = TRUE /\ queue' = << >> /\ doing' = Polling
    /\ status' = [j \in Jobs |-> IF status[j] \in {"queued", "processing"} THEN "lost" ELSE status[j]]
    /\ UNCHANGED log

JobNext ==
    \/ \E j \in Jobs : Enqueue(j)
    \/ Take \/ JobStarted \/ Run \/ JobCompleted \/ JobFailed \/ Restart

JobSpec == JobInit /\ [][JobNext]_jobVars

-----------------------------------------------------------------------------
JobTypeOK ==
    /\ queue \in Seq(Jobs)
    /\ status \in [Jobs -> {"none", "queued", "processing", "completed", "failed", "lost"}]
    /\ doing.at \in {"poll", "start", "run", "completed", "failed"}
    /\ alive \in BOOLEAN

EventsOf(j) == SelectSeq(log, LAMBDA e : e.job = j)

(***************************************************************************)
(* The log has one outcome of a job at most, after its start, and the      *)
(* status that a job is left with is the outcome that the log has: when    *)
(* the answer to JobCompleted is lost the failure is refused, and the      *)
(* process ends rather than record both.                                   *)
(***************************************************************************)
OneOutcome ==
    \A j \in Jobs :
        /\ Len(EventsOf(j)) <= 2
        /\ EventsOf(j) # << >> => EventsOf(j)[1].type = "JobStarted"
        /\ status[j] = "completed" => Last(EventsOf(j)).type = "JobCompleted"
        /\ status[j] = "failed" => Last(EventsOf(j)).type = "JobFailed"

-----------------------------------------------------------------------------
(***************************************************************************)
(* The loop of a scheduler in one process                                  *)
(* (src/core/scheduling/scheduler-impl.ts): start runs a first tick and    *)
(* then makes the timer of the others, stop ends the timer; meanwhile      *)
(* callers acknowledge deadlines and schedule tasks, which no tick runs.   *)
(* What the ticks of several processes do is in DeadlineScheduler.         *)
(***************************************************************************)
loop == <<isRunning, tickInterval, timers, starts, overtaken>>
data == <<deadline, task, tick, acknowledged>>
loopVars == <<loop, data, calls>>

None == 0
Idle == [state |-> "none", acknowledged |-> FALSE]

LoopInit ==
    /\ isRunning = FALSE /\ tickInterval = None /\ timers = {}
    /\ starts = [c \in Starts |-> "idle"]
    /\ deadline = [state |-> "Pending", acknowledged |-> FALSE]
    /\ task = "none" /\ tick = Idle
    /\ calls = [stops |-> 0, changes |-> 0]
    /\ overtaken = {} /\ acknowledged = "no"

-----------------------------------------------------------------------------
(* The loop.                                                               *)

\* Mutant of MayStart: whether it runs already is not asked.
MayStartAgain == TRUE

MayStart == ~isRunning

Start(c) ==
    /\ starts[c] = "idle"
    /\ IF MayStart
       THEN isRunning' = TRUE /\ starts' = [starts EXCEPT ![c] = "ticking"]
       ELSE starts' = [starts EXCEPT ![c] = "returned"] /\ UNCHANGED isRunning
    /\ UNCHANGED <<tickInterval, timers, overtaken, data, calls>>

\* The timer is made without another look at isRunning.
FirstTickEnds(c) ==
    /\ starts[c] = "ticking"
    /\ starts' = [starts EXCEPT ![c] = "started"]
    /\ timers' = timers \cup {c}
    /\ tickInterval' = c
    /\ UNCHANGED <<isRunning, overtaken, data, calls>>

\* Without a database the first tick rejects, and so does start.
FirstTickFails(c) ==
    /\ starts[c] = "ticking"
    /\ starts' = [starts EXCEPT ![c] = "failed"]
    /\ UNCHANGED <<isRunning, tickInterval, timers, overtaken, data, calls>>

\* Mutant of Cleared: the timer is forgotten and goes on.
ClearedNone == timers

Cleared == timers \ {tickInterval}

Stop ==
    /\ calls.stops < MaxStops /\ calls' = [calls EXCEPT !.stops = @ + 1]
    /\ IF isRunning
       THEN /\ isRunning' = FALSE
            /\ timers' = Cleared
            /\ tickInterval' = None
            /\ overtaken' = overtaken \cup {c \in Starts : starts[c] = "ticking"}
       ELSE UNCHANGED <<isRunning, timers, tickInterval, overtaken>>
    /\ UNCHANGED <<starts, data>>

-----------------------------------------------------------------------------
(* Deadlines and tasks.                                                    *)

Change == calls.changes < MaxChanges /\ calls' = [calls EXCEPT !.changes = @ + 1]

\* A tick reads a deadline, runs its stages, which it awaits, and writes it
\* back with another state when it has become due.
TickReads ==
    /\ tick = Idle
    /\ timers # {} \/ \E c \in Starts : starts[c] = "ticking"
    /\ deadline.state = "Pending"
    /\ tick' = deadline
    /\ UNCHANGED <<loop, deadline, task, acknowledged, calls>>

\* Mutant of WrittenBack: its state alone.
WrittenBackBare == [state |-> "Due", acknowledged |-> FALSE]

WrittenBack == [tick EXCEPT !.state = "Due"]

TickWrites ==
    /\ tick # Idle
    /\ deadline' = WrittenBack
    /\ tick' = Idle
    /\ UNCHANGED <<loop, task, acknowledged, calls>>

\* Or it is not due yet.
TickLeaves == tick # Idle /\ tick' = Idle /\ UNCHANGED <<loop, deadline, task, acknowledged, calls>>

AcknowledgeDeadline ==
    /\ Change
    /\ deadline' = [deadline EXCEPT !.acknowledged = TRUE]
    /\ acknowledged' = (IF acknowledged = "apart" \/ tick = Idle THEN "apart" ELSE "met")
    /\ UNCHANGED <<loop, task, tick>>

\* schedule, cancel, pause and resume: a state is set whatever it was.
SetTask ==
    /\ Change
    /\ task' \in IF task = "none" THEN {"Pending"} ELSE {"Pending", "Cancelled", "Paused"}
    /\ UNCHANGED <<loop, deadline, tick, acknowledged>>

LoopNext ==
    \/ \E c \in Starts : Start(c) \/ FirstTickEnds(c) \/ FirstTickFails(c)
    \/ Stop
    \/ TickReads \/ TickWrites \/ TickLeaves
    \/ AcknowledgeDeadline \/ SetTask

LoopSpec == LoopInit /\ [][LoopNext]_loopVars

-----------------------------------------------------------------------------
LoopTypeOK ==
    /\ isRunning \in BOOLEAN
    /\ tickInterval \in timers \cup {None} /\ timers \subseteq Starts
    /\ starts \in [Starts -> {"idle", "ticking", "started", "failed", "returned"}]
    /\ deadline.state \in {"Pending", "Due"}
    /\ task \in {"none", "Pending", "Cancelled", "Paused"}

\* A loop that was stopped has no timer, but one for every start that a stop
\* overtook in its first tick: it makes its timer afterwards, and the loop
\* may forget another start's for it (stop, start).
StoppedIsSilent == ~isRunning => Cardinality(timers) <= Cardinality(overtaken)

\* The loop ticks at one rate, but for the starts that were overtaken.
OneTimer == Cardinality(timers) <= 1 + Cardinality(overtaken)

\* A loop that says it runs ticks, or will when its first tick has ended, or
\* its first tick failed: then no start helps before a stop (start).
RunningTicks ==
    isRunning => \/ timers # {}
                 \/ \E c \in Starts : starts[c] \in {"ticking", "failed"}

\* Who has acknowledged a deadline stays known, unless it was acknowledged
\* while a tick ran its stages (acknowledgeDeadline, processDueDeadlines).
AcknowledgedStays == acknowledged = "apart" => deadline.acknowledged
=============================================================================
