------------------------------- MODULE Narrative -------------------------------
(***************************************************************************)
(* The memory of the system: what is logged becomes memories               *)
(* (src/core/memory/logger.ts, narrative.ts), which are stored without     *)
(* anyone waiting for it, and stories are told of those that are there     *)
(* (story.ts).                                                             *)
(*                                                                         *)
(* And the loggers of a ledger (logger.ts; LogInit, LogNext): a factory    *)
(* makes the root, every other logger is the child of one, with its        *)
(* context but for what was asked, and all of them write to one array of   *)
(* outputs, one output after the other.  Whoever logs gets what an output  *)
(* throws.                                                                 *)
(*                                                                         *)
(* And the trajectory (src/core/trajectory; PathInit, PathNext): loggers   *)
(* of their own that keep traces until they are flushed, and the paths     *)
(* told from the traces that were saved.                                   *)
(***************************************************************************)
EXTENDS Naturals, Sequences, FiniteSets, SequencesExt, FiniteSetsExt

CONSTANTS
    Statuses,   \* what becomes of an agreement: its events, in their order
    Logged,     \* levels of the log calls
    MaxLogged,  \* bound: log calls
    MaxTime,    \* bound: time
    Configs,        \* the outputs a factory may start with: sequences of kinds
    Correlations,
    MaxOutputs,     \* bound: outputs
    MaxLoggers,     \* bound: loggers made
    MaxEntries,     \* bound: entries logged
    Tracers,        \* a logger of traces and its children: each has traces of its own
    Flushes,        \* calls of flush
    Levels,         \* levels that are traced
    MaxTraces,      \* bound: traces
    MaxDay          \* bound: days

VARIABLES
    clock,
    told,       \* events of the agreement so far
    calls,      \* log calls so far
    writing,    \* memories that were handed to the store
    memories,   \* memories the store has, in the order in which it has them
    crossed,    \* a memory was stored after one that was formed later
    lost,       \* a memory was not stored
    outputs,    \* sequence of kinds: "console", "json" or "memory"
    loggers,    \* sequence of contexts, the first the root's
    entries,    \* what was logged: [logger, level, data, outputs, correlation, span]
    written,    \* output |-> the numbers of the entries it has, in order
    day,        \* the day it is
    pending,    \* tracer |-> pendingTraces
    traced,     \* the traces there ever were
    flush,      \* flush |-> [of, pc, next, trace]: next is the place its loop is at
    saved,      \* the traces that were saved, in the order they were
    met,        \* tracers two flushes of which were under way at once
    broken      \* tracers a flush of which failed

vars == <<clock, told, calls, writing, memories, crossed, lost>>
logVars == <<outputs, loggers, entries, written>>

Priority ==
    [Trace |-> 0, Debug |-> 1, Info |-> 2, Notice |-> 3,
     Warning |-> 4, Error |-> 5, Critical |-> 6, Milestone |-> 7]

Final == {"Fulfilled", "Terminated", "Breached", "Expired"}

-----------------------------------------------------------------------------
(* Memories: id counts them, event is the event one is of, cause the event *)
(* that its command id names, and 0 is none.                               *)

MapLevelToCategory(level) ==
    CASE level \in {"Error", "Critical"} -> "Anomaly"
      [] level = "Milestone" -> "Milestone"
      [] OTHER -> "Observation"

DetermineSignificance(status) == IF status = "Draft" THEN "Notice" ELSE "Info"
ClassifyEvent(status) == IF status = "Draft" THEN "Lifecycle" ELSE "Relationship"

\* AgreementCreated carries no status, AgreementStatusChanged the new one.
Carried(status) == IF status = "Draft" THEN "" ELSE status

\* what is the type of an event, or the message of a log call, which is named
\* for its level; keep is a number of days.
Memory(category, level, status, event, cause, what, alert, keep) ==
    [id |-> calls + told + 1, time |-> clock, category |-> category, level |-> level,
     status |-> Carried(status), event |-> event, cause |-> cause,
     what |-> what, alert |-> alert, keep |-> keep]

Type(status) == IF status = "Draft" THEN "AgreementCreated" ELSE "AgreementStatusChanged"

\* Agreements are kept for seven years, and none of these events alerts.
FromEvent(status, cause) ==
    Memory(ClassifyEvent(status), DetermineSignificance(status), status, told + 1, cause,
           Type(status), FALSE, 2555)

\* Mutant of ObservationAlerts: what is below a warning.
ObservationAlertsLow(level) == level \in {"Info", "Notice"}

\* Not what is critical.
ObservationAlerts(level) == level \in {"Warning", "Error"}

Observe(level, status) ==
    Memory(MapLevelToCategory(level), level, status, 0, 0,
           IF status = "" THEN level ELSE status, ObservationAlerts(level), 30)

\* A log call with an error: it is recoverable unless it is critical.
Anomaly(level) ==
    Memory("Anomaly", level, "", 0, 0, level, TRUE, IF level = "Critical" THEN 365 ELSE 90)

Forever == 100000

Milestone == Memory("Milestone", "Milestone", "", 0, 0, "Milestone", TRUE, Forever)

\* What is formed of an entry of the log.
Formed(level) ==
    CASE level = "Milestone" -> {Milestone}
      [] level \in {"Error", "Critical"} -> {Observe(level, ""), Anomaly(level)}
      [] OTHER -> {Observe(level, "")}

Init ==
    /\ clock = 1
    /\ told = 0
    /\ calls = 0
    /\ writing = {}
    /\ memories = <<>>
    /\ crossed = FALSE
    /\ lost = FALSE

Tick ==
    /\ clock < MaxTime
    /\ clock' = clock + 1
    /\ UNCHANGED <<told, calls, writing, memories, crossed, lost>>

\* The output does not wait for the store.
Write(m) == writing' = writing \cup {m}

\* A log call: nothing below Info is remembered.
Log(level) ==
    /\ calls < MaxLogged
    /\ calls' = calls + 1
    /\ IF Priority[level] < 2 THEN UNCHANGED writing ELSE \E m \in Formed(level) : Write(m)
    /\ UNCHANGED <<clock, told, memories, crossed, lost>>

\* An event through the logger: the output forms a memory of the entry, not
\* the one the logger has formed of the event.
LogEvent ==
    /\ told < Len(Statuses)
    /\ told' = told + 1
    /\ Write(Observe(DetermineSignificance(Statuses[told + 1]), Statuses[told + 1]))
    /\ UNCHANGED <<clock, calls, memories, crossed, lost>>

\* Or formed from the event, with what caused it, and stored.
Remember ==
    /\ told < Len(Statuses)
    /\ told' = told + 1
    /\ \E cause \in 0 .. told : Write(FromEvent(Statuses[told + 1], cause))
    /\ UNCHANGED <<clock, calls, memories, crossed, lost>>

Store(m) ==
    /\ m \in writing
    /\ writing' = writing \ {m}
    /\ memories' = memories \o <<m>>
    /\ crossed' = (crossed \/ \E k \in ToSet(memories) : k.id > m.id)
    /\ UNCHANGED <<clock, told, calls, lost>>

\* Nobody hears of it.
Lose(m) ==
    /\ m \in writing
    /\ writing' = writing \ {m}
    /\ lost' = TRUE
    /\ UNCHANGED <<clock, told, calls, memories, crossed>>

Next ==
    \/ Tick
    \/ \E level \in Logged : Log(level)
    \/ LogEvent
    \/ Remember
    \/ \E m \in writing : Store(m) \/ Lose(m)

Spec == Init /\ [][Next]_vars

-----------------------------------------------------------------------------
(* Stories.                                                                *)

\* Mutant of GetMaxSignificance: the last one is taken for the highest.
GetMaxSignificanceLast(ms) == Last(ms).level

GetMaxSignificance(ms) ==
    CHOOSE level \in {m.level : m \in ToSet(ms)} :
        \A m \in ToSet(ms) : Priority[m.level] <= Priority[level]

\* By the key of each memory, in the order in which a key is first met.
Groups(ms, key) ==
    LET firsts == SelectSeq([i \in DOMAIN ms |-> i],
                            LAMBDA i : \A j \in 1 .. i - 1 : key[ms[j]] # key[ms[i]])
    IN [i \in DOMAIN firsts |->
           LET title == key[ms[firsts[i]]]
               of == SelectSeq(ms, LAMBDA m : key[m] = title)
           IN [title |-> title, memories |-> of, significance |-> GetMaxSignificance(of)]]

GroupIntoChapters(ms, by) ==
    Groups(ms, [m \in ToSet(ms) |->
                   CASE by = "phase" -> IF m.status # "" THEN m.status ELSE m.category
                     [] by = "category" -> m.category
                     [] by = "day" -> m.time])

\* Mutant of GroupByGranularity: the periods as they are met.
GroupByGranularityAsMet(ms) == Groups(ms, [m \in ToSet(ms) |-> m.time])

\* The periods of a timeline are sorted.
GroupByGranularity(ms) ==
    SortSeq(Groups(ms, [m \in ToSet(ms) |-> m.time]), LAMBDA a, b : a.title < b.title)

FindHighlights(ms) ==
    LET of == SelectSeq(ms, LAMBDA m : Priority[m.level] >= 3)
    IN SubSeq(of, 1, Min({Len(of), 10}))

GenerateSummary(ms) ==
    [total |-> Len(ms),
     duration |-> IF ms = <<>> THEN 0 ELSE Last(ms).time - Head(ms).time,
     categories |-> [c \in {m.category : m \in ToSet(ms)} |->
                        Len(SelectSeq(ms, LAMBDA m : m.category = c))]]

\* What has occurred so often, with the first three occasions.
FindPatternsInMemories(ms, minOccurrences) ==
    LET of(what) == SelectSeq(ms, LAMBDA m : m.what = what)
    IN {[name |-> what, occurrences |-> Len(of(what)),
         examples |-> SubSeq(of(what), 1, Min({3, Len(of(what))}))] :
            what \in {m.what : m \in {x \in ToSet(ms) : Len(of(x.what)) >= minOccurrences}}}

TellEntityStory(ms, by) ==
    [chapters |-> GroupIntoChapters(ms, by), highlights |-> FindHighlights(ms),
     summary |-> GenerateSummary(ms), patterns |-> FindPatternsInMemories(ms, 3)]

\* Mutant of InRange: the end is not asked for.
InRangeAfter(m, from, to) == m.time >= from

InRange(m, from, to) == m.time \in from .. to

\* The story of a period is over when its end has passed.
TellPeriodStory(from, to) ==
    LET ms == SelectSeq(memories, LAMBDA m : InRange(m, from, to))
    IN [chapters |-> GroupIntoChapters(ms, "day"), highlights |-> FindHighlights(ms),
        patterns |-> FindPatternsInMemories(ms, 3),
        total |-> Len(ms), milestones |-> Len(SelectSeq(ms, LAMBDA m : m.level = "Milestone")),
        anomalies |-> Len(SelectSeq(ms, LAMBDA m : m.category = "Anomaly")),
        status |-> IF to > clock THEN "Ongoing" ELSE "Concluded"]

GetTimeline(ms) == [periods |-> GroupByGranularity(ms), total |-> Len(ms)]

\* Mutant of DetermineAgreementStatus: the first status there is.
DetermineAgreementStatusFirst(ms) ==
    IF ms # <<>> /\ Head(ms).status \in Final THEN "Concluded" ELSE "Ongoing"

DetermineAgreementStatus(ms) ==
    CASE ms = <<>> -> "Abandoned"
      [] ms # <<>> /\ Last(ms).status \in Final -> "Concluded"
      [] OTHER -> "Ongoing"

\* How it ended, by the last memory alone.
FindConclusion(ms) ==
    IF ms = <<>> \/ Last(ms).status \notin Final THEN "none"
    ELSE [Fulfilled |-> "Success", Terminated |-> "Neutral", Breached |-> "Failure",
          Expired |-> "Neutral"][Last(ms).status]

\* What the summary of an agreement tells, by the first memory of each.
GenerateAgreementSummary(ms) ==
    LET ends == SelectSeq(ms, LAMBDA m : m.status \in Final)
    IN [activated |-> \E m \in ToSet(ms) : m.status = "Active",
        concluded |-> IF ends = <<>> THEN "none" ELSE Head(ends).status]

\* The phases of an agreement story: what has another status is in none, and
\* the chapters of any entity are told only where there is no phase.
Phases == <<"Draft", "Proposed", "Negotiation", "Active", "Conclusion">>
TellAgreementStory(ms) ==
    LET phases == SelectSeq([i \in DOMAIN Phases |->
                                [title |-> Phases[i],
                                 memories |-> SelectSeq(ms, LAMBDA m : m.status = Phases[i])]],
                            LAMBDA c : c.memories # <<>>)
    IN [chapters |-> IF phases # <<>> THEN phases ELSE GroupIntoChapters(ms, "phase"),
        status |-> DetermineAgreementStatus(ms), conclusion |-> FindConclusion(ms),
        summary |-> GenerateAgreementSummary(ms)]

ByEvent(event) == {m \in ToSet(memories) : m.event = event /\ event # 0}

\* Mutant of TraceCausation: the causes in the order they are found.
TraceCausationBack(m) ==
    LET back[k \in Nat] == IF ByEvent(k) = {} THEN <<>>
                           ELSE LET c == CHOOSE x \in ByEvent(k) : TRUE IN <<c>> \o back[c.cause]
    IN back[m.cause]

\* The causes of a memory, first the one that has none or is not there.
TraceCausation(m) ==
    LET back[k \in Nat] == IF ByEvent(k) = {} THEN <<>>
                           ELSE LET c == CHOOSE x \in ByEvent(k) : TRUE IN back[c.cause] \o <<c>>
    IN back[m.cause]

RootCause(m) == LET causes == TraceCausation(m) IN IF causes = <<>> THEN m ELSE Head(causes)

-----------------------------------------------------------------------------
TypeOK ==
    /\ clock \in 1 .. MaxTime
    /\ told \in 0 .. Len(Statuses)
    /\ \A m \in writing \cup ToSet(memories) :
           m.id \in 1 .. calls + told /\ m.level \in DOMAIN Priority

(***************************************************************************)
(* Stories are whole: every memory is in one chapter, in one period and    *)
(* counted in one category, whichever order they were stored in, a chapter *)
(* is as significant as what is in it, periods follow each other, errors   *)
(* are highlights, and a story lasts as long as there was between its      *)
(* first memory and its last, unless they were stored out of turn.         *)
(***************************************************************************)
StoriesAreWhole ==
    LET whole(groups) ==
            LET in == [i \in DOMAIN groups |-> ToSet(groups[i].memories)] IN
            /\ UNION {in[i] : i \in DOMAIN groups} = ToSet(memories)
            /\ \A i, j \in DOMAIN groups : i < j => in[i] \cap in[j] = {}
        timeline == GetTimeline(memories)
        times == {m.time : m \in ToSet(memories)}
        story == TellEntityStory(memories, "category")
    IN /\ \A by \in {"phase", "category", "day"} :
              LET chapters == GroupIntoChapters(memories, by) IN
              /\ whole(chapters)
              /\ \A i \in DOMAIN chapters : \A m \in ToSet(chapters[i].memories) :
                     Priority[m.level] <= Priority[chapters[i].significance]
       /\ {m \in ToSet(memories) : Priority[m.level] > 4} \subseteq ToSet(story.highlights)
       /\ \A c \in DOMAIN story.summary.categories :
              \E i \in DOMAIN story.chapters :
                  Len(story.chapters[i].memories) = story.summary.categories[c]
       /\ ~crossed /\ memories # <<>> => story.summary.duration = Max(times) - Min(times)
       /\ whole(timeline.periods)
       /\ {timeline.total, story.summary.total} = {Len(memories)}
       /\ \A i, j \in DOMAIN timeline.periods :
              i < j => timeline.periods[i].title < timeline.periods[j].title

(***************************************************************************)
(* The story of an agreement says that it has ended when it has, if its    *)
(* end is the last that was remembered: a later line in the log, a memory  *)
(* stored out of turn or one that is lost without notice make it go on.    *)
(* It never says so before.  It tells how it ended when it says that it    *)
(* has, and its summary tells of the end even when the story goes on.      *)
(***************************************************************************)
EndIsTold ==
    LET ended == told > 0 /\ Statuses[told] \in Final
        story == TellAgreementStory(memories)
    IN /\ story.status = "Concluded" => ended
       /\ story.status = "Concluded" <=> story.conclusion # "none"
       /\ story.conclusion # "none" => story.summary.concluded # "none"
       /\ story.summary.concluded # "none" => ended
       /\ ended /\ writing = {} /\ ~crossed /\ ~lost /\ Last(memories).status # "" =>
              story.status = "Concluded"

(***************************************************************************)
(* The story of a period has what was remembered in it and nothing else:   *)
(* stories of all periods that follow each other tell every memory once,   *)
(* and every anomaly and milestone.                                        *)
(***************************************************************************)
PeriodsAddUp ==
    LET story == [d \in 1 .. MaxTime |-> TellPeriodStory(d, d)]
        all == TellPeriodStory(1, MaxTime)
        told1(field) == FoldLeft(LAMBDA n, d : n + story[d][field], 0, [d \in 1 .. MaxTime |-> d])
    IN /\ told1("total") = Len(memories)
       /\ \A field \in {"anomalies", "milestones"} : told1(field) = all[field]
       /\ \A p \in all.patterns : p.occurrences >= 3 /\ Len(p.examples) = 3

(***************************************************************************)
(* Of the memories of log calls, one that alerts is kept at least as long  *)
(* as one that does not, and of two that came with an error the graver is. *)
(* (What is critical does not alert if it came without an error.)          *)
(***************************************************************************)
AlertsOutlast ==
    \A m, n \in {x \in ToSet(memories) : x.event = 0} :
        /\ m.alert /\ ~n.alert => m.keep >= n.keep
        /\ m.keep > 30 /\ Priority[m.level] >= Priority[n.level] => m.keep >= n.keep
        /\ m.level = "Error" => m.alert

(***************************************************************************)
(* The causes of a memory lead to it: each is of the event the next one    *)
(* names, and the first names none, or one of which no memory was stored.  *)
(***************************************************************************)
CausesLeadHere ==
    \A m \in ToSet(memories) :
        LET causes == TraceCausation(m) \o <<m>> IN
        /\ \A i \in 1 .. Len(causes) - 1 :
               causes[i].event = causes[i + 1].cause /\ causes[i].id < causes[i + 1].id
        /\ ByEvent(RootCause(m).cause) = {}

-----------------------------------------------------------------------------
(* Loggers.                                                                *)

None == "none"

\* from is the logger it was made of and by the call that made it;
\* had is how many outputs there were then.
Root ==
    [correlation |-> "root", span |-> None, parent |-> None, from |-> 0, by |-> "factory", had |-> Len(outputs)]

Child(l, by, context) ==
    [correlation |-> context.correlation, span |-> context.span, parent |-> context.parent,
     from |-> l, by |-> by, had |-> Len(outputs)]

Derive(l, by, context) ==
    /\ Len(loggers) < MaxLoggers
    /\ loggers' = Append(loggers, Child(l, by, context))
    /\ UNCHANGED <<outputs, entries, written>>

WithCorrelation(l) ==
    \E c \in Correlations :
        Derive(l, "withCorrelation", [loggers[l] EXCEPT !.correlation = c])

\* Mutant of ParentOf: the span stays beside the one of the logger.
SiblingOf(l, given) == IF given = None THEN loggers[l].parent ELSE given

\* The parent is the one given, or the span that was open.
ParentOf(l, given) == IF given = None THEN loggers[l].span ELSE given

\* A new span, named here by the logger it is of.
WithSpan(l) ==
    \E given \in {None, "given"} :
        Derive(l, IF given = None THEN "withSpan" ELSE "given",
               [loggers[l] EXCEPT !.span = ToString(Len(loggers) + 1), !.parent = ParentOf(l, given)])

\* withActor, withIntent and withTags, and forDomain and forActor of the root.
WithOther(l) == Derive(l, "child", loggers[l])

\* Mutant of ForRequest: with the context of the logger made last.
ForRequestOfLast ==
    \E c \in Correlations : Derive(1, "forRequest", [Last(loggers) EXCEPT !.correlation = c])

ForRequest ==
    \E c \in Correlations : Derive(1, "forRequest", [loggers[1] EXCEPT !.correlation = c])

-----------------------------------------------------------------------------
(* Outputs.                                                                *)

\* Data with a bigint, as events have, is no JSON.
Throws(kind, entry) == entry.data = "bigint" /\ kind \in {"console", "json"}

\* The console has printed the line of an entry before its data throws.
Keeps(kind, entry) ==
    CASE kind = "console" -> TRUE
      [] kind = "json" -> ~Throws(kind, entry)
      [] kind = "memory" -> entry.level \notin {"Trace", "Debug"}

\* Mutant of OutputsOf: a logger has its own copy.
OutputsWhenMade(l) == SubSeq(outputs, 1, loggers[l].had)

\* All loggers share the array of the factory.
OutputsOf(l) == outputs

\* Mutant of Reached: what an output throws is left to it.
ReachesAll(l, entry) == Len(OutputsOf(l))

\* How many outputs see an entry: the first that throws is the last.
Reached(l, entry) ==
    Min({i \in DOMAIN OutputsOf(l) : Throws(OutputsOf(l)[i], entry)} \cup {Len(OutputsOf(l))})

WriteEntry(l, level, data) ==
    LET entry == [logger |-> l, level |-> level, data |-> data, outputs |-> Len(outputs),
                  correlation |-> loggers[l].correlation, span |-> loggers[l].span] IN
    /\ Len(entries) < MaxEntries
    /\ entries' = Append(entries, entry)
    /\ written' = [i \in DOMAIN written |->
           IF i <= Reached(l, entry) /\ Keeps(outputs[i], entry)
           THEN Append(written[i], Len(entries) + 1) ELSE written[i]]
    /\ UNCHANGED <<outputs, loggers>>

\* trace to fatal, milestone, decision and relationship; and the function
\* that time returns, whose entry has no data.
LogEntry(l) ==
    \/ \E level \in {"Debug", "Notice"}, data \in {"plain", "bigint"} : WriteEntry(l, level, data)
    \/ WriteEntry(l, "Debug", None)

-----------------------------------------------------------------------------
LogInit ==
    /\ outputs \in Configs
    /\ loggers = <<Root>>
    /\ entries = <<>>
    /\ written = [i \in DOMAIN outputs |-> <<>>]

\* Mutant of AddOutput: before those there are.
AddFirst(kind) ==
    /\ Len(outputs) < MaxOutputs
    /\ outputs' = <<kind>> \o outputs
    /\ written' = <<<<>>>> \o written
    /\ UNCHANGED <<loggers, entries>>

AddOutput(kind) ==
    /\ Len(outputs) < MaxOutputs
    /\ outputs' = Append(outputs, kind)
    /\ written' = Append(written, <<>>)
    /\ UNCHANGED <<loggers, entries>>

LogNext ==
    \/ ForRequest
    \/ \E l \in DOMAIN loggers :
           \/ WithCorrelation(l)
           \/ WithSpan(l)
           \/ WithOther(l)
           \/ LogEntry(l)
    \/ \E kind \in {"json", "memory"} : AddOutput(kind)

LogSpec == LogInit /\ [][LogNext]_logVars

-----------------------------------------------------------------------------
LogTypeOK ==
    /\ outputs \in Seq({"console", "json", "memory"})
    /\ DOMAIN written = DOMAIN outputs
    /\ \A i \in DOMAIN loggers :
           /\ loggers[i].from < i
           /\ loggers[i].correlation \in Correlations \cup {"root"}
    /\ \A i \in DOMAIN written : \A j \in DOMAIN written[i] : written[i][j] \in DOMAIN entries

\* The logger itself and those it was made of, one of the other.
Lineage(l) ==
    LET line[i \in 0..Len(loggers)] == IF i = 0 THEN {} ELSE {i} \cup line[loggers[i].from]
    IN line[l]

\* The last of a logger's lineage that one of the calls made, or 0.
LastBy(l, ways) == Max({i \in Lineage(l) : loggers[i].by \in ways} \cup {0})

\* Of what is logged below a request all bears the correlation the request
\* was given, unless another was given further down (forRequest, child).
RequestsAreCorrelated ==
    \A n \in DOMAIN entries :
        LET given == LastBy(entries[n].logger, {"forRequest", "withCorrelation"}) IN
        entries[n].correlation = (IF given = 0 THEN "root" ELSE loggers[given].correlation)

\* Spans nest: the parent of a span that was opened without one is the span
\* open in the logger it was opened on, whatever was derived between, and a
\* logger for a request begins outside of all spans (withSpan, forRequest).
SpansNest ==
    \A l \in DOMAIN loggers :
        LET opener == LastBy(l, {"withSpan", "given"})
            above == IF opener = 0 THEN 0
                     ELSE LastBy(loggers[opener].from, {"withSpan", "given"}) IN
        IF opener = 0 THEN loggers[l].span = None
        ELSE loggers[opener].by = "withSpan" =>
                 loggers[l].parent = (IF above = 0 THEN None ELSE loggers[above].span)

\* Every output has each entry there was an output for, whichever logger
\* wrote it and whenever the output was added, but what it does not take and
\* what an output before it could not write (log, addOutput).
OutputsMissNothing ==
    \A n \in DOMAIN entries : \A i \in 1..entries[n].outputs :
        \/ \E j \in DOMAIN written[i] : written[i][j] = n
        \/ ~Keeps(outputs[i], entries[n])
        \/ \E j \in 1..(i - 1) : Throws(outputs[j], entries[n])

\* An output has an entry only after every output before it: a memory is
\* formed only of what the console and the JSON stream have (log).
OutputsInOrder ==
    \A i \in DOMAIN written : \A n \in ToSet(written[i]) : \A j \in 1..(i - 1) :
        \/ n \in ToSet(written[j])
        \/ outputs[j] = "memory" /\ ~Keeps("memory", entries[n])
        \/ j > entries[n].outputs

-----------------------------------------------------------------------------
(***************************************************************************)
(* The trajectory: loggers that keep traces until they are flushed         *)
(* (src/core/trajectory/logger.ts), the traces they form (trace.ts) and    *)
(* the paths told from the traces that were saved (path.ts).  A flush      *)
(* waits for the store after each trace, while more is traced, and another *)
(* flush may come before it has ended.                                     *)
(***************************************************************************)
pathVars == <<day, pending, traced, flush, saved, met, broken>>

LevelToSignificance ==
    [trace |-> "Debug", debug |-> "Debug", info |-> "Routine", warn |-> "Notable",
     error |-> "Important", fatal |-> "Critical", milestone |-> "Important",
     decision |-> "Notable"]

\* Who a trace is for: observations are for developers, milestones are not.
Viewers(level) == IF level = "milestone" THEN {"Business", "Operator"} ELSE {"Developer"}

\* Observations are of one type, a milestone is of the type it is named for.
TypeOf(level) == IF level = "milestone" THEN "milestone" ELSE "observation"

Idle == [of |-> "none", pc |-> "idle", next |-> 0, trace |-> 0]

PathInit ==
    /\ day = 1
    /\ pending = [l \in Tracers |-> <<>>]
    /\ traced = {}
    /\ flush = [f \in Flushes |-> Idle]
    /\ saved = <<>>
    /\ met = {}
    /\ broken = {}

NewDay ==
    /\ day < MaxDay
    /\ day' = day + 1
    /\ UNCHANGED <<pending, traced, flush, saved, met, broken>>

Trace(l, level) ==
    LET trace == [id |-> Cardinality(traced) + 1, of |-> l, day |-> day,
                  type |-> TypeOf(level),
                  significance |-> LevelToSignificance[level], viewers |-> Viewers(level)]
    IN /\ Cardinality(traced) < MaxTraces
       /\ pending' = [pending EXCEPT ![l] = @ \o <<trace>>]
       /\ traced' = traced \cup {trace}
       /\ UNCHANGED <<day, flush, saved, met, broken>>

UnderWay(f) == flush[f].pc \in {"saving", "saved"}

\* The loop is over the array itself: it ends where the array then ends.
Continue(f, l, next) ==
    IF next <= Len(pending[l])
    THEN /\ flush' = [flush EXCEPT ![f] = [of |-> l, pc |-> "saving", next |-> next,
                                           trace |-> pending[l][next]]]
         /\ UNCHANGED pending
    ELSE /\ flush' = [flush EXCEPT ![f].pc = "done"]
         /\ pending' = [pending EXCEPT ![l] = <<>>]

\* Mutant of Flush: the traces are taken out before they are saved.
FlushTaking(f, l) ==
    /\ flush[f].pc = "idle"
    /\ pending[l] # <<>>
    /\ flush' = [flush EXCEPT ![f] = [of |-> l, pc |-> "saving", next |-> 1,
                                      trace |-> pending[l][1]]]
    /\ pending' = [pending EXCEPT ![l] = Tail(@)]
    /\ met' = IF \E g \in Flushes : UnderWay(g) /\ flush[g].of = l THEN met \cup {l} ELSE met
    /\ UNCHANGED <<day, traced, saved, broken>>

Flush(f, l) ==
    /\ flush[f].pc = "idle"
    /\ pending[l] # <<>>
    /\ Continue(f, l, 1)
    /\ met' = IF \E g \in Flushes : UnderWay(g) /\ flush[g].of = l THEN met \cup {l} ELSE met
    /\ UNCHANGED <<day, traced, saved, broken>>

Save(f) ==
    /\ flush[f].pc = "saving"
    /\ saved' = saved \o <<flush[f].trace>>
    /\ flush' = [flush EXCEPT ![f].pc = "saved"]
    /\ UNCHANGED <<day, pending, traced, met, broken>>

\* Mutant of Resume: what was saved stays with what is pending.
ResumeKeeping(f) ==
    /\ flush[f].pc = "saved"
    /\ IF flush[f].next < Len(pending[flush[f].of])
       THEN Continue(f, flush[f].of, flush[f].next + 1)
       ELSE flush' = [flush EXCEPT ![f].pc = "done"] /\ UNCHANGED pending
    /\ UNCHANGED <<day, traced, saved, met, broken>>

Resume(f) ==
    /\ flush[f].pc = "saved"
    /\ Continue(f, flush[f].of, flush[f].next + 1)
    /\ UNCHANGED <<day, traced, saved, met, broken>>

\* save throws, with or without the trace in the store: so does flush, and
\* everything stays pending.
Fail(f) ==
    /\ UnderWay(f)
    /\ flush' = [flush EXCEPT ![f].pc = "thrown"]
    /\ broken' = broken \cup {flush[f].of}
    /\ UNCHANGED <<day, pending, traced, saved, met>>

PathNext ==
    \/ NewDay
    \/ \E l \in Tracers :
           \/ \E level \in Levels : Trace(l, level)
           \/ \E f \in Flushes : Flush(f, l)
    \/ \E f \in Flushes : Save(f) \/ Resume(f) \/ Fail(f)

PathSpec == PathInit /\ [][PathNext]_pathVars

-----------------------------------------------------------------------------
(* A path over the traces, as the store gives them.                        *)

\* Mutant of GroupIntoSegments: a new segment where the day changes.
GroupIntoSegmentsInTurn(traces) ==
    FoldLeft(LAMBDA segments, t :
                 IF segments # <<>> /\ Last(segments).day = t.day
                 THEN [segments EXCEPT ![Len(segments)].traces = @ \o <<t>>]
                 ELSE segments \o <<[day |-> t.day, traces |-> <<t>>]>>,
             <<>>, traces)

\* One for each day, in the order in which the days are first met.
GroupIntoSegments(traces) ==
    LET firsts == SelectSeq([i \in DOMAIN traces |-> i],
                            LAMBDA i : \A j \in 1 .. i - 1 : traces[j].day # traces[i].day)
    IN [i \in DOMAIN firsts |->
           LET first == traces[firsts[i]]
           IN [day |-> first.day, traces |-> SelectSeq(traces, LAMBDA t : t.day = first.day)]]

PathHighlights(traces) ==
    SelectSeq(traces, LAMBDA t : t.significance \in {"Critical", "Important"})

\* Mutant of DetectPatterns: what came once is a pattern.
DetectPatternsOnce(traces) ==
    {[type |-> type, examples |-> SelectSeq(traces, LAMBDA t : t.type = type)] :
        type \in {t.type : t \in ToSet(traces)}}

\* The types that occur more than once.
DetectPatterns(traces) ==
    LET of(type) == SelectSeq(traces, LAMBDA t : t.type = type)
    IN {[type |-> t.type, examples |-> of(t.type)] : t \in {x \in ToSet(traces) : Len(of(x.type)) > 1}}

PathSummary(traces) ==
    [events |-> Len(traces),
     critical |-> Len(SelectSeq(traces, LAMBDA t : t.significance = "Critical")),
     important |-> Len(SelectSeq(traces, LAMBDA t : t.significance = "Important"))]

\* What the builder asks of the store: 0 for a day bounds nothing, and then
\* the other one does not either.
Query(viewer, from, to) ==
    SelectSeq(saved, LAMBDA t : /\ viewer = "any" \/ viewer \in t.viewers
                                /\ from = 0 \/ to = 0 \/ t.day \in from .. to)

Build(viewer, from, to) ==
    LET traces == Query(viewer, from, to)
    IN [segments |-> GroupIntoSegments(traces), highlights |-> PathHighlights(traces),
        patterns |-> DetectPatterns(traces), summary |-> PathSummary(traces)]

\* What the guide tells: a period, and whatever there is of any process and
\* of anything else that is asked for.
SummarizePeriod(from, to) == Build("any", from, to)
TraceProcess == Build("any", 0, 0)
WhatHappened == Build("any", 0, 0)

-----------------------------------------------------------------------------
Saved(t) == Cardinality({i \in DOMAIN saved : saved[i].id = t.id})

PathTypeOK ==
    /\ \A l \in Tracers : ToSet(pending[l]) \subseteq {t \in traced : t.of = l}
    /\ ToSet(saved) \subseteq traced
    /\ \A f \in Flushes : UnderWay(f) => flush[f].trace \in traced

(***************************************************************************)
(* A trace is kept until it is saved, whatever is traced during a flush    *)
(* and whichever save fails.  (When two flushes of a logger are under way  *)
(* at once, the one that ends first empties the array under the other,     *)
(* which goes on from its place in what is traced next, and empties it.)   *)
(***************************************************************************)
KeptUntilSaved ==
    \A t \in traced : t.of \notin met => Saved(t) > 0 \/ Contains(pending[t.of], t)

(***************************************************************************)
(* And it is saved once, and after the ones its logger formed before it,   *)
(* when no flush of the logger failed or met another.                      *)
(***************************************************************************)
SavedInOrder ==
    \A i, j \in DOMAIN saved :
        /\ i < j /\ saved[i].of = saved[j].of
        /\ saved[i].of \notin met \cup broken
        => saved[i].id < saved[j].id

(***************************************************************************)
(* A path has each trace it asked for in the segment of its day, whichever *)
(* order they were saved in, and what is critical is among the highlights. *)
(***************************************************************************)
PathsAreWhole ==
    \A viewer \in {"any", "Developer", "Business"}, from \in 0 .. MaxDay, to \in 1 .. MaxDay :
        LET path == Build(viewer, from, to)
            asked == {t \in ToSet(saved) : /\ viewer \in t.viewers \cup {"any"}
                                           /\ from > 0 /\ to > 0 => t.day \in from .. to}
        IN /\ UNION {ToSet(path.segments[i].traces) : i \in DOMAIN path.segments} = asked
           /\ \A i, j \in DOMAIN path.segments :
                  path.segments[i].day = path.segments[j].day => i = j
           /\ {t \in asked : t.significance = "Critical"} \subseteq ToSet(path.highlights)

(***************************************************************************)
(* The guide counts alike: the summaries of all days add up to the one of  *)
(* everything, what is a pattern of a day is one of everything, and a      *)
(* summary tells of as many grave traces as there are highlights.  A       *)
(* pattern has come more than once, or was saved more than once.           *)
(***************************************************************************)
GuideAgrees ==
    LET path == [d \in 1 .. MaxDay |-> SummarizePeriod(d, d)]
        all == WhatHappened
        total(field) == FoldLeft(LAMBDA n, d : n + path[d].summary[field], 0, [d \in 1 .. MaxDay |-> d])
    IN /\ \A field \in DOMAIN all.summary : total(field) = TraceProcess.summary[field]
       /\ \A d \in 1 .. MaxDay :
              /\ path[d].summary.critical + path[d].summary.important = Len(path[d].highlights)
              /\ {p.type : p \in path[d].patterns} \subseteq {p.type : p \in all.patterns}
       /\ \A p \in all.patterns : Len(p.examples) > 1
=============================================================================
