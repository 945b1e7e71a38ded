-------------------------- MODULE SagaCoordinator ---------------------------
(***************************************************************************)
(* The persistent saga coordinator (createPersistentSagaCoordinator).      *)
(*                                                                         *)
(* An execution lives in three places: a row of saga_executions, the       *)
(* SagaStateChanged events of the event store, and a cache in the process. *)
(* persistExecution writes the row and then appends the event, always with *)
(* version 1; loadExecution prefers the cache, and persistExecution never  *)
(* updates an entry of it.  A load that finds none asks the database and   *)
(* sets the entry when the answer comes, whatever it holds by then: of two *)
(* loads that both missed, the later replaces what the earlier has filled. *)
(* advance and compensate call each other inside advance's try block, so   *)
(* what an inner call throws is caught by the one around it.               *)
(*                                                                         *)
(* The steps of the saga, the pool and the event store are external.  The  *)
(* pool hands a JSONB column out as text or, as node-postgres does by      *)
(* default, parsed, and then the JSON.parse of loadExecution throws.  The  *)
(* event store is one that compares versions ("postgres") or does not      *)
(* ("memory").                                                             *)
(***************************************************************************)
EXTENDS Naturals, Sequences

CONSTANTS
    Executions,     \* the ids start may generate
    NumSteps,       \* saga.steps.length
    StepResults,    \* what a step may return: [success, data]
    Calls,          \* calls in flight of one process
    Platforms,      \* [store, jsonb]: the platforms it may run on
    MaxDepth        \* bound: advances inside one another

ASSUME SagaAssumption ==
    /\ NumSteps \in Nat
    /\ StepResults \subseteq [success : BOOLEAN, data : BOOLEAN]
    /\ MaxDepth \in Nat
    /\ Platforms \subseteq [store : {"memory", "postgres"}, jsonb : {"text", "parsed"}]

VARIABLES
    platform,    \* never changes
    rows,        \* saga_executions, by id
    logged,      \* the executions the event store has an event of
    cache,       \* executionCache
    refilled,    \* history: the executions whose cached copy was replaced by
                 \* one that counts other steps
    old,         \* the executions that started over an hour ago
    calls,       \* local state of each call
    effects      \* history: what the steps have done to the world

vars == <<platform, rows, logged, cache, refilled, old, calls, effects>>

-----------------------------------------------------------------------------
SagaState == {"Running", "Completed", "Failed", "Compensating", "Compensated",
              "CompensationFailed"}

NewExecution == [state |-> "Running", currentStep |-> 0, stepResults |-> << >>]

\* Mutant of AfterStep: the result is not kept.
AfterStepNoResult(x, result) == [x EXCEPT !.currentStep = @ + 1]

AfterStep(x, result) ==
    [x EXCEPT !.currentStep = @ + 1, !.stepResults = Append(@, result)]

\* Mutant of StepOf: the steps counted from one.
StepOffByOne(x) == IF x.currentStep + 2 <= NumSteps THEN x.currentStep + 2 ELSE 1

\* saga.steps[currentStep]; here the first step is step 1.
StepOf(x) == x.currentStep + 1

-----------------------------------------------------------------------------
(***************************************************************************)
(* The phases of a call:                                                   *)
(*   "scanning"    recovery, between two executions of its list            *)
(*   "loading"     loadExecution: the cache                                *)
(*   "selecting"   loadExecution has missed and asks for the row           *)
(*   "filling"     the row is on its way to the cache                      *)
(*   "executing"   a step runs                                             *)
(*   "undoing"     the compensation loop                                   *)
(*   "writing"     persistExecution: the row                               *)
(*   "logging"     persistExecution: the event                             *)
(* next: what the call goes on with once it has loaded or persisted.       *)
(* frames: the copies of the advances around this one whose try block is   *)
(* open, the innermost first.                                              *)
(***************************************************************************)
Idle == [phase |-> "idle"]

NewCall(phase, next, id) ==
    [phase |-> phase, next |-> next, id |-> id, execution |-> NewExecution,
     undoFrom |-> 0, frames |-> << >>, recovering |-> FALSE, todo |-> {}]

Go(c, local) == calls' = [calls EXCEPT ![c] = local]

Load(call, next) ==
    [call EXCEPT !.phase = "loading", !.next = next, !.execution = NewExecution,
                 !.undoFrom = 0]

Persist(call, execution, next) ==
    [call EXCEPT !.phase = "writing", !.execution = execution, !.next = next,
                 !.undoFrom = 0]

\* The promise of the outermost call is settled; recovery logs what it
\* rejects with and takes the next execution.
Settled(call) ==
    IF call.recovering
    THEN [NewCall("scanning", "recover", call.id) EXCEPT !.recovering = TRUE,
                                                         !.todo = call.todo]
    ELSE Idle

\* advance's catch block, for the copy the advance has loaded.
CaughtByAdvance(call, execution) ==
    Persist(call, [execution EXCEPT !.state = "Failed"], "compensate")

\* What is thrown reaches the innermost advance whose try block is open.
Throw(call) ==
    IF call.frames = << >> THEN Settled(call)
    ELSE CaughtByAdvance([call EXCEPT !.frames = Tail(@)], Head(call.frames))

-----------------------------------------------------------------------------
(***************************************************************************)
(* The operations.                                                         *)
(***************************************************************************)
Start(c, id) ==
    /\ calls[c].phase = "idle"
    /\ id \notin DOMAIN rows
    /\ \A d \in Calls : calls[d].phase # "idle" => calls[d].id # id
    /\ Go(c, Persist(NewCall("writing", "advance", id), NewExecution, "advance"))
    /\ UNCHANGED <<platform, rows, logged, cache, refilled, old, effects>>

\* advance, compensate, resume and getExecution start with loadExecution.
Request(c, purpose, id) ==
    /\ calls[c].phase = "idle"
    /\ id \in DOMAIN rows
    /\ Go(c, NewCall("loading", purpose, id))
    /\ UNCHANGED <<platform, rows, logged, cache, refilled, old, effects>>

\* recoverPendingSagas: its list is made from the rows.
RecoverPendingSagas(c) ==
    /\ calls[c].phase = "idle"
    /\ \E some \in DOMAIN rows :
          Go(c, [NewCall("scanning", "recover", some) EXCEPT
                    !.recovering = TRUE,
                    !.todo = {id \in DOMAIN rows :
                                 rows[id].state \in {"Running", "Compensating"}}])
    /\ UNCHANGED <<platform, rows, logged, cache, refilled, old, effects>>

RecoverNext(c) ==
    LET call == calls[c] IN
    /\ call.phase = "scanning"
    /\ IF call.todo = {} THEN Go(c, Idle)
       ELSE \E id \in call.todo :
               Go(c, Load([call EXCEPT !.id = id, !.todo = @ \ {id}], "recover"))
    /\ UNCHANGED <<platform, rows, logged, cache, refilled, old, effects>>

\* What each operation does with the execution it has loaded; recovery, too,
\* goes by the state of the cached copy.
Loaded(c, x) ==
    LET call == calls[c] IN
    CASE call.next = "get" -> Settled(call)
      [] call.next = "recover" ->
            IF call.id \in old THEN Settled(call)
            ELSE IF x.state = "Running" THEN Load(call, "advance")
            ELSE IF x.state = "Compensating" THEN Load(call, "compensate")
            ELSE Settled(call)
      [] call.next = "resume" ->
            IF x.state \in {"Failed", "Running"}
            THEN Persist(call, [x EXCEPT !.state = "Running"], "advance")
            ELSE Throw(call)
      [] call.next = "compensate" ->
            Persist(call, [x EXCEPT !.state = "Compensating"], "undo")
      [] call.next = "advance" ->
            IF x.state # "Running" THEN Throw(call)
            ELSE IF x.currentStep >= NumSteps
                 THEN Persist(call, [x EXCEPT !.state = "Completed"], "return")
                 ELSE [call EXCEPT !.phase = "executing", !.execution = x]

\* loadExecution looks in the cache and asks the database when it misses.
LookUp(c, found) ==
    LET call == calls[c] IN
    /\ call.phase = "loading"
    /\ Go(c, IF call.id \in DOMAIN cache THEN found ELSE [call EXCEPT !.phase = "selecting"])
    /\ UNCHANGED <<platform, rows, logged, cache, refilled, old, effects>>

\* The database reads the row.
SelectRow(c) ==
    LET call == calls[c] IN
    /\ call.phase = "selecting"
    /\ Go(c, [call EXCEPT !.phase = "filling", !.execution = rows[call.id]])
    /\ UNCHANGED <<platform, rows, logged, cache, refilled, old, effects>>

\* Mutant of Fill: the cache is not set.
FillNot(c, found) ==
    LET call == calls[c] IN
    /\ call.phase = "filling"
    /\ Go(c, IF platform.jsonb # "parsed" THEN found
             ELSE IF call.next = "recover" THEN Idle ELSE Throw(call))
    /\ UNCHANGED <<platform, rows, logged, cache, refilled, old, effects>>

\* The answer has come.  A row whose JSONB is parsed already makes
\* loadExecution throw, and a recovery that cannot load an execution rejects
\* as a whole; else the cache is set, also if another load has set it since.
Fill(c, found) ==
    LET call == calls[c] IN
    /\ call.phase = "filling"
    /\ IF platform.jsonb = "parsed"
       THEN /\ Go(c, IF call.next = "recover" THEN Idle ELSE Throw(call))
            /\ UNCHANGED <<cache, refilled>>
       ELSE /\ Go(c, found)
            /\ cache' = [id \in DOMAIN cache \cup {call.id} |->
                            IF id = call.id THEN call.execution ELSE cache[id]]
            /\ refilled' = refilled \cup
                  {id \in DOMAIN cache \cap {call.id} :
                      cache[id].currentStep # call.execution.currentStep}
    /\ UNCHANGED <<platform, rows, logged, old, effects>>

LoadExecution(c) ==
    \/ LookUp(c, Loaded(c, cache[calls[c].id]))
    \/ SelectRow(c)
    \/ Fill(c, Loaded(c, calls[c].execution))

\* The step returns a result, which is persisted before the saga goes on
\* inside the try block.
StepReturns(c, result) ==
    LET call == calls[c]  k == StepOf(call.execution) IN
    /\ call.phase = "executing"
    /\ Len(call.frames) < MaxDepth
    /\ effects' = [effects EXCEPT ![call.id][k] = IF result.data THEN "to undo" ELSE "final"]
    /\ Go(c, Persist([call EXCEPT !.frames = <<call.execution>> \o @],
                     AfterStep(call.execution, result),
                     IF result.success THEN "advance" ELSE "compensate"))
    /\ UNCHANGED <<platform, rows, logged, cache, refilled, old>>

StepThrows(c) ==
    /\ calls[c].phase = "executing"
    /\ Go(c, CaughtByAdvance(calls[c], calls[c].execution))
    /\ UNCHANGED <<platform, rows, logged, cache, refilled, old, effects>>

\* Mutant of FirstToUndo: the last completed step is left out.
FirstToUndoOffByOne(x) == IF x.currentStep = 0 THEN 0 ELSE x.currentStep - 1

FirstToUndo(x) == x.currentStep

\* One turn of the compensation loop: a step that left no compensation data
\* is skipped.
UndoStep(c) ==
    LET call == calls[c]  k == call.undoFrom IN
    /\ call.phase = "undoing" /\ k > 0
    /\ Go(c, [call EXCEPT !.undoFrom = k - 1])
    /\ effects' = IF call.execution.stepResults[k].data
                  THEN [effects EXCEPT ![call.id][k] = "undone"] ELSE effects
    /\ UNCHANGED <<platform, rows, logged, cache, refilled, old>>

UndoThrows(c) ==
    LET call == calls[c]  k == call.undoFrom IN
    /\ call.phase = "undoing" /\ k > 0
    /\ call.execution.stepResults[k].data
    /\ Go(c, Persist(call, [call.execution EXCEPT !.state = "CompensationFailed"], "return"))
    /\ UNCHANGED <<platform, rows, logged, cache, refilled, old, effects>>

UndoEnds(c) ==
    LET call == calls[c] IN
    /\ call.phase = "undoing" /\ call.undoFrom = 0
    /\ Go(c, Persist(call, [call.execution EXCEPT !.state = "Compensated"], "return"))
    /\ UNCHANGED <<platform, rows, logged, cache, refilled, old, effects>>

-----------------------------------------------------------------------------
(***************************************************************************)
(* persistExecution.                                                       *)
(***************************************************************************)
WriteRow(c) ==
    LET call == calls[c] IN
    /\ call.phase = "writing"
    /\ rows' = [id \in DOMAIN rows \cup {call.id} |->
                   IF id = call.id THEN call.execution ELSE rows[id]]
    /\ Go(c, [call EXCEPT !.phase = "logging"])
    /\ UNCHANGED <<platform, logged, cache, refilled, old, effects>>

\* The execution goes on once it is persisted.
Continued(call) ==
    CASE call.next = "return" -> Settled(call)
      [] call.next \in {"advance", "compensate"} -> Load(call, call.next)
      [] call.next = "undo" ->
            [call EXCEPT !.phase = "undoing", !.undoFrom = FirstToUndo(call.execution)]

\* Version 1 is accepted once by a store that compares versions.
LogEvent(c) ==
    LET call == calls[c] IN
    /\ call.phase = "logging"
    /\ IF platform.store = "postgres" /\ call.id \in logged
       THEN /\ Go(c, Throw(call))
            /\ UNCHANGED logged
       ELSE /\ Go(c, Continued(call))
            /\ logged' = logged \cup {call.id}
    /\ UNCHANGED <<platform, rows, cache, refilled, old, effects>>

-----------------------------------------------------------------------------
\* An hour has passed since the execution started.
Age(id) ==
    /\ id \in DOMAIN rows \ old
    /\ old' = old \cup {id}
    /\ UNCHANGED <<platform, rows, logged, cache, refilled, calls, effects>>

\* Rows and events survive; an in-memory event store does not.
Restart ==
    /\ cache' = << >>
    /\ calls' = [c \in Calls |-> Idle]
    /\ logged' = IF platform.store = "memory" THEN {} ELSE logged
    /\ UNCHANGED <<platform, rows, refilled, old, effects>>

Init ==
    /\ platform \in Platforms
    /\ rows = << >> /\ logged = {} /\ cache = << >>
    /\ refilled = {} /\ old = {}
    /\ calls = [c \in Calls |-> Idle]
    /\ effects = [id \in Executions |-> [k \in 1 .. NumSteps |-> "none"]]

CallStep(c) ==
    \/ RecoverNext(c) \/ LoadExecution(c)
    \/ \E result \in StepResults : StepReturns(c, result)
    \/ StepThrows(c)
    \/ UndoStep(c) \/ UndoThrows(c) \/ UndoEnds(c)
    \/ WriteRow(c) \/ LogEvent(c)

Next ==
    \/ \E c \in Calls :
          \/ \E id \in Executions : Start(c, id)
          \/ \E id \in Executions, purpose \in {"advance", "compensate", "resume", "get"} :
                Request(c, purpose, id)
          \/ RecoverPendingSagas(c)
          \/ CallStep(c)
    \/ \E id \in Executions : Age(id)
    \/ Restart

Spec == Init /\ [][Next]_vars

\* A call in flight goes on; recovery is called again and again (it is to be
\* called at every start of the process); the process does not restart for ever.
FairSpec ==
    /\ Spec
    /\ <>[][~Restart]_vars
    /\ \A c \in Calls : WF_vars(CallStep(c)) /\ SF_vars(RecoverPendingSagas(c))

-----------------------------------------------------------------------------
(***************************************************************************)
(* Properties.                                                             *)
(***************************************************************************)
SagaExecution == [state : SagaState, currentStep : 0 .. NumSteps,
                  stepResults : Seq(StepResults)]

\* Types; a row and a cached copy hold one result for every step they count,
\* which is what the compensation loop indexes by.
TypeOK ==
    /\ \A id \in DOMAIN rows : /\ rows[id] \in SagaExecution
                               /\ Len(rows[id].stepResults) = rows[id].currentStep
    /\ \A id \in DOMAIN cache : /\ cache[id] \in SagaExecution
                                /\ Len(cache[id].stepResults) = cache[id].currentStep
    /\ refilled \subseteq DOMAIN rows
    /\ DOMAIN cache \subseteq DOMAIN rows /\ logged \subseteq DOMAIN rows

\* Whatever calls overlap and whenever the process restarts, no step runs
\* before the ones that precede it, and a saga is Completed only when every
\* step has run.
StepsInOrder ==
    \A id \in Executions :
        /\ \A k \in 2 .. NumSteps :
              effects[id][k] # "none" => effects[id][k - 1] # "none"
        /\ (id \in DOMAIN rows /\ rows[id].state = "Completed") =>
              \A k \in 1 .. NumSteps : effects[id][k] # "none"

\* A saga is Compensated only when every step its row has a result for is
\* undone, if there is anything to undo -- also when other calls advance it,
\* from copies that lag behind the row, and when several loads fill the cache.
\* Not when a later fill has brought a copy that counts other steps
\* (saga-coordinator-impl.ts:212): a step may run again after it was undone.
RecordedStepsUndone ==
    \A id \in DOMAIN rows \ refilled :
        rows[id].state = "Compensated" =>
            \A k \in 1 .. rows[id].currentStep :
                rows[id].stepResults[k].data => effects[id][k] = "undone"

\* An execution left Running by a call that is over is picked up by recovery
\* (saga-coordinator-impl.ts:6), unless it is an hour old by then.
IsRunning(id) == id \in DOMAIN rows /\ rows[id].state = "Running"

RunningIsRecovered ==
    \A id \in Executions : IsRunning(id) ~> (id \in old \/ ~IsRunning(id))

=============================================================================
