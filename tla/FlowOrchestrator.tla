-------------------------- MODULE FlowOrchestrator --------------------------
(***************************************************************************)
(* One flow of the flow orchestrator (src/core/engine/flow-orchestrator.ts)*)
(* over one event store.  The process keeps the instance in a map; a call  *)
(* takes a copy of it, runs step after step on the copy (each step enters  *)
(* the next one from inside), and puts the copy back when the last of them *)
(* returns.  What throws puts nothing back.  Calls, timers and the branches*)
(* of a parallel step interleave between any two awaits, each on a copy of *)
(* its own.                                                                *)
(***************************************************************************)
EXTENDS Naturals, Sequences, FiniteSets, SequencesExt

CONSTANTS
    Flows,      \* flow definitions: [start, ends, steps: id |-> [type, ...]]
    Resumes,    \* the calls of resumeFlow
    Cancels,    \* the calls of cancelFlow
    Checkeds    \* whether the store checks versions

VARIABLES
    flow,       \* the definition of the flow
    checked,    \* which store is configured
    log,        \* events of the flow: [type, step, version]
    instance,   \* the map's instance: [status, version, waitsFor, next]
    run,        \* thread |-> [at, step, copy, of]
    armed,      \* Wait steps whose timer or poll is running
    done        \* steps whose actions have run, in order

vars == <<flow, checked, log, instance, run, armed, done>>

-----------------------------------------------------------------------------
(* Definitions and threads.                                                *)

Step(s) == flow.steps[s]
StepIds == UNION {DOMAIN f.steps : f \in Flows}

\* startFlow, the calls, one thread for a timer and one for each branch of a
\* parallel step.
Threads == {"start"} \cup Resumes \cup Cancels \cup StepIds

Idle == [at |-> "idle", step |-> "", copy |-> << >>, of |-> ""]

Created == [status |-> "Running", version |-> 1, waitsFor |-> "", next |-> ""]

Init ==
    /\ flow \in Flows
    /\ checked \in Checkeds
    /\ log = << >>
    /\ instance = << >>
    /\ run = [t \in Threads |-> Idle]
    /\ armed = {}
    /\ done = << >>

Accepts(version) == checked => version = Len(log) + 1

Goto(t, at, step, copy) ==
    run' = [run EXCEPT ![t] = [@ EXCEPT !.at = at, !.step = step, !.copy = copy]]
Throw(t) == run' = [run EXCEPT ![t].at = "thrown"]

\* The append every step makes: the version after the copy's, or it throws.
Emit(t, type, copy, at) ==
    IF Accepts(copy.version + 1)
    THEN /\ log' = Append(log, [type |-> type, step |-> run[t].step, version |-> copy.version + 1])
         /\ Goto(t, at, run[t].step, [copy EXCEPT !.version = @ + 1])
    ELSE Throw(t) /\ UNCHANGED log

-----------------------------------------------------------------------------
(* The steps.                                                              *)

StartFlow ==
    /\ run["start"].at = "idle" /\ log = << >>
    /\ log' = <<[type |-> "Created", step |-> "", version |-> 1]>>
    /\ instance' = Created
    /\ Goto("start", "enter", flow.start, Created)
    /\ UNCHANGED <<flow, checked, armed, done>>

EnterStep(t) ==
    /\ run[t].at = "enter"
    /\ Emit(t, "Enter", run[t].copy, Step(run[t].step).type)
    /\ UNCHANGED <<flow, checked, instance, armed, done>>

\* Mutant of ExecuteActions: the actions are run before the step is entered.
ExecuteActionsFirst(t) ==
    /\ run[t].at = "enter" /\ Step(run[t].step).type = "Action"
    /\ done' = Append(done, run[t].step)
    /\ Emit(t, "Enter", run[t].copy, "exit")
    /\ UNCHANGED <<flow, checked, instance, armed>>

\* executeActionStep: notifications, domain events, handlers.
ExecuteActions(t) ==
    /\ run[t].at = "Action"
    /\ done' = Append(done, run[t].step)
    /\ Goto(t, "exit", run[t].step, run[t].copy)
    /\ UNCHANGED <<flow, checked, log, instance, armed>>

\* executeDecisionStep: any branch may be the first whose condition holds.
\* Without a default it throws when there is none.
Decide(t) ==
    /\ run[t].at = "Decision"
    /\ LET s == Step(run[t].step) IN
       \/ \E next \in s.branches \cup (s.default \ {"none"}) : Goto(t, "enter", next, run[t].copy)
       \/ "none" \in s.default /\ Throw(t)
    /\ UNCHANGED <<flow, checked, log, instance, armed, done>>

\* executeWorkflowStep: a workflow that has just been started is not complete.
ExecuteWorkflow(t) ==
    /\ run[t].at = "Workflow"
    /\ Goto(t, "return", run[t].step, [run[t].copy EXCEPT !.status = "Waiting"])
    /\ UNCHANGED <<flow, checked, log, instance, armed, done>>

\* executeWaitStep.
Wait(t) ==
    /\ run[t].at = "Wait"
    /\ LET s == Step(run[t].step) IN
       IF s.event = ""
       THEN /\ armed' = armed \cup {run[t].step}
            /\ Goto(t, "return", run[t].step, [run[t].copy EXCEPT !.status = "Waiting"])
       ELSE /\ UNCHANGED armed
            /\ Goto(t, "return", run[t].step, [run[t].copy EXCEPT
                   !.status = "Waiting", !.waitsFor = s.event, !.next = s.next])
    /\ UNCHANGED <<flow, checked, log, instance, done>>

\* executeParallelStep: every branch gets the same copy.
Fork(t) ==
    /\ run[t].at = "Parallel"
    /\ run' = [u \in Threads |->
          IF u \in Step(run[t].step).branches
          THEN [at |-> "enter", step |-> u, copy |-> run[t].copy, of |-> t]
          ELSE IF u = t THEN [run[t] EXCEPT !.at = "join"] ELSE run[u]]
    /\ UNCHANGED <<flow, checked, log, instance, armed, done>>

\* Promise.all, Promise.any and Promise.race.  The copy is the one from before
\* the branches.
Join(t) ==
    /\ run[t].at = "join"
    /\ LET s == Step(run[t].step)
           Is(at) == {u \in s.branches : run[u].at = at}
       IN \/ /\ \/ s.join = "All" /\ Is("returned") = s.branches
                \/ s.join # "All" /\ Is("returned") # {}
             /\ Goto(t, "exit", run[t].step, run[t].copy)
          \/ /\ \/ s.join # "Any" /\ Is("thrown") # {}
                \/ s.join = "Any" /\ Is("thrown") = s.branches
             /\ Throw(t)
    /\ UNCHANGED <<flow, checked, log, instance, armed, done>>

\* proceedToNext.
ExitStep(t) ==
    /\ run[t].at = "exit"
    /\ Emit(t, "Exit", run[t].copy,
            IF run[t].step \in flow.ends THEN "complete" ELSE "next")
    /\ UNCHANGED <<flow, checked, instance, armed, done>>

NextStep(t) ==
    /\ run[t].at = "next"
    /\ LET next == Step(run[t].step).next IN
       IF next = "" THEN Throw(t) ELSE Goto(t, "enter", next, run[t].copy)
    /\ UNCHANGED <<flow, checked, log, instance, armed, done>>

CompleteFlow(t) ==
    /\ run[t].at = "complete"
    /\ Emit(t, "Completed", [run[t].copy EXCEPT !.status = "Completed"],
            IF t \in Cancels THEN "returned" ELSE "return")
    /\ UNCHANGED <<flow, checked, instance, armed, done>>

\* Mutant of Return: a copy that is not the newest is put back as well, and
\* takes the version of the log with it.
ReturnLatest(t) ==
    /\ run[t].at = "return"
    /\ instance' = [run[t].copy EXCEPT !.version = Len(log)]
    /\ run' = [run EXCEPT ![t].at = "returned"]
    /\ UNCHANGED <<flow, checked, log, armed, done>>

\* instances.set at the end of executeStep, once for each step on the way out.
Return(t) ==
    /\ run[t].at = "return"
    /\ instance' = run[t].copy
    /\ run' = [run EXCEPT ![t].at = "returned"]
    /\ UNCHANGED <<flow, checked, log, armed, done>>

-----------------------------------------------------------------------------
(* What comes from outside.                                                *)

\* Calls that throw at once leave everything as it is and are not steps.

ResumeFlow(t) ==
    /\ run[t].at = "idle" /\ instance # << >>
    /\ instance.status = "Waiting" /\ instance.waitsFor # ""
    /\ Goto(t, "enter", instance.next, [instance EXCEPT !.status = "Running"])
    /\ UNCHANGED <<flow, checked, log, instance, armed, done>>

\* Mutant of CancelFlow: the version is the log's, not the instance's.
CancelFlowLatest(t) ==
    /\ run[t].at = "idle" /\ instance # << >> /\ instance.status # "Completed"
    /\ Goto(t, "complete", "", [instance EXCEPT !.version = Len(log)])
    /\ UNCHANGED <<flow, checked, log, instance, armed, done>>

\* cancelFlow completes a copy that never gets back into the map.
CancelFlow(t) ==
    /\ run[t].at = "idle" /\ instance # << >> /\ instance.status # "Completed"
    /\ Goto(t, "complete", "", instance)
    /\ UNCHANGED <<flow, checked, log, instance, armed, done>>

\* The timer of a wait step goes off, or the poll finds its condition true.
Alarm(s) ==
    /\ s \in armed /\ run[s].at = "idle"
    /\ armed' = armed \ {s}
    /\ IF instance.status = "Waiting" THEN Goto(s, "exit", s, instance)
       ELSE run' = [run EXCEPT ![s].at = "returned"]
    /\ UNCHANGED <<flow, checked, log, instance, done>>

Thread(t) ==
    \/ EnterStep(t) \/ ExecuteActions(t) \/ Decide(t) \/ ExecuteWorkflow(t) \/ Wait(t)
    \/ Fork(t) \/ Join(t) \/ ExitStep(t) \/ NextStep(t) \/ CompleteFlow(t) \/ Return(t)

Next ==
    \/ StartFlow
    \/ \E t \in Threads : Thread(t)
    \/ \E t \in Resumes : ResumeFlow(t)
    \/ \E t \in Cancels : CancelFlow(t)
    \/ \E s \in armed : Alarm(s)

Spec == Init /\ [][Next]_vars

-----------------------------------------------------------------------------
(* Properties.                                                             *)

TypeOK ==
    /\ flow \in Flows /\ checked \in BOOLEAN
    /\ instance = << >> \/ /\ instance.status \in {"Running", "Waiting", "Completed"}
                           /\ instance.version \in Nat
    /\ \A t \in Threads : run[t].step \in StepIds \cup {""} /\ run[t].of \in Threads \cup {""}
    /\ armed \subseteq StepIds
    /\ done \in Seq(StepIds)

Entries(s) == {i \in DOMAIN log : log[i].type = "Enter" /\ log[i].step = s}

\* No action of a step runs for an entry the store refused: there are never
\* more runs of an action than the log has entries of its step.
DoneIsEntered == \A s \in StepIds :
    Cardinality({i \in DOMAIN done : done[i] = s}) <= Cardinality(Entries(s))

\* The flow has waited for something other than an event after an event.
WaitedAgain ==
    \E i, j \in DOMAIN log :
        /\ i < j /\ log[i].type = "Enter" /\ log[j].type = "Enter"
        /\ Step(log[i].step).type = "Wait" /\ Step(log[i].step).event # ""
        /\ \/ Step(log[j].step).type = "Wait" /\ Step(log[j].step).event = ""
           \/ Step(log[j].step).type = "Workflow"

\* An event that is delivered twice, or while the flow is being cancelled,
\* does not transfer the assets a second time when the store checks versions,
\* unless the flow has come to wait for something else: what it waited for
\* before is never cleared (__waitingFor), so the old event is taken again.
EnteredOnce ==
    checked /\ ~WaitedAgain => \A s \in StepIds : Cardinality(Entries(s)) <= 1

\* With a store that checks versions nothing follows the completion of a flow:
\* not the event it waited for, not its timer, not a step that was under way
\* when it was cancelled, although the map never learns of the cancellation.
EndedIsOver == checked => \A i \in DOMAIN log : log[i].type = "Completed" => i = Len(log)

\* The map never runs ahead of the log, and what a call is about to append
\* was read from it: no copy has a version the log has not reached.
MapBehindLog ==
    /\ instance # << >> => \E i \in DOMAIN log : log[i].version = instance.version
    /\ checked /\ instance # << >> /\ instance.status = "Completed"
       => \E i \in DOMAIN log : log[i].type = "Completed" /\ log[i].version = instance.version
=============================================================================
