---------------------------- MODULE ExportService ----------------------------
(***************************************************************************)
(* Exports of the events of an aggregate                                   *)
(* (src/core/operational/export-service.ts): a row in PostgreSQL for each  *)
(* request, and processExport, which nobody awaits.  Every query may fail; *)
(* other requests, appends to the aggregate and cancellations come between *)
(* any two of them, and the process may die.                               *)
(***************************************************************************)
EXTENDS Naturals

CONSTANTS
    Exports,    \* requests, each made once
    MaxEvents   \* bound: events of the aggregate

VARIABLES
    mayFail,    \* whether queries fail and processes die
    named,      \* exports whose scope names an aggregate, by its type and id
    state,      \* export |-> state of its row, "none" before there is one
    error,      \* export |-> "none", "cancelled" or "failed": error of its row
    result,     \* export |-> result_record_count of its row, or 0
    asked,      \* export |-> events of the aggregate when it was requested
    collected,  \* export |-> events processExport has collected
    worker,     \* export |-> what processExport does next
    length      \* events of the aggregate, in the time range of the scope

vars == <<mayFail, named, state, error, result, asked, collected, worker, length>>

-----------------------------------------------------------------------------
Init ==
    /\ mayFail \in BOOLEAN
    /\ named \in SUBSET Exports
    /\ state = [e \in Exports |-> "none"]
    /\ error = [e \in Exports |-> "none"]
    /\ result = [e \in Exports |-> 0]
    /\ asked = [e \in Exports |-> 0]
    /\ collected = [e \in Exports |-> 0]
    /\ worker = [e \in Exports |-> "none"]
    /\ length = 1

Goto(e, where) == worker' = [worker EXCEPT ![e] = where]

\* The row is inserted and processExport is called, which awaits its first
\* query at once.
Request(e) ==
    /\ state[e] = "none"
    /\ state' = [state EXCEPT ![e] = "Pending"]
    /\ asked' = [asked EXCEPT ![e] = length]
    /\ Goto(e, "update")
    /\ UNCHANGED <<mayFail, named, error, result, collected, length>>

\* updateState is outside the try: when it fails the row stays Pending.
UpdateState(e) ==
    /\ worker[e] = "update"
    /\ \/ state' = [state EXCEPT ![e] = "Processing"] /\ Goto(e, "collect")
       \/ mayFail /\ Goto(e, "gone") /\ UNCHANGED state
    /\ UNCHANGED <<mayFail, named, error, result, asked, collected, length>>

\* A scope that names no aggregate collects nothing, and is completed so.
Collected(e) == IF e \in named THEN length ELSE 0

CollectExportData(e) ==
    /\ worker[e] = "collect"
    /\ \/ collected' = [collected EXCEPT ![e] = Collected(e)] /\ Goto(e, "complete")
       \/ mayFail /\ Goto(e, "fail") /\ UNCHANGED collected
    /\ UNCHANGED <<mayFail, named, state, error, result, asked, length>>

\* Mutant of CompleteExport: the count is that of the table at the end.
CompleteExportFirst(e) ==
    /\ worker[e] = "collect"
    /\ state' = [state EXCEPT ![e] = "Completed"]
    /\ Goto(e, "gone")
    /\ UNCHANGED <<mayFail, named, error, result, asked, collected, length>>

\* completeExport writes whatever state the row is in; error is left alone.
CompleteExport(e) ==
    /\ worker[e] = "complete"
    /\ \/ /\ state' = [state EXCEPT ![e] = "Completed"]
          /\ result' = [result EXCEPT ![e] = collected[e]]
          /\ Goto(e, "gone")
       \/ mayFail /\ Goto(e, "fail") /\ UNCHANGED <<state, result>>
    /\ UNCHANGED <<mayFail, named, error, asked, collected, length>>

FailExport(e) ==
    /\ worker[e] = "fail"
    /\ \/ /\ state' = [state EXCEPT ![e] = "Failed"]
          /\ error' = [error EXCEPT ![e] = "failed"]
       \/ mayFail /\ UNCHANGED <<state, error>>
    /\ Goto(e, "gone")
    /\ UNCHANGED <<mayFail, named, result, asked, collected, length>>

\* Mutant of MayCancel: an export that is not over.
MayCancelRunning(e) == state[e] \in {"Pending", "Processing", "Completed"}

MayCancel(e) == state[e] = "Pending"

\* cancel; processExport does not look at the row again.
Cancel(e) ==
    /\ MayCancel(e)
    /\ state' = [state EXCEPT ![e] = "Failed"]
    /\ error' = [error EXCEPT ![e] = "cancelled"]
    /\ UNCHANGED <<mayFail, named, result, asked, collected, worker, length>>

AppendEvent ==
    /\ length < MaxEvents
    /\ length' = length + 1
    /\ UNCHANGED <<mayFail, named, state, error, result, asked, collected, worker>>

\* The process dies; nobody takes its exports up again.
Crash ==
    /\ mayFail /\ \E e \in Exports : worker[e] \notin {"none", "gone"}
    /\ worker' = [e \in Exports |-> IF worker[e] = "none" THEN "none" ELSE "gone"]
    /\ UNCHANGED <<mayFail, named, state, error, result, asked, collected, length>>

ProcessExport(e) ==
    UpdateState(e) \/ CollectExportData(e) \/ CompleteExport(e) \/ FailExport(e)

Next ==
    \/ \E e \in Exports : Request(e) \/ ProcessExport(e) \/ Cancel(e)
    \/ AppendEvent
    \/ Crash

\* Queries end, one way or the other.
Fairness == \A e \in Exports : WF_vars(ProcessExport(e))

Spec == Init /\ [][Next]_vars /\ Fairness

-----------------------------------------------------------------------------
TypeOK ==
    /\ mayFail \in BOOLEAN /\ named \subseteq Exports
    /\ state \in [Exports -> {"none", "Pending", "Processing", "Completed", "Failed"}]
    /\ error \in [Exports -> {"none", "cancelled", "failed"}]
    /\ worker \in [Exports -> {"none", "update", "collect", "complete", "fail", "gone"}]
    /\ \A e \in Exports : result[e] \in 0 .. length /\ collected[e] \in 0 .. length

(***************************************************************************)
(* A completed export has what the aggregate had at the request, at least, *)
(* unless it named none: then it is completed with nothing.  It carries an *)
(* error only if it was cancelled: then it was made all the same.          *)
(***************************************************************************)
CompletedIsWhole ==
    \A e \in Exports : state[e] = "Completed" =>
        /\ IF e \in named THEN result[e] >= asked[e] ELSE result[e] = 0
        /\ error[e] \in {"none", "cancelled"}

(***************************************************************************)
(* What has ended stays as it is, except that an export that was cancelled *)
(* before it was taken up goes on and ends again.                          *)
(***************************************************************************)
EndedStays ==
    \A e \in Exports :
        state[e] = "Completed" \/ (state[e] = "Failed" /\ error[e] = "failed")
            => state'[e] = state[e] /\ result'[e] = result[e]

(***************************************************************************)
(* An export ends unless a query fails or the process dies: those leave it *)
(* Pending or Processing for ever.                                         *)
(***************************************************************************)
RequestedEnds ==
    \A e \in Exports :
        ~mayFail /\ state[e] = "Pending" ~> state[e] \in {"Completed", "Failed"}
=============================================================================
