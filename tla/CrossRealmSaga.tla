-------------------------- MODULE CrossRealmSaga ----------------------------
(***************************************************************************)
(* An operation across two realms, run as a saga of five steps             *)
(* (createCrossRealmTransferSaga) by the persistent saga coordinator.      *)
(*                                                                         *)
(* The coordinator hands an empty object to its steps instead of the       *)
(* context that was given to start.  The first two steps only log what is  *)
(* undefined then; the third one reads the type of the operation and       *)
(* throws.  The saga is registered by whoever runs an operation, so a      *)
(* process that has run none since it started cannot go on with those it   *)
(* finds.  The calls, the row, the event and the cache of an execution are *)
(* those of SagaCoordinator.                                               *)
(***************************************************************************)
EXTENDS Naturals

CONSTANTS Executions, Calls, Platforms, MaxDepth    \* as in SagaCoordinator

VARIABLES
    platform, rows, logged, cache, refilled, old, calls, effects,    \* as in SagaCoordinator
    registered,    \* whether the coordinator knows the saga
    reached        \* history: the steps each execution had counted when the process started

\* The first three steps leave what their compensation needs.
NumSteps == 5
LeavesData(k) == k \in 1 .. 3
ReturnOf(k) == [success |-> TRUE, data |-> LeavesData(k)]

Coordinator == INSTANCE SagaCoordinator WITH StepResults <- {ReturnOf(k) : k \in 1 .. NumSteps}

sagaVars == <<platform, rows, logged, cache, refilled, old, calls, effects>>
vars == <<sagaVars, registered, reached>>

-----------------------------------------------------------------------------
\* Mutant of Throws: the steps are handed the context of the operation.
ThrowsNever(k) == FALSE

\* ctx.operation.type, of an operation that is not there.
Throws(k) == k = 3

Reservation == 2

-----------------------------------------------------------------------------
ExecuteCrossRealmOperationViaSaga(c, id) ==
    /\ Coordinator!Start(c, id)
    /\ registered' = TRUE
    /\ UNCHANGED reached

\* The saga is registered; then the insertion of the row fails and start rejects.
StartFails ==
    /\ ~registered
    /\ registered' = TRUE
    /\ UNCHANGED <<sagaVars, reached>>

\* What the rest of the program may call: resume, and the recovery of a start.
Resume(c, id) ==
    /\ Coordinator!Request(c, "resume", id)
    /\ UNCHANGED <<registered, reached>>

Recover(c) ==
    /\ Coordinator!RecoverPendingSagas(c) \/ Coordinator!RecoverNext(c)
    /\ UNCHANGED <<registered, reached>>

LooksUpTheSaga(call) ==
    call.phase \in {"loading", "filling"} /\ call.next \in {"advance", "compensate"}

\* advance and compensate look the saga up once they have the execution.
NotRegistered(c) ==
    /\ LooksUpTheSaga(calls[c]) /\ ~registered
    /\ \/ Coordinator!LookUp(c, Coordinator!Throw(calls[c]))
       \/ Coordinator!Fill(c, Coordinator!Throw(calls[c]))
    /\ UNCHANGED <<registered, reached>>

Load(c) ==
    /\ \/ Coordinator!SelectRow(c)
       \/ (LooksUpTheSaga(calls[c]) => registered) /\ Coordinator!LoadExecution(c)
    /\ UNCHANGED <<registered, reached>>

Step(c) ==
    /\ calls[c].phase = "executing"
    /\ LET k == Coordinator!StepOf(calls[c].execution) IN
       IF Throws(k) THEN Coordinator!StepThrows(c)
       ELSE Coordinator!StepReturns(c, ReturnOf(k))
    /\ UNCHANGED <<registered, reached>>

\* No compensation of the saga throws.
Undo(c) ==
    /\ Coordinator!UndoStep(c) \/ Coordinator!UndoEnds(c)
    /\ UNCHANGED <<registered, reached>>

PersistExecution(c) ==
    /\ Coordinator!WriteRow(c) \/ Coordinator!LogEvent(c)
    /\ UNCHANGED <<registered, reached>>

Age(id) ==
    /\ Coordinator!Age(id)
    /\ UNCHANGED <<registered, reached>>

\* The steps that have run, each after those before it.
Done(id) == CHOOSE n \in 0 .. NumSteps :
                \A k \in 1 .. NumSteps : (effects[id][k] # "none") <=> k <= n

Restart ==
    /\ Coordinator!Restart
    /\ registered' = FALSE
    /\ reached' = [id \in Executions |-> Done(id)]

Init ==
    /\ Coordinator!Init
    /\ registered = FALSE
    /\ reached = [id \in Executions |-> 0]

Next ==
    \/ \E c \in Calls :
          \/ \E id \in Executions :
                ExecuteCrossRealmOperationViaSaga(c, id) \/ Resume(c, id)
          \/ Recover(c) \/ NotRegistered(c) \/ Load(c) \/ Step(c) \/ Undo(c)
          \/ PersistExecution(c)
    \/ \E id \in Executions : Age(id)
    \/ StartFails
    \/ Restart

Spec == Init /\ [][Next]_vars

-----------------------------------------------------------------------------
(***************************************************************************)
(* Properties.                                                             *)
(***************************************************************************)
TypeOK ==
    /\ Coordinator!TypeOK
    /\ registered \in BOOLEAN
    /\ reached \in [Executions -> 0 .. NumSteps]

\* validateCrossRealmOperationConsistency.
Consistent(state, source, target) == state = "Completed" => source /\ target

\* A saga is never marked as completed while one of its realms is not
\* updated -- and as no step of it updates a realm, it is never completed:
\* each execution ends at the initiation of the operation.
RealmsAreConsistent ==
    \A id \in DOMAIN rows : Consistent(rows[id].state, FALSE, FALSE)

\* One process takes an operation one step further at most, whatever it
\* starts, resumes or recovers: the same copy is found in the cache again, and
\* the same step runs again -- unless a load that had missed came late and
\* has replaced the copy by one that counts another step.
OneStepAProcess ==
    \A id \in Executions \ refilled : Done(id) <= reached[id] + 1

\* An operation that is given up holds no asset in its source realm, with
\* the same exception: the reservation may be made again after it was undone.
ReservationReleased ==
    \A id \in DOMAIN rows \ refilled :
        rows[id].state = "Compensated" => effects[id][Reservation] \in {"none", "undone"}

=============================================================================
