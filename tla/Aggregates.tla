------------------------------ MODULE Aggregates ------------------------------
(***************************************************************************)
(* Aggregates as folds over their events                                   *)
(* (src/core/aggregates/rehydrators.ts): what a party, an asset, an        *)
(* agreement, a role or a workflow is now, was at a version or was at a    *)
(* time.  Writers take the version and the time of an event before they    *)
(* append it, and others append meanwhile; readers ask about the past.     *)
(***************************************************************************)
EXTENDS Naturals, Sequences, FiniteSets, SequencesExt

CONSTANTS
    Writers,    \* calls that append one event each
    Readers,    \* calls that ask about the past once
    EventsOf,   \* kind |-> events that may be appended: [type, arg]
    Checkeds,   \* the cases of checked
    MaxTime     \* bound: time of the clock

VARIABLES
    kind,       \* "Party", "Asset", "Agreement", "Role" or "Workflow"
    checked,    \* whether the store refuses a version that is not the next
    events,     \* events of the aggregate: [version, time, type, arg]
    clock,
    draft,      \* writer |-> the event it has made and not appended, or None
    answer,     \* reader |-> [at, state, late]: what it was told a time past
    was         \* sequence: was[n] is the state when the log had n events

vars == <<kind, checked, events, clock, draft, answer, was>>

None == [version |-> 0]

-----------------------------------------------------------------------------
(* The rehydrators: initialState and apply.                                *)

InitialState ==
    [Party     |-> [exists |-> FALSE, version |-> 0, name |-> "", contacts |-> "", roles |-> {}],
     Asset     |-> [exists |-> FALSE, version |-> 0, status |-> "Created",
                    owner |-> "", custodian |-> ""],
     Agreement |-> [exists |-> FALSE, version |-> 0, status |-> "Draft",
                    parties |-> {}, consents |-> {}],
     Role      |-> [exists |-> FALSE, version |-> 0, holder |-> "", isActive |-> FALSE],
     Workflow  |-> [exists |-> FALSE, version |-> 0, current |-> "", history |-> <<>>,
                    isComplete |-> FALSE]]

\* Mutant of ApplyParty: what is not in the update is lost.
ApplyPartyWhole(s, e) ==
    CASE e.type = "PartyRegistered" ->
            [InitialState.Party EXCEPT !.exists = TRUE, !.version = e.version, !.name = e.arg]
      [] e.type = "NameUpdated" -> [s EXCEPT !.version = e.version, !.name = e.arg, !.contacts = ""]
      [] OTHER -> [s EXCEPT !.version = e.version, !.contacts = e.arg, !.name = ""]

\* PartyIdentityUpdated, by what it carries: a name or contacts.  RoleGranted
\* and RoleRevoked are handled as well, and never in the events of a party.
ApplyParty(s, e) ==
    CASE e.type = "PartyRegistered" ->
            [InitialState.Party EXCEPT !.exists = TRUE, !.version = e.version, !.name = e.arg]
      [] e.type = "NameUpdated" -> [s EXCEPT !.version = e.version, !.name = e.arg]
      [] e.type = "ContactsUpdated" -> [s EXCEPT !.version = e.version, !.contacts = e.arg]
      [] OTHER -> s

ApplyAsset(s, e) ==
    CASE e.type = "AssetCreated" ->
            [InitialState.Asset EXCEPT !.exists = TRUE, !.version = e.version, !.owner = e.arg]
      [] e.type = "OwnershipTransferred" ->
            [s EXCEPT !.version = e.version, !.status = "Transferred", !.owner = e.arg]
      [] e.type = "CustodyTransferred" ->
            [s EXCEPT !.version = e.version, !.status = "Transferred", !.custodian = e.arg]
      [] e.type = "AssetStatusChanged" -> [s EXCEPT !.version = e.version, !.status = e.arg]
      [] OTHER -> s

ApplyAgreement(s, e) ==
    CASE e.type = "AgreementCreated" ->
            [InitialState.Agreement EXCEPT !.exists = TRUE, !.version = e.version, !.parties = e.arg]
      [] e.type = "AgreementStatusChanged" -> [s EXCEPT !.version = e.version, !.status = e.arg]
      [] e.type = "ConsentGiven" ->
            [s EXCEPT !.version = e.version, !.consents = @ \cup (s.parties \cap {e.arg})]
      [] OTHER -> s

ApplyRole(s, e) ==
    CASE e.type = "RoleGranted" ->
            [exists |-> TRUE, version |-> e.version, holder |-> e.arg, isActive |-> TRUE]
      [] e.type = "RoleRevoked" -> [s EXCEPT !.version = e.version, !.isActive = FALSE]
      [] OTHER -> s

ApplyWorkflow(s, e) ==
    CASE e.type = "WorkflowInstanceCreated" ->
            [InitialState.Workflow EXCEPT !.exists = TRUE, !.version = e.version, !.current = e.arg]
      [] e.type = "WorkflowTransitioned" ->
            [s EXCEPT !.version = e.version, !.current = e.arg, !.history = @ \o <<e.arg>>]
      [] e.type = "WorkflowCompleted" -> [s EXCEPT !.version = e.version, !.isComplete = TRUE]
      [] OTHER -> s

Apply(s, e) ==
    CASE kind = "Party" -> ApplyParty(s, e)
      [] kind = "Asset" -> ApplyAsset(s, e)
      [] kind = "Agreement" -> ApplyAgreement(s, e)
      [] kind = "Role" -> ApplyRole(s, e)
      [] kind = "Workflow" -> ApplyWorkflow(s, e)

-----------------------------------------------------------------------------
(* getByAggregate with bounds, of which 0 is none, and the folds over it.  *)

Bounded(es, from, toVersion, toTime) ==
    SelectSeq(es, LAMBDA e : /\ from = 0 \/ e.version >= from
                             /\ toVersion = 0 \/ e.version <= toVersion
                             /\ toTime = 0 \/ e.time <= toTime)

Reconstruct(es, toVersion, toTime) ==
    FoldLeft(Apply, InitialState[kind], Bounded(es, 0, toVersion, toTime))

AtVersion(v) == Reconstruct(events, v, 0)
GetStateAt(t) == Reconstruct(events, 0, t)

\* Mutant of GetDiff: the later version is not in it.
GetDiffBefore(from, to) == Bounded(events, from + 1, to - 1, 0)

GetDiff(from, to) == Bounded(events, from + 1, to, 0)

-----------------------------------------------------------------------------
Init ==
    /\ kind \in DOMAIN EventsOf
    /\ checked \in Checkeds
    /\ events = <<>>
    /\ clock = 1
    /\ draft = [w \in Writers |-> None]
    /\ answer = [r \in Readers |-> [at |-> 0]]
    /\ was = <<>>

Tick ==
    /\ clock < MaxTime
    /\ clock' = clock + 1
    /\ UNCHANGED <<kind, checked, events, draft, answer, was>>

Latest == IF events = <<>> THEN 0 ELSE Last(events).version

\* The first event is the one that creates it.
Creates(e) == e.type \in {"PartyRegistered", "AssetCreated", "AgreementCreated", "RoleGranted",
                        "WorkflowInstanceCreated"}

\* A writer makes its event: the version after the latest, the time it is.
Make(w) ==
    /\ draft[w] = None
    /\ \E e \in EventsOf[kind] :
           /\ Creates(e) <=> Latest = 0
           /\ draft' = [draft EXCEPT ![w] = [version |-> Latest + 1, time |-> clock,
                                             type |-> e.type, arg |-> e.arg]]
    /\ UNCHANGED <<kind, checked, events, clock, answer, was>>

Done == [version |-> 1]

\* And appends it, or is refused.
AppendEvent(w) ==
    /\ draft[w] \notin {None, Done}
    /\ draft' = [draft EXCEPT ![w] = Done]
    /\ IF checked /\ draft[w].version # Latest + 1
       THEN UNCHANGED <<events, was>>
       ELSE /\ events' = events \o <<draft[w]>>
            /\ was' = was \o <<Reconstruct(events', 0, 0)>>
    /\ UNCHANGED <<kind, checked, clock, answer>>

\* getStateAt, or one of the repository's: what was there at a time past.
Ask(r) ==
    /\ answer[r].at = 0
    /\ \E t \in 1 .. clock - 1 :
           answer' = [answer EXCEPT ![r] =
               [at |-> t, state |-> GetStateAt(t),
                late |-> \E w \in Writers : draft[w] \notin {None, Done} /\ draft[w].time <= t]]
    /\ UNCHANGED <<kind, checked, events, clock, draft, was>>

Next ==
    \/ Tick
    \/ \E w \in Writers : Make(w) \/ AppendEvent(w)
    \/ \E r \in Readers : Ask(r)

Spec == Init /\ [][Next]_vars

-----------------------------------------------------------------------------
TypeOK ==
    /\ kind \in DOMAIN EventsOf
    /\ Len(was) = Len(events)
    /\ \A r \in Readers : answer[r].at \in 0 .. clock - 1
    /\ \A n \in DOMAIN was : was[n].exists

(***************************************************************************)
(* Where versions are checked, what the aggregate was when it had a        *)
(* version is what is answered for that version ever after, and the        *)
(* difference between two versions makes the one of the other.  (Version 0 *)
(* is not among them: a bound of 0 is none, and what is answered for it is *)
(* what the aggregate is now.)                                             *)
(***************************************************************************)
VersionsTravel ==
    checked => \A v \in DOMAIN was :
        /\ AtVersion(v) = was[v]
        /\ \A u \in 1 .. v : FoldLeft(Apply, was[u], GetDiff(u, v)) = was[v]

(***************************************************************************)
(* What was answered for a time past stays the answer, unless a writer     *)
(* that took its time by then had still to append its event: the store     *)
(* does not ask that times ascend.                                         *)
(***************************************************************************)
PastIsSettled ==
    \A r \in Readers : answer[r].at > 0 /\ ~answer[r].late =>
        GetStateAt(answer[r].at) = answer[r].state

LastOf(types, none) ==
    LET of == SelectSeq(events, LAMBDA e : e.type \in types)
    IN IF of = <<>> THEN none ELSE Last(of).arg

(***************************************************************************)
(* No event takes back what another one says: where versions are checked,  *)
(* an aggregate shows the last name and the last contacts, the last owner, *)
(* custodian and status, every consent of a party, the state of a workflow *)
(* and that it is complete, and a role until it is revoked.  (Over the     *)
(* in-memory store two writers may both create it, and the second one      *)
(* starts over.)                                                           *)
(***************************************************************************)
ShowsAll ==
    LET s == Reconstruct(events, 0, 0) IN
    checked /\ events # <<>> =>
        CASE kind = "Party" ->
                /\ s.name = LastOf({"PartyRegistered", "NameUpdated"}, "")
                /\ s.contacts = LastOf({"ContactsUpdated"}, "")
          [] kind = "Asset" ->
                /\ s.owner = LastOf({"AssetCreated", "OwnershipTransferred"}, "")
                /\ s.custodian = LastOf({"CustodyTransferred"}, "")
                /\ Last(events).type = "AssetStatusChanged" => s.status = Last(events).arg
          [] kind = "Agreement" ->
                /\ s.status = LastOf({"AgreementStatusChanged"}, "Draft")
                /\ s.consents = {e.arg : e \in {x \in ToSet(events) :
                                      x.type = "ConsentGiven" /\ x.arg \in events[1].arg}}
          [] kind = "Role" ->
                s.isActive <=> \A e \in ToSet(events) : e.type # "RoleRevoked"
          [] kind = "Workflow" ->
                /\ s.current = LastOf({"WorkflowInstanceCreated", "WorkflowTransitioned"}, "")
                /\ s.isComplete <=> \E e \in ToSet(events) : e.type = "WorkflowCompleted"
                /\ s.history # <<>> => Last(s.history) = s.current
=============================================================================
