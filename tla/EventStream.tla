----------------------------- MODULE EventStream -----------------------------
(***************************************************************************)
(* The event stream of src/core/api/realtime.ts: one client that connects  *)
(* again with the id of the last event it got when a connection breaks.    *)
(* Each connection has a handler of its own, which replays what follows    *)
(* that id, then subscribes, then looks at the stream every so often.  The *)
(* client loses the end of what was sent when a connection breaks.         *)
(***************************************************************************)
EXTENDS Naturals, Sequences, SequencesExt

CONSTANTS
    MaxEvents,  \* bound: events in the store
    MaxConns    \* bound: connections the client makes

VARIABLES
    atOnce,     \* whether a replay reads the events it will send in one query
    length,     \* events in the store: 1 .. length
    phase,      \* connection |-> what its handler does
    isOpen,     \* connection |-> whether the stream is open
    pos,        \* connection |-> the event it replays next
    upto,       \* connection |-> how many events its query has found
    received,   \* the ids the client has got, over all its connections
    before,     \* how many of them it had when it connected last
    unseen      \* events appended when the open stream was past its query

vars == <<atOnce, length, phase, isOpen, pos, upto, received, before, unseen>>

Conns == 1 .. MaxConns

-----------------------------------------------------------------------------
Init ==
    /\ atOnce \in BOOLEAN
    /\ length = 0
    /\ phase = [k \in Conns |-> "none"]
    /\ isOpen = [k \in Conns |-> FALSE]
    /\ pos = [k \in Conns |-> 1]
    /\ upto = [k \in Conns |-> 0]
    /\ received = << >>
    /\ before = 0
    /\ unseen = {}

\* The listeners of subscribe; one whose stream is closed unsubscribes.
Listening == {k \in Conns : phase[k] = "live"}
Served == {k \in Listening : isOpen[k]}

\* Handlers that will not replay an event that is appended now.
Past(k) == phase[k] = "ended" \/ (phase[k] = "replay" /\ atOnce)

AppendEvent ==
    /\ length < MaxEvents
    /\ length' = length + 1
    /\ received' = IF Served # {} THEN Append(received, length + 1) ELSE received
    /\ phase' = [k \in Conns |-> IF k \in Listening \ Served THEN "released" ELSE phase[k]]
    /\ unseen' = IF \E k \in Conns : isOpen[k] /\ Past(k) THEN unseen \cup {length + 1}
                 ELSE unseen
    /\ UNCHANGED <<atOnce, isOpen, pos, upto, before>>

\* Mutant of ReplayFrom: the event of that id as well.
ReplayFromThat(id) == id

\* Mutant of ReplayFrom: the first event after it is left out.
ReplayFromLater(id) == id + 2

ReplayFrom(id) == id + 1

\* A client without lastEventId is subscribed at once.
Connect(k) ==
    /\ phase[k] = "none" /\ \A j \in Conns : ~isOpen[j] /\ (j < k => phase[j] # "none")
    /\ isOpen' = [isOpen EXCEPT ![k] = TRUE]
    /\ IF received = << >>
       THEN phase' = [phase EXCEPT ![k] = "live"] /\ UNCHANGED <<pos, upto>>
       ELSE /\ phase' = [phase EXCEPT ![k] = "replay"]
            /\ pos' = [pos EXCEPT ![k] = ReplayFrom(Last(received))]
            /\ upto' = [upto EXCEPT ![k] = length]
    /\ before' = Len(received)
    /\ UNCHANGED <<atOnce, length, received, unseen>>

\* What the loop of replay goes through: a list, or the store as it is.
Limit(k) == IF atOnce THEN upto[k] ELSE length

Replay(k) ==
    /\ phase[k] = "replay"
    /\ IF pos[k] <= Limit(k) /\ isOpen[k]
       THEN /\ received' = Append(received, pos[k])
            /\ pos' = [pos EXCEPT ![k] = @ + 1]
            /\ UNCHANGED phase
       ELSE phase' = [phase EXCEPT ![k] = "ended"] /\ UNCHANGED <<received, pos>>
    /\ UNCHANGED <<atOnce, length, isOpen, upto, before, unseen>>

Subscribe(k) ==
    /\ phase[k] = "ended"
    /\ phase' = [phase EXCEPT ![k] = "live"]
    /\ UNCHANGED <<atOnce, length, isOpen, pos, upto, received, before, unseen>>

\* Mutant of KeepAlive: the timer ends, the subscription stays.
KeepAliveOnly(k) ==
    /\ phase[k] = "live" /\ ~isOpen[k]
    /\ UNCHANGED vars

\* The timer's tick when the stream is closed; else it sends a comment.
KeepAlive(k) ==
    /\ phase[k] = "live" /\ ~isOpen[k]
    /\ phase' = [phase EXCEPT ![k] = "released"]
    /\ UNCHANGED <<atOnce, length, isOpen, pos, upto, received, before, unseen>>

\* The connection breaks: of what it carried only a beginning has arrived.
Close(k) ==
    /\ isOpen[k]
    /\ isOpen' = [isOpen EXCEPT ![k] = FALSE]
    /\ \E n \in before .. Len(received) : received' = SubSeq(received, 1, n)
    /\ UNCHANGED <<atOnce, length, phase, pos, upto, before, unseen>>

Next ==
    \/ AppendEvent
    \/ \E k \in Conns : Connect(k) \/ Replay(k) \/ Subscribe(k) \/ KeepAlive(k) \/ Close(k)

\* The loop and the timer go on; nothing makes a client close its stream.
Fairness == \A k \in Conns :
    WF_vars(Replay(k)) /\ WF_vars(Subscribe(k)) /\ WF_vars(KeepAlive(k))

Spec == Init /\ [][Next]_vars /\ Fairness

-----------------------------------------------------------------------------
TypeOK ==
    /\ atOnce \in BOOLEAN
    /\ length \in 0 .. MaxEvents
    /\ phase \in [Conns -> {"none", "replay", "ended", "live", "released"}]
    /\ isOpen \in [Conns -> BOOLEAN]
    /\ pos \in [Conns -> 1 .. MaxEvents + 1]
    /\ received \in Seq(1 .. length)
    /\ before \in 0 .. Len(received)
    /\ unseen \subseteq 1 .. length

(***************************************************************************)
(* Over all its connections the client gets each event at most once, and   *)
(* the events in their order, whatever was lost when one of them broke.    *)
(***************************************************************************)
NoneTwice == \A i \in 1 .. Len(received) - 1 : received[i] < received[i + 1]

(***************************************************************************)
(* From the first event it got the client misses none but those that were  *)
(* appended while a handler was between its query and its subscription.    *)
(***************************************************************************)
OnlyUnseenAreMissed ==
    received # << >> =>
        \A e \in Head(received) .. Last(received) : e \in Range(received) \cup unseen

(***************************************************************************)
(* The subscription of a stream that is closed is given back in the end,   *)
(* even if the stream was closed before there was a subscription.          *)
(***************************************************************************)
ClosedIsReleased ==
    \A k \in Conns : phase[k] # "none" /\ ~isOpen[k] ~> phase[k] = "released"
=============================================================================
