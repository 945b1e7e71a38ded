----------------------------- MODULE WebSockets -----------------------------
(***************************************************************************)
(* The WebSocket connections (src/antenna/websocket.ts): who is in the     *)
(* server's table, with several connections, and what is answered on one   *)
(* of them: each has a specification of its own, in a section of its own.  *)
(***************************************************************************)
EXTENDS Naturals, FiniteSets, Sequences, SequencesExt

CONSTANTS
    \* Connections and the table.
    Conns,      \* connections, each made once
    Ids,        \* ids of subscriptions
    MaxSubs,    \* maxSubscriptionsPerConnection
    None,       \* no connection
    \* Messages.
    Messages,   \* messages of the client, each handled once
    MaxEvents   \* bound: events in the store

VARIABLES
    \* Connections and the table.
    fate,       \* connection |-> "none", "open", "closed" or "dropped"
    subscribedBy,       \* connection |-> the ids it has subscribed
    table,      \* id |-> the connection the server sends it to
    isAlive,    \* connection |-> whether it answered the last ping
    pings,      \* connection |-> pings sent since it last answered
    contested,  \* ids that two open connections have subscribed
    \* Messages.
    isOpen,
    events,     \* events in the store
    message,    \* message |-> [kind, pc], and what it goes on with
    subscribed, \* the subscriptions of the connection, named for their messages
    recorded,   \* messages whose intent has appended an event
    sent        \* the answers: [to, type]

-----------------------------------------------------------------------------
(***************************************************************************)
(* The server side of the WebSocket connections (src/antenna/websocket.ts):*)
(* each connection keeps the ids of its subscriptions, the server a table  *)
(* from the id to the connection.  Clients choose the ids.  A heartbeat    *)
(* pings every connection and drops those that have not answered the last. *)
(* broadcast changes nothing: it sends to the connection the table names.  *)
(***************************************************************************)
socketVars == <<fate, subscribedBy, table, isAlive, pings, contested>>

Open == {c \in Conns : fate[c] = "open"}

-----------------------------------------------------------------------------
SocketInit ==
    /\ fate = [c \in Conns |-> "none"]
    /\ subscribedBy = [c \in Conns |-> {}]
    /\ table = [i \in Ids |-> None]
    /\ isAlive = [c \in Conns |-> FALSE]
    /\ pings = [c \in Conns |-> 0]
    /\ contested = {}

\* Mutant of NewIsAlive: a connection has to answer before it counts.
NewIsDead == FALSE

NewIsAlive == TRUE

HandleConnection(c) ==
    /\ fate[c] = "none"
    /\ fate' = [fate EXCEPT ![c] = "open"]
    /\ isAlive' = [isAlive EXCEPT ![c] = NewIsAlive]
    /\ UNCHANGED <<subscribedBy, table, pings, contested>>

\* Whoever subscribes an id takes it from the connection that had it.
HandleSubscribe(c, i) ==
    /\ fate[c] = "open" /\ Cardinality(subscribedBy[c]) < MaxSubs
    /\ subscribedBy' = [subscribedBy EXCEPT ![c] = @ \cup {i}]
    /\ table' = [table EXCEPT ![i] = c]
    /\ contested' = IF \E d \in Open \ {c} : i \in subscribedBy[d] THEN contested \cup {i} ELSE contested
    /\ UNCHANGED <<fate, isAlive, pings>>

\* Mutant of HandleUnsubscribe: whatever id the client names is given up.
HandleUnsubscribeAny(c, i) ==
    /\ fate[c] = "open"
    /\ subscribedBy' = [subscribedBy EXCEPT ![c] = @ \ {i}]
    /\ table' = [table EXCEPT ![i] = None]
    /\ UNCHANGED <<fate, isAlive, pings, contested>>

HandleUnsubscribe(c, i) ==
    /\ fate[c] = "open" /\ i \in subscribedBy[c]
    /\ subscribedBy' = [subscribedBy EXCEPT ![c] = @ \ {i}]
    /\ table' = [table EXCEPT ![i] = None]
    /\ UNCHANGED <<fate, isAlive, pings, contested>>

\* Mutant of Forget: the table is left as it is.
ForgetNone(gone) == table

\* handleDisconnection takes the ids of the connection out of the table.
Forget(gone) == [i \in Ids |-> IF \E c \in gone : i \in subscribedBy[c] THEN None ELSE table[i]]

Disconnect(gone, how) ==
    /\ table' = Forget(gone)
    /\ fate' = [c \in Conns |-> IF c \in gone THEN how ELSE fate[c]]

\* The client closes the connection, or it breaks.
Close(c) ==
    /\ fate[c] = "open"
    /\ Disconnect({c}, "closed")
    /\ UNCHANGED <<subscribedBy, isAlive, pings, contested>>

\* Mutant of SendHeartbeat: who is pinged still counts as alive.
SendHeartbeatTrusting ==
    /\ Open # {}
    /\ Disconnect({c \in Open : ~isAlive[c]}, "dropped")
    /\ pings' = [c \in Conns |-> IF isAlive[c] THEN pings[c] + 1 ELSE pings[c]]
    /\ UNCHANGED <<subscribedBy, isAlive, contested>>

SendHeartbeat ==
    LET dead == {c \in Open : ~isAlive[c]}
        kept == Open \ dead
    IN /\ Open # {}
       /\ Disconnect(dead, "dropped")
       /\ isAlive' = [c \in Conns |-> IF c \in kept THEN FALSE ELSE isAlive[c]]
       /\ pings' = [c \in Conns |-> IF c \in kept THEN pings[c] + 1 ELSE pings[c]]
       /\ UNCHANGED <<subscribedBy, contested>>

\* The answer to the pings; it may be late or never come.
Pong(c) ==
    /\ fate[c] = "open" /\ pings[c] > 0
    /\ isAlive' = [isAlive EXCEPT ![c] = TRUE]
    /\ pings' = [pings EXCEPT ![c] = 0]
    /\ UNCHANGED <<fate, subscribedBy, table, contested>>

SocketNext ==
    \/ \E c \in Conns : HandleConnection(c) \/ Close(c) \/ Pong(c)
    \/ \E c \in Conns, i \in Ids : HandleSubscribe(c, i) \/ HandleUnsubscribe(c, i)
    \/ SendHeartbeat

SocketSpec == SocketInit /\ [][SocketNext]_socketVars

-----------------------------------------------------------------------------
SocketTypeOK ==
    /\ fate \in [Conns -> {"none", "open", "closed", "dropped"}]
    /\ subscribedBy \in [Conns -> SUBSET Ids]
    /\ table \in [Ids -> Conns \cup {None}]
    /\ isAlive \in [Conns -> BOOLEAN]
    /\ pings \in [Conns -> 0 .. 1]
    /\ contested \subseteq Ids

(***************************************************************************)
(* What the server sends goes to an open connection that has asked for it. *)
(***************************************************************************)
TableIsWanted ==
    \A i \in Ids : table[i] # None => table[i] \in Open /\ i \in subscribedBy[table[i]]

(***************************************************************************)
(* What an open connection has subscribed it is sent, unless another one   *)
(* used the same id while it did: that connection leaving, unsubscribing   *)
(* or only subscribing takes the events away from the first.               *)
(***************************************************************************)
SubscribedIsServed ==
    \A c \in Open : \A i \in subscribedBy[c] \ contested : table[i] = c

(***************************************************************************)
(* A heartbeat drops a connection only if a ping was sent to it and a      *)
(* whole interval has passed without an answer.                            *)
(***************************************************************************)
OnlySilentAreDropped ==
    \A c \in Conns : fate[c] = "dropped" => pings[c] > 0

-----------------------------------------------------------------------------
(***************************************************************************)
(* The messages of one WebSocket connection (src/antenna/websocket.ts, with*)
(* the handlers that src/antenna/server.ts gives it).  Each message is     *)
(* handled as it comes, also while an earlier one awaits something, and is *)
(* answered if the connection is open by then.  An event has a sequence    *)
(* number that JSON.stringify refuses, so that what holds one cannot be    *)
(* sent.  Whose subscription is in the server's table is in WebSockets.    *)
(***************************************************************************)
messageVars == <<isOpen, events, message, subscribed, recorded, sent>>

MessageInit ==
    /\ isOpen = TRUE
    /\ events \in 0 .. 1
    /\ message = [m \in Messages |-> [kind |-> "none", pc |-> "none"]]
    /\ subscribed = {}
    /\ recorded = {}
    /\ sent = <<>>

\* Nothing is written, and nothing refused, when the connection has closed.
Send(m, types) ==
    sent' = IF isOpen THEN sent \o [i \in DOMAIN types |-> [to |-> m, type |-> types[i]]] ELSE sent

Handled(m, kind) ==
    /\ message[m].pc = "none"
    /\ message' = [message EXCEPT ![m] = [kind |-> kind, pc |-> "done"]]

Ping(m) == isOpen /\ Handled(m, "ping") /\ Send(m, <<"pong">>) /\ UNCHANGED <<isOpen, events, subscribed, recorded>>

\* Neither JSON nor an action that is known, or a subscribe without the
\* subscription it asks for.
Refuse(m) ==
    isOpen /\ Handled(m, "unknown") /\ Send(m, <<"error">>) /\ UNCHANGED <<isOpen, events, subscribed, recorded>>

\* An id that the connection has not subscribed is not answered.
Unsubscribe(m, s) ==
    /\ isOpen
    /\ Handled(m, "unsubscribe")
    /\ subscribed' = subscribed \ {s}
    /\ Send(m, IF s \in subscribed THEN <<"unsubscribed">> ELSE <<>>)
    /\ UNCHANGED <<isOpen, events, recorded>>

CloseConnection == isOpen /\ isOpen' = FALSE /\ UNCHANGED <<events, message, subscribed, recorded, sent>>

\* Somebody else's event; no call of broadcast tells of it.
AppendEvent ==
    /\ events < MaxEvents
    /\ events' = events + 1
    /\ UNCHANGED <<isOpen, message, subscribed, recorded, sent>>

-----------------------------------------------------------------------------
(* subscribe and its replay.                                               *)

\* The last so many are counted from a promise, which throws, after the
\* subscription was confirmed.
Subscribe(m, replay, types) ==
    /\ isOpen
    /\ message[m].pc = "none"
    /\ subscribed' = subscribed \cup {m}
    /\ message' = [message EXCEPT ![m] = [kind |-> "subscribe", types |-> types, replay |-> replay,
                                          pc |-> IF replay = "beginning" THEN "replays" ELSE "done"]]
    /\ Send(m, IF replay = "last" THEN <<"subscribed", "error">> ELSE <<"subscribed">>)
    /\ UNCHANGED <<isOpen, events, recorded>>

\* Mutant of ReplayedFrom: the first event is passed over.
ReplayedFromSecond == 2

ReplayedFrom == 0

\* The filter of types looks for eventType, which an event of the store does
\* not have: with it none matches.
Matching(m) == IF message[m].types THEN {} ELSE {e \in 1 .. events : e >= ReplayedFrom}

\* The first event that matches cannot be written, and the replay throws.
Replay(m) ==
    /\ message[m].pc = "replays"
    /\ message' = [message EXCEPT ![m] = [kind |-> "subscribe", types |-> message[m].types, replay |-> "beginning",
                                          pc |-> "done", there |-> IF isOpen THEN events ELSE 0]]
    /\ Send(m, IF Matching(m) = {} THEN <<>> ELSE <<"error">>)
    /\ UNCHANGED <<isOpen, events, subscribed, recorded>>

-----------------------------------------------------------------------------
(* intend and chat.                                                        *)

Intend(m) ==
    /\ isOpen
    /\ message[m].pc = "none"
    /\ message' = [message EXCEPT ![m] = [kind |-> "intend", pc |-> "runs"]]
    /\ UNCHANGED <<isOpen, events, subscribed, recorded, sent>>

\* Without the intent it should bring: the handler that server.ts gives
\* throws when it reads it, before anything has run.
IntendNothing(m) ==
    isOpen /\ Handled(m, "bare intend") /\ Send(m, <<"intentFailed">>) /\ UNCHANGED <<isOpen, events, subscribed, recorded>>

\* With an event in its result; what throws below the handler becomes a
\* result without one.
IntentRecords(m) ==
    /\ message[m].kind = "intend" /\ message[m].pc = "runs"
    /\ events < MaxEvents
    /\ events' = events + 1
    /\ recorded' = recorded \cup {m}
    /\ message' = [message EXCEPT ![m].pc = "ran"]
    /\ UNCHANGED <<isOpen, subscribed, sent>>

IntentRefuses(m) ==
    /\ message[m].kind = "intend" /\ message[m].pc = "runs"
    /\ message' = [message EXCEPT ![m].pc = "ran"]
    /\ UNCHANGED <<isOpen, events, subscribed, recorded, sent>>

\* Mutant of IntentAnswer: it is acknowledged and then answered.
IntentAnswerTwice(m) ==
    IF m \in recorded THEN <<"intentResult", "intentFailed">> ELSE <<"intentResult">>

\* Mutant of IntentAnswer: every intent is told to have failed.
IntentAnswerFailed(m) == <<"intentFailed">>

\* A result with an event cannot be written: the client is told of an error.
IntentAnswer(m) == IF m \in recorded THEN <<"intentFailed">> ELSE <<"intentResult">>

AnswerIntent(m) ==
    /\ message[m].kind = "intend" /\ message[m].pc = "ran"
    /\ message' = [message EXCEPT ![m].pc = "done"]
    /\ Send(m, IntentAnswer(m))
    /\ UNCHANGED <<isOpen, events, subscribed, recorded>>

Chat(m) ==
    /\ isOpen
    /\ message[m].pc = "none"
    /\ message' = [message EXCEPT ![m] = [kind |-> "chat", pc |-> "runs"]]
    /\ UNCHANGED <<isOpen, events, subscribed, recorded, sent>>

AnswerChat(m) ==
    /\ message[m].kind = "chat" /\ message[m].pc = "runs"
    /\ message' = [message EXCEPT ![m].pc = "done"]
    /\ \E type \in {"chatResponse", "error"} : Send(m, <<type>>)
    /\ UNCHANGED <<isOpen, events, subscribed, recorded>>

MessageNext ==
    \/ \E m \in Messages :
        \/ Ping(m) \/ Refuse(m) \/ Replay(m)
        \/ \E s \in Messages : Unsubscribe(m, s)
        \/ \E replay \in {"none", "last", "beginning"}, types \in BOOLEAN : Subscribe(m, replay, types)
        \/ Intend(m) \/ IntendNothing(m) \/ IntentRecords(m) \/ IntentRefuses(m) \/ AnswerIntent(m)
        \/ Chat(m) \/ AnswerChat(m)
    \/ CloseConnection
    \/ AppendEvent

MessageSpec == MessageInit /\ [][MessageNext]_messageVars

-----------------------------------------------------------------------------
AnswersTo(m) ==
    LET mine == SelectSeq(sent, LAMBDA a : a.to = m) IN [i \in DOMAIN mine |-> mine[i].type]

MessageTypeOK ==
    /\ isOpen \in BOOLEAN /\ events \in 0 .. MaxEvents
    /\ subscribed \cup recorded \subseteq Messages
    /\ \A m \in Messages : message[m].pc \in {"none", "runs", "ran", "replays", "done"}

\* A message has one answer, whatever else is handled before it comes, but
\* for a subscription, which is told an error after its confirmation when
\* its replay fails and stays subscribed (handleMessage, handleSubscribe).
OneAnswer ==
    \A m \in Messages : Len(AnswersTo(m)) > 1 =>
        /\ message[m].kind = "subscribe" /\ message[m].replay # "none"
        /\ AnswersTo(m) = <<"subscribed", "error">>

\* Every message that was handled before the connection closed is answered,
\* unless it was to take back a subscription that was not there.
HandledIsAnswered ==
    isOpen => \A m \in Messages : message[m].pc = "done" /\ AnswersTo(m) = <<>> => message[m].kind = "unsubscribe"

\* Who is told that an intent failed, and had sent one, is told so after it
\* has changed the ledger: an intent that did nothing has a result that can
\* be sent (handleIntent).
FailedHasRun ==
    \A i \in DOMAIN sent : sent[i].type = "intentFailed" =>
        sent[i].to \in recorded \/ message[sent[i].to].kind = "bare intend"

\* A replay that ends without a word, and whose subscription has no filter
\* of types, had nothing to tell (replayEvents).
SilentReplayIsEmpty ==
    \A m \in subscribed :
        message[m].pc = "done" /\ message[m].replay = "beginning" /\ ~message[m].types /\ AnswersTo(m) = <<"subscribed">>
            => message[m].there = 0
=============================================================================
