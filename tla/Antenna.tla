-------------------------------- MODULE Antenna --------------------------------
(***************************************************************************)
(* The life of the HTTP server of src/antenna/server.ts: start prepares    *)
(* the language model, the storage, the event store with its projections   *)
(* and the agent, each time it is called, and listens last; stop takes     *)
(* down what the shared variables name at that moment.  Requests are       *)
(* routed to whatever agent is the latest when their body has arrived.     *)
(* The sessions of an agent die with it.  Intents are modelled elsewhere   *)
(* (IntentEndpoint); here is what is asked of the agent.                   *)
(***************************************************************************)
EXTENDS Naturals, FiniteSets

CONSTANTS
    Starts,     \* calls of start, 1 .. n, each made once and in that order
    Stops,      \* calls of stop, likewise
    Requests,   \* requests, each sent once
    Asks,       \* what they may ask: functions from requests to [kind, of]
    Configs     \* configurations of the process

VARIABLES
    config,     \* what the process was configured with
    starts,     \* call |-> where it stands
    named,      \* the manager, agent, server and socket server the variables name
    running,    \* what runs: managers that poll, servers that listen, socket servers
    stops,      \* call |-> "", or what ran when it returned
    requests,   \* request |-> [kind, of, pc, agent, answer]
    sessions,   \* <<agent, request that started it>>
    alive,      \* the process has not died
    again       \* start was called with an earlier call neither failed nor stopped

vars == <<config, starts, named, running, stops, requests, sessions, alive, again>>

Posts == {"chat", "chatStart", "chatNone", "sessionStart"}
AsksOf == {"chat", "getSession", "suggestions"}
Nothing == [managers |-> {}, servers |-> {}, sockets |-> {}]

-----------------------------------------------------------------------------
Init ==
    /\ config \in Configs
    /\ starts = [s \in Starts |-> "idle"]
    /\ named = [manager |-> 0, agent |-> 0, server |-> 0, sockets |-> 0, llm |-> FALSE]
    /\ running = Nothing
    /\ stops = [s \in Stops |-> [done |-> FALSE, left |-> {}, during |-> {}]]
    /\ \E asked \in Asks :
           requests = [r \in Requests |-> [kind |-> asked[r].kind, of |-> asked[r].of,
                                           pc |-> "idle", agent |-> 0, answer |-> ""]]
    /\ sessions = {}
    /\ alive = TRUE
    /\ again = FALSE

UnderWay == {s \in Starts : starts[s] \notin {"idle", "failed", "listening", "stopped"}}
Goto(s, where) == starts' = [starts EXCEPT ![s] = where]

\* start: a configuration that does not validate throws; a language model
\* that is there already is not made again.
Start(s) ==
    /\ alive /\ starts[s] = "idle"
    /\ \A t \in Starts : t < s => starts[t] # "idle"
    /\ again' = (again \/ \E t \in Starts : starts[t] \notin {"idle", "failed", "stopped"})
    /\ \/ Goto(s, "failed") /\ UNCHANGED named
       \/ /\ Goto(s, IF ~named.llm /\ config.key THEN "model" ELSE "storage")
          /\ named' = [named EXCEPT !.llm = TRUE]
    /\ UNCHANGED <<config, running, stops, requests, sessions, alive>>

LLMInitialized(s) ==
    /\ alive /\ starts[s] = "model"
    /\ Goto(s, "storage")
    /\ UNCHANGED <<config, named, running, stops, requests, sessions, alive, again>>

\* The agent and its router, up to the import of node:http.
CreateAgent(s, manager) ==
    named' = [named EXCEPT !.manager = manager, !.agent = s]

\* S3 and git are there or not: start goes on either way.  A manager is
\* named before it is started, and only with PostgreSQL.
StorageInitialized(s) ==
    /\ alive /\ starts[s] = "storage"
    /\ IF config.postgres
       THEN Goto(s, "projections") /\ named' = [named EXCEPT !.manager = s]
       ELSE Goto(s, "http") /\ CreateAgent(s, named.manager)
    /\ UNCHANGED <<config, running, stops, requests, sessions, alive, again>>

\* ProjectionManager.start processes once, whatever comes of it, and polls.
ProjectionsStarted(s) ==
    /\ alive /\ starts[s] = "projections"
    /\ Goto(s, "http")
    /\ CreateAgent(s, named.manager)
    /\ running' = [running EXCEPT !.managers = @ \cup {s}]
    /\ UNCHANGED <<config, stops, requests, sessions, alive, again>>

\* Mutant of ListenAfter: the server listens before the agent is made.
ListenEarly == {"projections", "http"}

ListenAfter == {"http"}

CreateServer(s) ==
    /\ alive /\ starts[s] \in ListenAfter
    /\ Goto(s, "binding")
    /\ named' = [named EXCEPT !.server = s]
    /\ UNCHANGED <<config, running, stops, requests, sessions, alive, again>>

\* The port is bound and the callback of listen runs, or the port is taken:
\* nobody hears the error of the server and the process dies.
Listening(s) ==
    /\ alive /\ starts[s] = "binding"
    /\ IF running.servers = {}
       THEN /\ Goto(s, "listening")
            /\ running' = [running EXCEPT !.servers = {s}, !.sockets = IF config.handler THEN @ \cup {s} ELSE @]
            /\ named' = [named EXCEPT !.sockets = IF config.handler THEN s ELSE @]
            /\ UNCHANGED <<alive, requests>>
       ELSE /\ alive' = FALSE
            /\ running' = Nothing
            /\ requests' = [r \in Requests |-> IF requests[r].answer # "" THEN requests[r]
                                               ELSE [requests[r] EXCEPT !.pc = "lost"]]
            /\ UNCHANGED <<starts, named>>
    /\ UNCHANGED <<config, stops, sessions, again>>

\* Mutant of Stopped: the projections keep polling.
StoppedButPolling == [Nothing EXCEPT !.managers = running.managers]

\* Mutant of Stopped: connections of web sockets stay open.
StoppedButSockets == [Nothing EXCEPT !.sockets = running.sockets, !.managers = running.managers \ {named.manager}]

Stopped ==
    [managers |-> running.managers \ {named.manager},
     servers |-> running.servers \ {named.server},
     sockets |-> running.sockets \ {named.sockets}]

Stop(c) ==
    /\ alive /\ ~stops[c].done /\ \A d \in Stops : d < c => stops[d].done
    /\ running' = Stopped
    /\ named' = [named EXCEPT !.sockets = 0]
    /\ stops' = [stops EXCEPT ![c] = [done |-> TRUE, during |-> UnderWay,
                                      left |-> UNION {Stopped[k] : k \in DOMAIN Stopped}]]
    /\ starts' = [s \in Starts |-> IF starts[s] = "listening" /\ s \notin Stopped.servers
                                   THEN "stopped" ELSE starts[s]]
    /\ UNCHANGED <<config, requests, sessions, alive, again>>

-----------------------------------------------------------------------------
\* The session a request is about: one that was told to somebody.
Told(q) == \E a \in Starts : <<a, q>> \in sessions /\ requests[q].answer = "200"
Known(r) == requests[r].kind \notin AsksOf \/ requests[r].of = r \/ Told(requests[r].of)

Moves(r, pc, agent, answer) ==
    requests' = [requests EXCEPT ![r].pc = pc, ![r].agent = agent, ![r].answer = answer]
Answers(r, code) == Moves(r, "answered", requests[r].agent, code)

\* A request comes in: a preflight is answered, the body of a POST awaited.
Receive(r) ==
    /\ requests[r].pc = "idle" /\ running.servers # {} /\ Known(r)
    /\ IF requests[r].kind = "preflight"
       THEN \E allowed \in IF config.production THEN BOOLEAN ELSE {TRUE} :
                Answers(r, IF allowed THEN "204" ELSE "403")
       ELSE Moves(r, IF requests[r].kind \in Posts THEN "body" ELSE "routed", 0, "")
    /\ UNCHANGED <<config, starts, named, running, stops, sessions, alive, again>>

\* parseBody: what is not JSON counts as no body at all.
ParseBody(r) ==
    /\ alive /\ requests[r].pc = "body"
    /\ \E json \in BOOLEAN :
           IF json \/ requests[r].kind = "chatNone" THEN Moves(r, "routed", 0, "")
           ELSE IF requests[r].kind \in {"chat", "chatStart"} THEN Answers(r, "400")
           ELSE Moves(r, "routed", 0, "")
    /\ UNCHANGED <<config, starts, named, running, stops, sessions, alive, again>>

\* What a request that fails is answered: the contract of a chat is a 500,
\* of all else a 200 that says so.
Failed(r) == IF requests[r].kind \in {"chat", "chatStart"} THEN "500" ELSE "200 failed"

HasSession(r) == <<named.agent, requests[r].of>> \in sessions

\* The routes, up to the first await on the agent of that moment.
Route(r) ==
    /\ alive /\ requests[r].pc = "routed"
    /\ CASE requests[r].kind = "health" -> Answers(r, "200")
         [] requests[r].kind = "nowhere" -> Answers(r, "404")
         [] requests[r].kind = "chatNone" -> Answers(r, "400")
         [] OTHER ->
            IF named.agent = 0 THEN Answers(r, Failed(r))
            ELSE CASE requests[r].kind = "getSession" -> Answers(r, IF HasSession(r) THEN "200" ELSE "404")
                   [] requests[r].kind = "suggestions" -> Answers(r, "200")
                   [] requests[r].kind = "chat" ->
                      IF HasSession(r) THEN Moves(r, "chatting", named.agent, "")
                      ELSE Answers(r, Failed(r))
                   [] OTHER -> Moves(r, "starting", named.agent, "")
    /\ UNCHANGED <<config, starts, named, running, stops, sessions, alive, again>>

\* Mutant of SessionIn: the session is started with the agent of now.
SessionNow(r) == named.agent

SessionIn(r) == requests[r].agent

\* agent.startSession, after which the router chats; /session/start says
\* a welcome that asks the model for nothing.
StartSession(r) ==
    /\ alive /\ requests[r].pc = "starting"
    /\ sessions' = sessions \cup {<<SessionIn(r), r>>}
    /\ IF requests[r].kind = "sessionStart" THEN Answers(r, "200")
       ELSE Moves(r, "chatting", requests[r].agent, "")
    /\ UNCHANGED <<config, starts, named, running, stops, alive, again>>

Chat(r) ==
    /\ alive /\ requests[r].pc = "chatting"
    /\ \E code \in {"200", Failed(r)} : Answers(r, code)
    /\ UNCHANGED <<config, starts, named, running, stops, sessions, alive, again>>

Next ==
    \/ \E s \in Starts :
           \/ Start(s) \/ LLMInitialized(s) \/ StorageInitialized(s)
           \/ ProjectionsStarted(s) \/ CreateServer(s) \/ Listening(s)
    \/ \E c \in Stops : Stop(c)
    \/ \E r \in Requests : Receive(r) \/ ParseBody(r) \/ Route(r) \/ StartSession(r) \/ Chat(r)

Spec == Init /\ [][Next]_vars

-----------------------------------------------------------------------------
TypeOK ==
    /\ starts \in [Starts -> {"idle", "failed", "model", "storage", "projections", "http",
                              "binding", "listening", "stopped"}]
    /\ running \in [managers : SUBSET Starts, servers : SUBSET Starts, sockets : SUBSET Starts]
    /\ \A r \in Requests :
           /\ requests[r].pc \in {"idle", "body", "routed", "starting", "chatting", "answered", "lost"}
           /\ requests[r].answer \in {"", "200", "200 failed", "204", "400", "403", "404", "500"}
    /\ sessions \subseteq Starts \X Requests
    /\ alive \in BOOLEAN /\ again \in BOOLEAN

(***************************************************************************)
(* A server that listens has an agent to ask, so that no request meets     *)
(* "Agent not initialized", and over PostgreSQL a manager that polls,      *)
(* unless a stop ran while it was being started: that one takes the        *)
(* manager from it and leaves it to listen (with two starts under way, a   *)
(* stop takes the manager of one and the server of the other).             *)
(***************************************************************************)
ListensWhenReady ==
    /\ running.servers # {} => named.agent # 0
    /\ config.postgres /\ (again => \A c \in Stops : ~stops[c].done) =>
           running.servers \subseteq running.managers \cup UNION {stops[c].during : c \in Stops}
    /\ \A r \in Requests : requests[r].answer = "200 failed" => requests[r].agent # 0

(***************************************************************************)
(* After a stop nothing polls, listens or holds connections, unless start  *)
(* was called twice without a stop between: then only the later one's is   *)
(* named, and stopped.  (A start under way at the stop goes on: it listens *)
(* afterwards.)                                                            *)
(***************************************************************************)
StopStops == \A c \in Stops : stops[c].done /\ ~again => stops[c].left = {}

(***************************************************************************)
(* A session that was told to a client is found as long as the agent it    *)
(* belongs to is the one that is asked: a chat that comes back 500 or a    *)
(* session that is not found means a restart, or a chat that failed.       *)
(***************************************************************************)
ToldIsFound ==
    \A r \in Requests :
        /\ requests[r].kind = "getSession" /\ requests[r].of # r /\ requests[r].answer = "404"
           => <<named.agent, requests[r].of>> \notin sessions
        /\ requests[r].answer = "200" /\ requests[r].kind \in {"chat", "chatStart", "sessionStart"}
           => <<requests[r].agent, requests[r].of>> \in sessions
=============================================================================
