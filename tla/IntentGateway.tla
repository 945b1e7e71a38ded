---------------------------- MODULE IntentGateway ----------------------------
(***************************************************************************)
(* The gateway of src/core/api/http-server.ts, with the registry and the   *)
(* dispatch of src/core/api/intent-api.ts behind it: which requests are    *)
(* handled as which intents, and what is answered.  A client that got no   *)
(* answer sends its request again; the idempotency key is handed on and    *)
(* used by nothing.  Handlers are abstracted to whether they succeed.      *)
(***************************************************************************)
EXTENDS Naturals, Sequences, FiniteSets

CONSTANTS
    Requests,
    Asks,           \* what they may ask: [path, method, body]
    BuiltIn,        \* the intents registered from the start
    Late,           \* intents that are registered later
    MaxSends        \* bound: times a request is sent

VARIABLES
    asks,           \* request |-> what it asks
    registered,     \* the intents in the registry
    sends,          \* request |-> times it was sent
    pc,             \* request |-> where its handling is
    intent,         \* request |-> [name, type]: what it asks for after aliases
    answer,         \* request |-> the status of the last answer, 0 before
    handled,        \* the intents that were handled: [by, send, name, type, success]
    simulated       \* intents that were explained

vars == <<asks, registered, sends, pc, intent, answer, handled, simulated>>

\* A body: a message in words, or an intent; type is the agreementType of its payload.
Named(name, type) == [words |-> <<>>, name |-> name, type |-> type]
NoIntent == Named("", "")

INTENT_ALIASES ==
    [hire |-> Named("propose", "employment"), employ |-> Named("propose", "employment"),
     sell |-> Named("propose", "sale"), buy |-> Named("consent", ""),
     agree |-> Named("consent", ""), accept |-> Named("consent", "")]

\* Mutant of Resolved: the defaults of the alias win over the payload.
ResolvedOver(body) ==
    IF body.name \in DOMAIN INTENT_ALIASES
    THEN LET alias == INTENT_ALIASES[body.name]
         IN IF alias.type = "" THEN Named(alias.name, body.type) ELSE alias
    ELSE body

Resolved(body) ==
    IF body.name \in DOMAIN INTENT_ALIASES
    THEN LET alias == INTENT_ALIASES[body.name]
         IN IF body.type = "" THEN alias ELSE Named(alias.name, body.type)
    ELSE body

\* What a message is taken for: the first of these that it has a word of.
Understood(words) ==
    CASE words \cap {"hire", "employ"} # {} -> Named("propose", "employment")
      [] "sell" \in words -> Named("propose", "sale")
      [] words \cap {"agree", "accept", "consent"} # {} -> Named("consent", "")
      [] words \cap {"what can i do", "help"} # {} -> Named("what-can-i-do", "")
      [] OTHER -> NoIntent

Init ==
    /\ asks \in [Requests -> Asks]
    /\ registered = BuiltIn
    /\ sends = [r \in Requests |-> 0]
    /\ pc = [r \in Requests |-> "none"]
    /\ intent = [r \in Requests |-> NoIntent]
    /\ answer = [r \in Requests |-> 0]
    /\ handled = {}
    /\ simulated = {}

Answer(r, status) == answer' = [answer EXCEPT ![r] = status] /\ pc' = [pc EXCEPT ![r] = "answered"]

\* The answer, or the connection, is lost: the client knows nothing.
Send(r) ==
    /\ pc[r] \in {"none", "answered"}
    /\ sends[r] < MaxSends
    /\ sends' = [sends EXCEPT ![r] = @ + 1]
    /\ pc' = [pc EXCEPT ![r] = "sent"]
    /\ intent' = [intent EXCEPT ![r] = NoIntent]
    /\ answer' = [answer EXCEPT ![r] = 0]
    /\ UNCHANGED <<asks, registered, handled, simulated>>

Register(name) ==
    /\ registered' = registered \cup {name}
    /\ UNCHANGED <<asks, sends, pc, intent, answer, handled, simulated>>

-----------------------------------------------------------------------------
(* The routes.                                                             *)

To(r, paths) == pc[r] = "sent" /\ asks[r].path \in paths

\* A body that is not there makes the handler throw.
HandleIntend(r) ==
    LET body == asks[r].body
        meant == IF body[1].words = <<>> THEN body[1] ELSE Understood(body[1].words[1])
    IN /\ To(r, {"/", "/intent"})
       /\ IF asks[r].method # "POST" THEN Answer(r, 405) /\ UNCHANGED intent
          ELSE IF body = <<>> THEN Answer(r, 500) /\ UNCHANGED intent
          ELSE IF meant.name = "" THEN Answer(r, 400) /\ UNCHANGED intent
          ELSE /\ intent' = [intent EXCEPT ![r] = Resolved(meant)]
               /\ pc' = [pc EXCEPT ![r] = "validate"]
               /\ UNCHANGED answer
       /\ UNCHANGED <<asks, registered, sends, handled, simulated>>

\* Mutant of Validate: every intent is handed on.
ValidateNothing(r) ==
    /\ pc[r] = "validate"
    /\ pc' = [pc EXCEPT ![r] = "handle"]
    /\ UNCHANGED <<answer, asks, registered, sends, intent, handled, simulated>>

\* The payload is not looked at, only whether there is such an intent.
Validate(r) ==
    /\ pc[r] = "validate"
    /\ IF intent[r].name \in registered
       THEN pc' = [pc EXCEPT ![r] = "handle"] /\ UNCHANGED answer
       ELSE Answer(r, 400)
    /\ UNCHANGED <<asks, registered, sends, intent, handled, simulated>>

\* Mutant of Handle: a failure is answered like a success.
HandleAllWell(r, works) ==
    LET success == works /\ intent[r].name \in registered
    IN /\ pc[r] = "handle"
       /\ handled' = handled \cup {[by |-> r, send |-> sends[r], name |-> intent[r].name,
                                    type |-> intent[r].type, success |-> success]}
       /\ Answer(r, 200)
       /\ UNCHANGED <<asks, registered, sends, intent, simulated>>

\* What a handler throws is a failure.
Handle(r, works) ==
    LET success == works /\ intent[r].name \in registered
    IN /\ pc[r] = "handle"
       /\ handled' = handled \cup {[by |-> r, send |-> sends[r], name |-> intent[r].name,
                                    type |-> intent[r].type, success |-> success]}
       /\ Answer(r, IF success THEN 200 ELSE 422)
       /\ UNCHANGED <<asks, registered, sends, intent, simulated>>

\* No alias is resolved, and an intent that is not there has no effects.
HandleSimulate(r) ==
    LET body == asks[r].body
    IN /\ To(r, {"/simulate"})
       /\ IF asks[r].method # "POST" THEN Answer(r, 405) /\ UNCHANGED simulated
          ELSE IF body = <<>> THEN Answer(r, 500) /\ UNCHANGED simulated
          ELSE Answer(r, 200) /\ simulated' = simulated \cup {body[1].name}
       /\ UNCHANGED <<asks, registered, sends, intent, handled>>

\* What only reads.
Read(r, status) ==
    Answer(r, status) /\ UNCHANGED <<asks, registered, sends, intent, handled, simulated>>

\* All that is registered is available, to whoever asks.
HandleAffordances(r) == To(r, {"/affordances"}) /\ Read(r, 200)

HandleHealth(r) == To(r, {"/health"}) /\ Read(r, 200)

\* The intent the path ends in is the one the body names here.
HandleSchema(r) ==
    To(r, {"/schema/"}) /\ Read(r, IF asks[r].body[1].name \in registered THEN 200 ELSE 404)

HandleNothing(r) ==
    /\ pc[r] = "sent"
    /\ asks[r].path \notin {"/", "/intent", "/simulate", "/affordances", "/health", "/schema/"}
    /\ Read(r, 404)

Next ==
    \/ \E name \in Late : Register(name)
    \/ \E r \in Requests :
           \/ Send(r) \/ HandleIntend(r) \/ Validate(r) \/ HandleSimulate(r)
           \/ HandleAffordances(r) \/ HandleHealth(r) \/ HandleSchema(r) \/ HandleNothing(r)
           \/ \E works \in BOOLEAN : Handle(r, works)

Spec == Init /\ [][Next]_vars

-----------------------------------------------------------------------------
TypeOK ==
    /\ \A r \in Requests : pc[r] = "answered" <=> answer[r] # 0
    /\ \A h \in handled : h.send \in 1 .. sends[h.by]

(***************************************************************************)
(* The answer tells whether the request was handled: with success, without *)
(* it, or not at all; only what was posted as an intent is, once for each  *)
(* time it was sent; and it is an intent that was registered.              *)
(***************************************************************************)
AnswerTells ==
    \A r \in Requests :
        LET now == {h \in handled : h.by = r /\ h.send = sends[r]}
        IN /\ answer[r] \in {400, 404, 405, 500} \/ asks[r].path \notin {"/", "/intent"} => now = {}
           /\ answer[r] \in {200, 422} /\ asks[r].path \in {"/", "/intent"} =>
                  \E h \in now : now = {h} /\ (answer[r] = 200 <=> h.success) /\ h.name \in registered

(***************************************************************************)
(* A word is the intent that bears its name, whether it is said or named,  *)
(* and what was asked for explicitly is what is handled.                   *)
(***************************************************************************)
WordsAreIntents ==
    \A h \in handled :
        LET body == asks[h.by].body[1]
        IN /\ body.words = <<>> /\ body.type # "" => h.type = body.type
           /\ \A w \in DOMAIN INTENT_ALIASES :
                  body.words = <<{w}>> \/ (body.name = w /\ body.type = "") =>
                      h.name = INTENT_ALIASES[w].name /\ h.type = INTENT_ALIASES[w].type
=============================================================================
