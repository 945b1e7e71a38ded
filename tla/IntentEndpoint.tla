--------------------------- MODULE IntentEndpoint ---------------------------
(***************************************************************************)
(* POST /intent and /auth/delegate of src/antenna/server.ts: the rate      *)
(* limit of the realm, kept in Redis and shared by every server process    *)
(* (src/core/operational/rate-limiter-redis.ts), and behind it the intents *)
(* the server hands to the admin module, of which those on API keys have   *)
(* their state here (src/antenna/admin.ts).  All requests are of one realm *)
(* and on one key.  createRealm is in RealmManager, the intents that are   *)
(* passed on to the intent handler are in IntentHandlers: here they come   *)
(* to an end as soon as they are let in.                                   *)
(*                                                                         *)
(* verifyApiKey is called without an event store and answers null at once, *)
(* so the realm is the one the request names.  createUser is called with   *)
(* the handler of the configuration, not with the one start() has made:    *)
(* without one there is no event store, no realm is found, it throws.      *)
(***************************************************************************)
EXTENDS Naturals, Integers, Sequences, FiniteSets, SequencesExt

CONSTANTS
    Requests,   \* requests, each made once
    Mixes,      \* what they ask for: functions from Requests to operations
    Limit,      \* limit of the window
    MaxWindows, \* bound on the windows
    Checkeds    \* whether the store checks versions

VARIABLES
    asks,       \* request |-> operation
    checked,    \* which store is configured
    pc,         \* request |-> its next step
    answer,     \* request |-> "none", "ok", "limited", "notfound", ..., "lost"
    seen,       \* request |-> what it has read
    counter,    \* the counter in Redis: [there, n, expires]
    window,     \* windows that have ended
    late,       \* counts given back to a window by requests of an earlier one
    log         \* events of the API key: [type, version, by]

vars == <<asks, checked, pc, answer, seen, counter, window, late, log>>

-----------------------------------------------------------------------------
(* Requests as sequences of awaited steps.                                 *)

\* INCR and, when it gave 1, PEXPIRE.
Count == <<"incr", "expire">>

\* rateLimiter.check, and rateLimiter.record for the requests it let in.
Gate == Count \o <<"check">> \o Count

CreateKey  == <<"appendCreated">>
RevokeKey  == <<"read", "appendRevoked">>
ListKeys   == <<"list">>
CreateUser == <<"throw">>
PassOn     == << >>

Route(r) == CASE asks[r] = "createApiKey" -> CreateKey
              [] asks[r] = "revokeApiKey" -> RevokeKey
              [] asks[r] = "listApiKeys"  -> ListKeys
              [] asks[r] = "createUser"   -> CreateUser
              [] asks[r] = "intent"       -> PassOn

\* POST /auth/delegate makes a key as well; it has no rate limit.
Delegate   == CreateKey

Steps(r) == IF asks[r] = "delegate" THEN Delegate ELSE Gate \o Route(r)

At(r, step) ==
    /\ answer[r] = "none"
    /\ pc[r] \in 1..Len(Steps(r)) /\ Steps(r)[pc[r]] = step

Go(r) == pc' = [pc EXCEPT ![r] = @ + 1] /\ UNCHANGED answer
Return(r, a) == answer' = [answer EXCEPT ![r] = a] /\ UNCHANGED pc

NoCounter == [there |-> FALSE, n |-> 0, expires |-> FALSE]

Init ==
    /\ asks \in Mixes
    /\ checked \in Checkeds
    /\ pc = [r \in Requests |-> 1]
    /\ answer = [r \in Requests |-> "none"]
    /\ seen = [r \in Requests |-> [count |-> 0, window |-> 0, latest |-> 0, began |-> 0]]
    /\ counter = NoCounter
    /\ window = 0
    /\ late = 0
    /\ log = <<[type |-> "created", version |-> 1, by |-> 0]>>

-----------------------------------------------------------------------------
(* The rate limit.                                                         *)

Incr(r) ==
    /\ At(r, "incr")
    /\ counter' = [counter EXCEPT !.there = TRUE, !.n = @ + 1]
    /\ seen' = [seen EXCEPT ![r].count = counter.n + 1,
                    ![r].window = IF pc[r] = 1 THEN window ELSE @,
                    ![r].began = IF pc[r] = 1 THEN Len(log) ELSE @]
    /\ Go(r)
    /\ UNCHANGED <<asks, checked, window, late, log>>

\* Mutant of Expire: only the check starts a window, not the record.
ExpireOfCheck(r) ==
    /\ At(r, "expire")
    /\ counter' = [counter EXCEPT !.expires = @ \/ (pc[r] = 2 /\ seen[r].count = 1 /\ counter.there)]
    /\ Go(r)
    /\ UNCHANGED <<asks, checked, seen, window, late, log>>

\* PEXPIRE on a key that has gone meanwhile does nothing.
Expire(r) ==
    /\ At(r, "expire")
    /\ counter' = [counter EXCEPT !.expires = @ \/ (seen[r].count = 1 /\ counter.there)]
    /\ Go(r)
    /\ UNCHANGED <<asks, checked, seen, window, late, log>>

\* Mutant of Allowed: one too many.
AllowedOneMore(count) == count <= Limit + 1

Allowed(count) == count <= Limit

\* The end of check: a request that is over the limit gives its count back,
\* to whatever window there is by then.
Check(r) ==
    /\ At(r, "check")
    /\ IF Allowed(seen[r].count) THEN Go(r) /\ UNCHANGED <<counter, late>>
       ELSE /\ counter' = [counter EXCEPT !.there = TRUE, !.n = @ - 1]
            /\ late' = IF seen[r].window = window THEN late ELSE late + 1
            /\ Return(r, "limited")
    /\ UNCHANGED <<asks, checked, seen, window, log>>

\* The key expires.
WindowEnds ==
    /\ counter.expires /\ window < MaxWindows
    /\ counter' = NoCounter
    /\ window' = window + 1
    /\ late' = 0
    /\ UNCHANGED <<asks, checked, pc, answer, seen, log>>

-----------------------------------------------------------------------------
(* The intents behind it.                                                  *)

AppendKeyEvent(r, type, version) ==
    IF checked /\ version # Len(log) + 1
    THEN Return(r, "error") /\ UNCHANGED log
    ELSE Go(r) /\ log' = Append(log, [type |-> type, version |-> version, by |-> r])

\* createApiKey makes a key of its own, which nobody else knows.
CreateApiKey(r) ==
    /\ At(r, "appendCreated")
    /\ Go(r)
    /\ UNCHANGED <<asks, checked, seen, counter, window, late, log>>

\* revokeApiKey: the latest event has to be the creation.
ReadLatest(r) ==
    /\ At(r, "read")
    /\ IF Last(log).type = "created"
       THEN Go(r) /\ seen' = [seen EXCEPT ![r].latest = Last(log).version]
       ELSE Return(r, "notfound") /\ UNCHANGED seen
    /\ UNCHANGED <<asks, checked, counter, window, late, log>>

\* Mutant of AppendRevoked: the version is read again for the append.
AppendRevokedAnyway(r) ==
    /\ At(r, "appendRevoked")
    /\ AppendKeyEvent(r, "revoked", Len(log) + 1)
    /\ UNCHANGED <<asks, checked, seen, counter, window, late>>

AppendRevoked(r) ==
    /\ At(r, "appendRevoked")
    /\ AppendKeyEvent(r, "revoked", seen[r].latest + 1)
    /\ UNCHANGED <<asks, checked, seen, counter, window, late>>

\* Mutant of Listed: what the payload of the creation says.
ListedByCreation == "live"

\* The events in order: the key, and whether it is revoked after it.
Listed == IF \E i \in DOMAIN log : log[i].type = "revoked" THEN "revoked" ELSE "live"

ListApiKeys(r) ==
    /\ At(r, "list")
    /\ Return(r, Listed)
    /\ UNCHANGED <<asks, checked, seen, counter, window, late, log>>

FailCreateUser(r) ==
    /\ At(r, "throw")
    /\ Return(r, "error")
    /\ UNCHANGED <<asks, checked, seen, counter, window, late, log>>

Answer(r) ==
    /\ answer[r] = "none" /\ pc[r] > Len(Steps(r))
    /\ Return(r, "ok")
    /\ UNCHANGED <<asks, checked, seen, counter, window, late, log>>

\* The process that serves the request dies; Redis and the log do not.
Lose(r) ==
    /\ checked /\ answer[r] = "none" /\ pc[r] > 1
    /\ \A q \in Requests : answer[q] # "lost"
    /\ Return(r, "lost")
    /\ UNCHANGED <<asks, checked, seen, counter, window, late, log>>

Next ==
    \/ \E r \in Requests :
        \/ Incr(r) \/ Expire(r) \/ Check(r)
        \/ CreateApiKey(r) \/ ReadLatest(r) \/ AppendRevoked(r) \/ ListApiKeys(r)
        \/ FailCreateUser(r) \/ Answer(r) \/ Lose(r)
    \/ WindowEnds

Spec == Init /\ [][Next]_vars

-----------------------------------------------------------------------------
(* Properties.                                                             *)

TypeOK ==
    /\ asks \in Mixes
    /\ pc \in [Requests -> 1..(Len(Gate) + 3)]
    /\ answer \in [Requests -> {"none", "ok", "limited", "notfound", "error",
                                "live", "revoked", "lost"}]
    /\ counter.n \in Int /\ counter.expires \in BOOLEAN
    /\ window \in 0..MaxWindows

\* A counter that is above zero expires: somebody has seen to it, or is just
\* about to, or died between the two commands.  Counts that were given back
\* late, which leave a new key below zero, do not change that.
NoEternalWindow ==
    counter.n >= 1 /\ ~ counter.expires =>
        \E r \in Requests : /\ pc[r] \in {2, 5} /\ seen[r].count = 1
                            /\ answer[r] \in {"none", "lost"}

\* In a window no more requests pass the check than the limit says, except for
\* those that take a count given back to it by a request of an earlier window.
AdmittedWithinLimit ==
    Cardinality({r \in Requests : /\ seen[r].window = window /\ pc[r] > 3
                                  /\ answer[r] # "limited"}) <= Limit + late

\* A revocation that is answered with success is in the log; a store that
\* checks versions has it once, whoever else revokes the key at the same time.
RevokedOnce ==
    /\ \A r \in Requests : asks[r] = "revokeApiKey" /\ answer[r] = "ok" =>
           \E i \in DOMAIN log : log[i].type = "revoked" /\ log[i].by = r
    /\ checked => Cardinality({i \in DOMAIN log : log[i].type = "revoked"}) <= 1

\* A list asked for after a revocation was recorded does not show the key as a
\* live one.
RevokedIsListed == \A r \in Requests :
    answer[r] = "live" => \A i \in 1..seen[r].began : log[i].type # "revoked"

-----------------------------------------------------------------------------
(* What the limit rests on.                                                *)

Operations == {"createApiKey", "revokeApiKey", "listApiKeys", "createUser", "intent", "delegate"}
Answers == {"none", "ok", "limited", "notfound", "error", "live", "revoked", "lost"}
ReadThere == [count : Int, window : Nat, latest : Nat, began : Nat]
Counters == [there : BOOLEAN, n : Int, expires : BOOLEAN]
KeyEvents == [type : {"created", "revoked"}, version : Nat, by : Requests \cup {0}]

\* A request that was let in; and one that is counted and not yet checked,
\* or never will be.
Passed(r) == pc[r] > 3 /\ answer[r] # "limited"
Waiting(r) == asks[r] # "delegate" /\ pc[r] \in {2, 3} /\ answer[r] \in {"none", "lost"}

\* The counts of this window that nobody gives back but who is refused, and
\* those of them that are let in, or will be.
Counted == {r \in Requests : seen[r].window = window /\ (Passed(r) \/ Waiting(r))}
LetIn == {r \in Counted : Passed(r) \/ Allowed(seen[r].count)}

\* The counter and what was given back late to it are no less than what is
\* counted, so whoever reads a count within the limit is one of so many.
AdmissionInv ==
    /\ asks \in [Requests -> Operations]
    /\ pc \in [Requests -> Nat] /\ answer \in [Requests -> Answers]
    /\ \A r \in Requests : pc[r] \in 1 .. (Len(Steps(r)) + 1)
    /\ seen \in [Requests -> ReadThere] /\ counter \in Counters
    /\ window \in Nat /\ late \in Nat
    /\ log \in Seq(KeyEvents) /\ log # <<>>
    /\ \A r \in Requests : seen[r].window <= window
    /\ \A r \in Requests : asks[r] = "delegate" => seen[r].count = 0
    /\ ~ counter.there => counter.n = 0
    /\ NoEternalWindow
    /\ Cardinality(Counted) <= counter.n + late
    /\ Cardinality(LetIn) <= Limit + late

\* A store that checks versions appends to what was read: to the creation.
KeyInv ==
    /\ checked => \A i \in DOMAIN log : log[i].version = i /\ (log[i].type = "revoked" => i = Len(log))
    /\ \A r \in Requests :
           /\ seen[r].began <= Len(log)
           /\ checked => seen[r].latest <= Len(log)
           /\ asks[r] = "revokeApiKey" =>
                  /\ pc[r] = 7 /\ checked /\ seen[r].latest = Len(log) => log[Len(log)].type = "created"
                  /\ pc[r] = 8 => \E i \in DOMAIN log : log[i].type = "revoked" /\ log[i].by = r
                  /\ answer[r] = "ok" => pc[r] = 8
    /\ RevokedIsListed
=============================================================================
