------------------------------- MODULE Sessions -------------------------------
(***************************************************************************)
(* Sessions and their tokens (src/core/security/authentication.ts).        *)
(* A refresh and a second factor wait between what they read and what they *)
(* write, so other calls come in between.  Time is in half seconds,        *)
(* because a token keeps its end in whole seconds.  The lockout is left    *)
(* out: nothing ever counts a failed attempt.                              *)
(***************************************************************************)
EXTENDS Naturals, Sequences, FiniteSets

CONSTANTS
    Entities,
    Calls,              \* refreshes and second factors
    SessionFor,         \* sessionDuration
    AccessFor,          \* accessTokenDuration
    RefreshFor,         \* refreshTokenDuration
    MaxSessions,        \* bound: sessions
    MaxPairs,           \* bound: pairs of tokens
    MaxRevoked,         \* bound: tokens revoked when one more is
    MaxTime             \* bound: time

VARIABLES
    clock,
    sessions,       \* the sessions, in the order they were made
    pairs,          \* the pairs of tokens that were given out
    revokedTokens,
    calls,          \* call |-> [op, pc, token, id, copy, late]
    ended,          \* sessions a revocation was asked for
    stale,          \* those of them that a second factor had read before
    shared          \* tokens two refreshes of which were under way at once

vars == <<clock, sessions, pairs, revokedTokens, calls, ended, stale, shared>>

Kinds == {"access", "refresh"}
Token(n, kind) == [n |-> n, kind |-> kind]
Tokens == {Token(n, kind) : n \in DOMAIN pairs, kind \in Kinds}

Idle == [op |-> "none", pc |-> "idle", token |-> Token(0, "refresh"), id |-> 0,
         copy |-> <<>>, late |-> FALSE]

Init ==
    /\ clock = 1
    /\ sessions = <<>>
    /\ pairs = <<>>
    /\ revokedTokens = {}
    /\ calls = [c \in Calls |-> Idle]
    /\ ended = {} /\ stale = {} /\ shared = {}

Tick ==
    /\ clock < MaxTime
    /\ clock' = clock + 1
    /\ UNCHANGED <<sessions, pairs, revokedTokens, calls, ended, stale, shared>>

-----------------------------------------------------------------------------
(* Sessions.                                                               *)

Validate(s) == ~sessions[s].revoked /\ clock <= sessions[s].expiresAt

ListActive(e) ==
    {s \in DOMAIN sessions :
         sessions[s].entity = e /\ ~sessions[s].revoked /\ sessions[s].expiresAt > clock}

\* What a revocation of these sessions is to bring about.
Ends(ids) ==
    /\ ended' = ended \cup ids
    /\ stale' = stale \cup {s \in ids : \E c \in Calls : calls[c].op = "mfa" /\ calls[c].id = s}

Revoke(s) ==
    /\ sessions' = [sessions EXCEPT ![s].revoked = TRUE]
    /\ Ends({s})
    /\ UNCHANGED <<clock, pairs, revokedTokens, calls, shared>>

RevokeAll(e) ==
    LET ids == {s \in DOMAIN sessions : sessions[s].entity = e}
    IN /\ sessions' = [s \in DOMAIN sessions |->
                           IF s \in ids THEN [sessions[s] EXCEPT !.revoked = TRUE] ELSE sessions[s]]
       /\ Ends(ids)
       /\ UNCHANGED <<clock, pairs, revokedTokens, calls, shared>>

-----------------------------------------------------------------------------
(* Tokens.                                                                 *)

Seconds(t) == 2 * (t \div 2)

\* A pair for a session, as the caller has it; from is the token it is for.
Generate(s, from, late) ==
    pairs' = Append(pairs, [sid |-> s, from |-> from, late |-> late,
                            exp |-> [access |-> Seconds(clock + AccessFor),
                                     refresh |-> Seconds(clock + RefreshFor)],
                            told |-> [access |-> clock + AccessFor,
                                      refresh |-> clock + RefreshFor]])

\* A new session and its first pair.
Authenticate(e) ==
    /\ Len(sessions) < MaxSessions
    /\ Len(pairs) < MaxPairs
    /\ sessions' = Append(sessions, [entity |-> e, expiresAt |-> clock + SessionFor,
                                     mfaVerified |-> FALSE, revoked |-> FALSE])
    /\ Generate(Len(sessions) + 1, {}, FALSE)
    /\ UNCHANGED <<clock, revokedTokens, calls, ended, stale, shared>>

\* Mutant of Verify: a token is over when its last second comes.
VerifyBefore(t) == t \notin revokedTokens /\ pairs[t.n].exp[t.kind] > clock

Verify(t) == t \notin revokedTokens /\ pairs[t.n].exp[t.kind] >= clock

RevokeToken(t) ==
    /\ Cardinality(revokedTokens) < MaxRevoked
    /\ revokedTokens' = revokedTokens \cup {t}
    /\ UNCHANGED <<clock, sessions, pairs, calls, ended, stale, shared>>

\* Any token that verifies is taken for a refresh token.
Refresh(c, t) ==
    /\ calls[c].pc = "idle"
    /\ Verify(t)
    /\ calls' = [calls EXCEPT ![c] = [Idle EXCEPT !.op = "refresh", !.pc = "verified", !.token = t,
                                                  !.id = pairs[t.n].sid,
                                                  !.late = pairs[t.n].sid \in ended]]
    /\ shared' = IF \E d \in Calls : calls[d].op = "refresh" /\ calls[d].token = t
                 THEN shared \cup {t} ELSE shared
    /\ UNCHANGED <<clock, sessions, pairs, revokedTokens, ended, stale>>

GetSession(c) ==
    /\ calls[c].pc = "verified"
    /\ calls' = [calls EXCEPT ![c].pc = "got", ![c].copy = <<sessions[calls[c].id]>>]
    /\ UNCHANGED <<clock, sessions, pairs, revokedTokens, ended, stale, shared>>

\* Mutant of EndRefresh: the old token goes on.
EndRefreshKeeping(c) ==
    /\ calls[c].op = "refresh" /\ calls[c].pc = "got"
    /\ Len(pairs) < MaxPairs
    /\ IF Head(calls[c].copy).revoked THEN UNCHANGED pairs
       ELSE Generate(calls[c].id, {calls[c].token}, calls[c].late)
    /\ calls' = [calls EXCEPT ![c] = [Idle EXCEPT !.pc = "ended"]]
    /\ UNCHANGED <<clock, sessions, revokedTokens, ended, stale, shared>>

\* Mutant of EndRefresh: a revoked session is served as well.
EndRefreshAnyway(c) ==
    /\ calls[c].op = "refresh" /\ calls[c].pc = "got"
    /\ Len(pairs) < MaxPairs
    /\ revokedTokens' = revokedTokens \cup {calls[c].token}
    /\ Generate(calls[c].id, {calls[c].token}, calls[c].late)
    /\ calls' = [calls EXCEPT ![c] = [Idle EXCEPT !.pc = "ended"]]
    /\ UNCHANGED <<clock, sessions, ended, stale, shared>>

\* Whether the session is over by now is not looked at, nor whether the token
\* has been revoked since.
EndRefresh(c) ==
    /\ calls[c].op = "refresh" /\ calls[c].pc = "got"
    /\ Len(pairs) < MaxPairs
    /\ IF Head(calls[c].copy).revoked
       THEN UNCHANGED <<revokedTokens, pairs>>
       ELSE /\ revokedTokens' = revokedTokens \cup {calls[c].token}
            /\ Generate(calls[c].id, {calls[c].token}, calls[c].late)
    /\ calls' = [calls EXCEPT ![c] = [Idle EXCEPT !.pc = "ended"]]
    /\ UNCHANGED <<clock, sessions, ended, stale, shared>>

-----------------------------------------------------------------------------
(* The second factor.                                                      *)

VerifyMfa(c, s) ==
    /\ calls[c].pc = "idle"
    /\ calls' = [calls EXCEPT ![c] = [Idle EXCEPT !.op = "mfa", !.pc = "got", !.id = s,
                                                  !.copy = <<sessions[s]>>]]
    /\ UNCHANGED <<clock, sessions, pairs, revokedTokens, ended, stale, shared>>

\* Mutant of EndVerifyMfa: the session starts anew.
EndVerifyMfaAnew(c, isValid) ==
    /\ calls[c].op = "mfa"
    /\ sessions' = IF isValid
                   THEN [sessions EXCEPT ![calls[c].id] =
                             [@ EXCEPT !.mfaVerified = TRUE, !.revoked = FALSE]]
                   ELSE sessions
    /\ calls' = [calls EXCEPT ![c] = [Idle EXCEPT !.pc = "ended"]]
    /\ UNCHANGED <<clock, pairs, revokedTokens, ended, stale, shared>>

\* The code is right or wrong; when it is right, the session is what it was.
EndVerifyMfa(c, isValid) ==
    /\ calls[c].op = "mfa"
    /\ sessions' = IF isValid
                   THEN [sessions EXCEPT ![calls[c].id] =
                             [Head(calls[c].copy) EXCEPT !.mfaVerified = TRUE]]
                   ELSE sessions
    /\ calls' = [calls EXCEPT ![c] = [Idle EXCEPT !.pc = "ended"]]
    /\ UNCHANGED <<clock, pairs, revokedTokens, ended, stale, shared>>

\* Who a request comes from: the token is tried before the API key, which has
\* no end and is revoked by nothing.  The session is handed on as it is.
AuthenticateRequest(token, keyOf) ==
    IF token \in Tokens /\ Verify(token) THEN sessions[pairs[token.n].sid].entity ELSE keyOf

Next ==
    \/ Tick
    \/ \E e \in Entities : Authenticate(e) \/ RevokeAll(e)
    \/ \E s \in DOMAIN sessions : Revoke(s) \/ \E c \in Calls : VerifyMfa(c, s)
    \/ \E t \in Tokens : RevokeToken(t) \/ \E c \in Calls : Refresh(c, t)
    \/ \E c \in Calls :
           \/ GetSession(c) \/ EndRefresh(c)
           \/ \E isValid \in BOOLEAN : EndVerifyMfa(c, isValid)

Spec == Init /\ [][Next]_vars

-----------------------------------------------------------------------------
TypeOK ==
    /\ revokedTokens \subseteq Tokens /\ shared \subseteq Tokens
    /\ stale \subseteq ended /\ ended \subseteq DOMAIN sessions
    /\ \A c \in Calls : calls[c].pc = "got" <=> Len(calls[c].copy) = 1

(***************************************************************************)
(* A session that was revoked stays so, unless a second factor had read it *)
(* before; and none that is listed is over.                                *)
(***************************************************************************)
RevocationHolds ==
    /\ \A s \in ended \ stale : sessions[s].revoked
    /\ \A e \in Entities : \A s \in ListActive(e) : Validate(s) /\ s \notin ended \ stale

(***************************************************************************)
(* A token is refreshed once, unless two refreshes of it met, and not for  *)
(* a session whose revocation came before the refresh.                     *)
(***************************************************************************)
RefreshedOnce ==
    /\ \A m, n \in DOMAIN pairs :
           m # n /\ pairs[m].from # {} /\ pairs[m].from = pairs[n].from => pairs[m].from \subseteq shared
    /\ \A n \in DOMAIN pairs :
           pairs[n].late => pairs[n].sid \in stale

(***************************************************************************)
(* A token that was not revoked says who a request comes from as long as   *)
(* its owner was told, or half a second less, and never longer.            *)
(***************************************************************************)
LastsAsTold ==
    \A t \in Tokens :
        LET told == pairs[t.n].told[t.kind]
            owner == sessions[pairs[t.n].sid].entity
        IN /\ t \notin revokedTokens /\ clock < told => AuthenticateRequest(t, "nobody") = owner
           /\ clock > told \/ t \in revokedTokens => AuthenticateRequest(t, "nobody") = "nobody"

\* What LastsAsTold rests on: a token's end is what its owner was told, in
\* whole seconds.
Times == [access : Nat, refresh : Nat]
TokensThere == [n : Nat, kind : Kinds]
SessionsThere == [entity : Entities, expiresAt : Nat, mfaVerified : BOOLEAN, revoked : BOOLEAN]
PairsThere == [sid : Nat, from : SUBSET TokensThere, late : BOOLEAN, exp : Times, told : Times]
CallsThere ==
    [op : {"none", "refresh", "mfa"}, pc : {"idle", "verified", "got", "ended"},
     token : TokensThere, id : Nat, copy : Seq(SessionsThere), late : BOOLEAN]
SessionInv ==
    /\ clock \in Nat
    /\ sessions \in Seq(SessionsThere)
    /\ pairs \in Seq(PairsThere)
    /\ calls \in [Calls -> CallsThere]
    /\ \A c \in Calls :
           /\ calls[c].op = "mfa" => calls[c].pc = "got"
           /\ calls[c].pc = "verified" => calls[c].id \in DOMAIN sessions
           /\ calls[c].pc = "got" => calls[c].id \in DOMAIN sessions /\ calls[c].copy # <<>>
    /\ \A n \in DOMAIN pairs :
           /\ pairs[n].sid \in DOMAIN sessions
           /\ \A kind \in Kinds : pairs[n].exp[kind] = Seconds(pairs[n].told[kind])

\* What revocations rest on: who reads a session that was revoked sees it; a
\* token that has given another is revoked, and no two refreshes of it are
\* under way that did not meet.
EndedInv ==
    /\ ended \subseteq DOMAIN sessions
    /\ \A s \in ended \ stale : sessions[s].revoked
    /\ \A c \in Calls :
           /\ calls[c].late => calls[c].id \in ended
           /\ calls[c].pc = "got" /\ calls[c].id \in ended \ stale /\ (calls[c].op = "mfa" \/ calls[c].late) =>
                  Head(calls[c].copy).revoked
    /\ \A n \in DOMAIN pairs : pairs[n].late => pairs[n].sid \in stale
RefreshInv ==
    /\ \A c \in Calls : calls[c].op = "refresh" =>
           /\ \A d \in Calls \ {c} : calls[d].op = "refresh" /\ calls[d].token = calls[c].token =>
                  calls[c].token \in shared
           /\ \A n \in DOMAIN pairs : calls[c].token \in pairs[n].from => calls[c].token \in shared
    /\ \A n \in DOMAIN pairs : pairs[n].from \subseteq revokedTokens
    /\ \A m, n \in DOMAIN pairs :
           m # n /\ pairs[m].from # {} /\ pairs[m].from = pairs[n].from => pairs[m].from \subseteq shared
=============================================================================
