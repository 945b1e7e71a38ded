------------------------------- MODULE Limits -------------------------------
(***************************************************************************)
(* What limits the use of the system (src/core/operational): the counters  *)
(* of the rate limiter in Redis, and the limits and quotas of governance,  *)
(* which keeps counters of its own: each has a specification of its own,   *)
(* in a section of its own.                                                *)
(***************************************************************************)
EXTENDS Integers, Sequences, FiniteSetsExt, Naturals, FiniteSets

CONSTANTS
    \* The rate limiter.
    Limits,     \* the limits there are, in order: [scope, limit, enabled]
    Scopes,     \* the scopes of requests: [type, id]
    Calls,      \* calls of check
    Resets,     \* calls of reset
    \* Governance.
    Requests,
    Contexts,   \* [intent, realm, entity, resource, amount], "" for what is not there
    RateLimit,  \* of every scope
    QuotaLimit  \* of every resource and realm

VARIABLES
    \* The rate limiter.
    call,       \* call |-> [scope, pc, key]: "counted" is to be given back
    counter,    \* key |-> its value in Redis, 0 when there is none
    drops,      \* key |-> how often it expired or was deleted
    admitted,   \* key |-> requests admitted since
    late,       \* key |-> counts given back since that were made before
    reset,      \* reset |-> [limit, pc, keys, began]
    \* Governance.
    contexts,   \* request |-> its context
    pc,         \* request |-> where it stands
    counts,     \* scope |-> requests recorded
    usage,      \* <<resource, realm>> |-> amount recorded
    beside,     \* requests that were checked while another was not yet recorded
    lost        \* requests whose recording failed half way

-----------------------------------------------------------------------------
(***************************************************************************)
(* Which limit a request is counted against and under which key            *)
(* (src/core/operational/rate-limiter-redis.ts): the limits of a process,  *)
(* the counters they share in Redis, and the resets that delete counters   *)
(* while requests are counted.  How a counter gets its expiry is in        *)
(* IntentEndpoint.                                                         *)
(***************************************************************************)
rateVars == <<call, counter, drops, admitted, late, reset>>

-----------------------------------------------------------------------------
(* Limits and keys.                                                        *)

\* Mutant of MatchesScope: limits of an id are for all ids.
MatchesScopeByType(of, scope) ==
    of.type = "Global" \/ (of.type \in {"Realm", "Entity", "Intent"} /\ of.type = scope.type)

\* A limit without an id is for all; one of an IP or a Composite for none.
MatchesScope(of, scope) ==
    \/ of.type = "Global"
    \/ /\ of.type \in {"Realm", "Entity", "Intent"}
       /\ of.type = scope.type
       /\ of.id = "" \/ of.id = scope.id

\* The first that is enabled and matches; 0 for no limit.
Applicable(scope) ==
    LET these == {i \in DOMAIN Limits : Limits[i].enabled /\ MatchesScope(Limits[i].scope, scope)}
    IN IF these = {} THEN 0 ELSE Min(these)

GetActorId(scope) ==
    IF scope.type = "Global" THEN "global"
    ELSE IF scope.id # "" THEN scope.id
    ELSE IF scope.type = "IP" THEN "unknown" ELSE "global"

\* The actor is the request's, under a global limit as well.
Key(scope) == <<Applicable(scope), GetActorId(scope)>>

Keys == {Key(s) : s \in {t \in Scopes : Applicable(t) # 0}}

RateInit ==
    /\ call = [c \in Calls |-> [scope |-> "none", pc |-> "idle"]]
    /\ counter = [k \in Keys |-> 0] /\ drops = [k \in Keys |-> 0]
    /\ admitted = [k \in Keys |-> 0] /\ late = [k \in Keys |-> 0]
    /\ reset = [r \in Resets |-> [limit |-> 0, pc |-> "idle"]]

-----------------------------------------------------------------------------
(* check.                                                                  *)

\* Mutant of Allowed: one more.
AllowedOneMore(count, limit) == count <= limit.limit + 1

Allowed(count, limit) == count <= limit.limit

Unlimited(c) ==
    \E s \in Scopes :
        /\ call[c].pc = "idle" /\ Applicable(s) = 0
        /\ call' = [call EXCEPT ![c] = [scope |-> s, pc |-> "done", allowed |-> TRUE]]
        /\ UNCHANGED <<counter, drops, admitted, late, reset>>

Check(c) ==
    \E s \in Scopes :
        LET k == Key(s)
            allowed == Allowed(counter[k] + 1, Limits[k[1]]) IN
        /\ call[c].pc = "idle" /\ Applicable(s) # 0
        /\ counter' = [counter EXCEPT ![k] = @ + 1]
        /\ admitted' = IF allowed THEN [admitted EXCEPT ![k] = @ + 1] ELSE admitted
        /\ call' = [call EXCEPT ![c] = [scope |-> s, allowed |-> allowed, drops |-> drops[k],
                                        pc |-> IF allowed THEN "done" ELSE "counted"]]
        /\ UNCHANGED <<drops, late, reset>>

\* Counted without a question and never given back.
Record(c) ==
    \E s \in Scopes :
        /\ call[c].pc = "idle" /\ Applicable(s) # 0
        /\ counter' = [counter EXCEPT ![Key(s)] = @ + 1]
        /\ call' = [call EXCEPT ![c] = [scope |-> s, pc |-> "done", allowed |-> TRUE]]
        /\ UNCHANGED <<drops, admitted, late, reset>>

\* A request that was refused is taken back, from whatever is there by then.
GiveBack(c) ==
    LET k == Key(call[c].scope) IN
    /\ call[c].pc = "counted"
    /\ counter' = [counter EXCEPT ![k] = @ - 1]
    /\ late' = IF call[c].drops = drops[k] THEN late ELSE [late EXCEPT ![k] = @ + 1]
    /\ call' = [call EXCEPT ![c].pc = "done"]
    /\ UNCHANGED <<drops, admitted, reset>>

-----------------------------------------------------------------------------
(* Expiry and reset.                                                       *)

Drop(ks) ==
    /\ counter' = [k \in Keys |-> IF k \in ks THEN 0 ELSE counter[k]]
    /\ drops' = [k \in Keys |-> IF k \in ks THEN drops[k] + 1 ELSE drops[k]]
    /\ admitted' = [k \in Keys |-> IF k \in ks THEN 0 ELSE admitted[k]]
    /\ late' = [k \in Keys |-> IF k \in ks THEN 0 ELSE late[k]]

There == {k \in Keys : counter[k] # 0}

\* The window of a counter ends; bounded to the first time.
Expire(k) == k \in There /\ drops[k] = 0 /\ Drop({k}) /\ UNCHANGED <<call, reset>>

\* Mutant of Pattern: the actor that has the limit's name.
PatternGlobal(l) == {k \in There : k = <<l, "global">>}

\* KEYS rate_limit:<limit>:*
Pattern(l) == {k \in There : k[1] = l}

ResetLists(r) ==
    \E l \in DOMAIN Limits :
        /\ reset[r].pc = "idle"
        /\ reset' = [reset EXCEPT ![r] = [limit |-> l, pc |-> "listed", keys |-> Pattern(l),
                                          there |-> {k \in There : k[1] = l}, drops |-> drops]]
        /\ UNCHANGED <<call, counter, drops, admitted, late>>

\* The counter of one actor, in one command, whether there is one or not.
ResetActor(r) ==
    \E k \in Keys :
        /\ reset[r].pc = "idle"
        /\ reset' = [reset EXCEPT ![r] = [limit |-> k[1], pc |-> "done", there |-> {k}, drops |-> drops]]
        /\ Drop({k})
        /\ UNCHANGED call

ResetDeletes(r) ==
    /\ reset[r].pc = "listed"
    /\ Drop(reset[r].keys)
    /\ reset' = [reset EXCEPT ![r].pc = "done"]
    /\ UNCHANGED call

RateNext ==
    \/ \E c \in Calls : Unlimited(c) \/ Check(c) \/ Record(c) \/ GiveBack(c)
    \/ \E k \in Keys : Expire(k)
    \/ \E r \in Resets : ResetLists(r) \/ ResetActor(r) \/ ResetDeletes(r)

RateSpec == RateInit /\ [][RateNext]_rateVars

-----------------------------------------------------------------------------
RateTypeOK ==
    /\ counter \in [Keys -> Int]
    /\ drops \in [Keys -> Nat] /\ admitted \in [Keys -> Nat] /\ late \in [Keys -> Nat]
    /\ \A c \in Calls : call[c].pc \in {"idle", "counted", "done"}
    /\ \A r \in Resets : reset[r].limit \in 0..Len(Limits)

\* Of the requests of one actor no more are admitted from one deletion of
\* the counter to the next than the limit and what was given back to the
\* new counter of what the old one had counted (check, reset).
ActorWithinLimit ==
    \A k \in Keys : admitted[k] <= Limits[k[1]].limit + late[k]

\* A limit of one realm, entity or intent counts nobody else's requests: the
\* counter of another id is under another limit (matchesScope).
LimitedIsMeant ==
    \A c \in Calls : call[c].pc # "idle" /\ Applicable(call[c].scope) # 0 =>
        LET of == Limits[Applicable(call[c].scope)].scope IN
        of.type # "Global" /\ of.id # "" => GetActorId(call[c].scope) = of.id

\* A reset of a limit reaches all its actors: every counter there was when
\* it began has been deleted, or had expired, when it ends (reset).
ResetReachesAll ==
    \A r \in Resets : reset[r].pc = "done" =>
        \A k \in reset[r].there : drops[k] > reset[r].drops[k]

-----------------------------------------------------------------------------
(* What the limits of actors rest on.                                      *)

CountedCalls ==
    [scope : {s \in Scopes : Applicable(s) # 0}, allowed : BOOLEAN, drops : Nat, pc : {"counted", "done"}]
CallsThere ==
    [scope : {"none"}, pc : {"idle"}] \cup [scope : Scopes, pc : {"done"}, allowed : BOOLEAN] \cup
    CountedCalls

\* The calls whose count is in a counter, and that will take it back.
ToGiveBack(k) ==
    {c \in Calls : call[c].pc = "counted" /\ Key(call[c].scope) = k /\ call[c].drops = drops[k]}

RateInv ==
    /\ call \in [Calls -> CallsThere]
    /\ \A c \in Calls : call[c].pc = "counted" =>
           call[c] \in CountedCalls /\ call[c].drops <= drops[Key(call[c].scope)]
    /\ counter \in [Keys -> Int]
    /\ drops \in [Keys -> Nat] /\ admitted \in [Keys -> Nat] /\ late \in [Keys -> Nat]
    /\ \A k \in Keys : admitted[k] + Cardinality(ToGiveBack(k)) <= counter[k] + late[k]
    /\ ActorWithinLimit

\* What is deleted later was there when the reset began, and the rest has gone.
ResetsThere ==
    [limit : {0}, pc : {"idle"}] \cup
    [limit : 0 .. Len(Limits), pc : {"listed", "done"}, keys : SUBSET Keys, there : SUBSET Keys,
     drops : [Keys -> Nat]] \cup
    [limit : 0 .. Len(Limits), pc : {"done"}, there : SUBSET Keys, drops : [Keys -> Nat]]
ResetInv ==
    /\ drops \in [Keys -> Nat] /\ reset \in [Resets -> ResetsThere]
    /\ \A r \in Resets :
           /\ reset[r].pc = "listed" => reset[r].keys = reset[r].there
           /\ reset[r].pc # "idle" => \A k \in Keys : drops[k] >= reset[r].drops[k]
    /\ ResetReachesAll

-----------------------------------------------------------------------------
(***************************************************************************)
(* The evaluator of src/core/operational/governance-evaluator.ts: before   *)
(* an operation it asks a rate limiter and a quota manager, after it the   *)
(* usage is recorded with both.  Between the two anything may happen, and  *)
(* neither is asked for the amount that will be used.  The limiter and the *)
(* manager are given: here they are counters with a limit, as in the tests *)
(* of the evaluator.                                                       *)
(***************************************************************************)
quotaVars == <<contexts, pc, counts, usage, beside, lost>>

-----------------------------------------------------------------------------
\* One scope is asked, the narrowest that is named.
CheckScope(c) ==
    IF c.intent # "" THEN <<"Intent", c.intent>>
    ELSE IF c.realm # "" THEN <<"Realm", c.realm>>
    ELSE IF c.entity # "" THEN <<"Entity", c.entity>>
    ELSE <<"Global", "">>

\* Mutant of RecordScope: the realm first.
RecordScopeRealm(c) ==
    IF c.realm # "" THEN <<"Realm", c.realm>>
    ELSE IF c.intent # "" THEN <<"Intent", c.intent>>
    ELSE IF c.entity # "" THEN <<"Entity", c.entity>>
    ELSE <<"Global", "">>

RecordScope(c) == CheckScope(c)

Quota(c) == <<c.resource, c.realm>>
QuotaScopes == {CheckScope(c) : c \in Contexts} \cup {RecordScopeRealm(c) : c \in Contexts}

QuotaInit ==
    /\ contexts \in [Requests -> Contexts]
    /\ pc = [r \in Requests |-> "idle"]
    /\ counts = [s \in QuotaScopes |-> 0]
    /\ usage = [q \in {Quota(c) : c \in Contexts} |-> 0]
    /\ beside = {} /\ lost = {}

Goto(r, where) == pc' = [pc EXCEPT ![r] = where]

\* Checked and not yet recorded.
UnderWay == {r \in Requests : pc[r] \in {"quota", "operating", "recording"}}

CheckRate(r) ==
    /\ pc[r] = "idle"
    /\ IF counts[CheckScope(contexts[r])] >= RateLimit
       THEN Goto(r, "denied") /\ UNCHANGED beside
       ELSE /\ Goto(r, IF contexts[r].resource = "" THEN "operating" ELSE "quota")
            /\ beside' = IF UnderWay = {} THEN beside ELSE beside \cup {r} \cup UnderWay
    /\ UNCHANGED <<contexts, counts, usage, lost>>

\* Mutant of WithinQuota: the limit itself is still within.
WithinQuotaTo(c) == usage[Quota(c)] <= QuotaLimit

WithinQuota(c) == usage[Quota(c)] < QuotaLimit

CheckQuota(r) ==
    /\ pc[r] = "quota"
    /\ Goto(r, IF WithinQuota(contexts[r]) THEN "operating" ELSE "denied")
    /\ UNCHANGED <<contexts, counts, usage, beside, lost>>

\* The operation, and the first half of recordUsage; an operation that
\* fails is not recorded.
RecordRate(r) ==
    /\ pc[r] = "operating"
    /\ \/ /\ counts' = [counts EXCEPT ![RecordScope(contexts[r])] = @ + 1]
          /\ Goto(r, IF contexts[r].resource = "" THEN "done" ELSE "recording")
       \/ Goto(r, "failed") /\ UNCHANGED counts
    /\ UNCHANGED <<contexts, usage, beside, lost>>

RecordQuota(r) ==
    /\ pc[r] = "recording"
    /\ \/ /\ usage' = [usage EXCEPT ![Quota(contexts[r])] = @ + contexts[r].amount]
          /\ Goto(r, "done") /\ UNCHANGED lost
       \/ Goto(r, "failed") /\ lost' = lost \cup {r} /\ UNCHANGED usage
    /\ UNCHANGED <<contexts, counts, beside>>

QuotaNext == \E r \in Requests : CheckRate(r) \/ CheckQuota(r) \/ RecordRate(r) \/ RecordQuota(r)

QuotaSpec == QuotaInit /\ [][QuotaNext]_quotaVars

-----------------------------------------------------------------------------
QuotaTypeOK ==
    /\ contexts \in [Requests -> Contexts]
    /\ pc \in [Requests -> {"idle", "quota", "operating", "recording", "done", "failed", "denied"}]
    /\ \A s \in QuotaScopes : counts[s] \in Nat
    /\ beside \subseteq Requests /\ lost \subseteq Requests

\* The units a request uses, and what several use.
Units(r) == {r} \X (1 .. contexts[r].amount)
AmountOf(S) == Cardinality(UNION {Units(r) : r \in S})

\* The requests that are counted in a scope, and those that used a quota.
Counted(s) ==
    {r \in Requests : CheckScope(contexts[r]) = s /\ (pc[r] \in {"recording", "done"} \/ r \in lost)}
Used(q) == {r \in Requests : pc[r] = "done" /\ contexts[r].resource # "" /\ Quota(contexts[r]) = q}

(***************************************************************************)
(* A quota is passed by what one request uses beyond it, and by those that *)
(* were checked while another was not yet recorded: without them the usage *)
(* was below the limit when the last of them was let through.              *)
(***************************************************************************)
UsedWithinQuota ==
    \A q \in DOMAIN usage : Used(q) \ beside # {} /\ usage[q] > 0 =>
        \E r \in Used(q) : AmountOf(Used(q) \ (beside \cup {r})) < QuotaLimit

(***************************************************************************)
(* A request is counted in the scope in which it was checked, once, and    *)
(* its amount with it unless the recording failed between the two; one     *)
(* that was denied or failed uses nothing.                                 *)
(***************************************************************************)
CountedWhereChecked ==
    /\ \A s \in QuotaScopes : counts[s] = Cardinality(Counted(s))
    /\ \A q \in DOMAIN usage : usage[q] = AmountOf(Used(q))

-----------------------------------------------------------------------------
(* What the quotas rest on.                                                *)

\* A request beside which no other was checked is alone under way, and finds
\* the usage it records as its check found it.
QuotaInv ==
    /\ QuotaTypeOK
    /\ counts \in [QuotaScopes -> Nat] /\ usage \in [{Quota(c) : c \in Contexts} -> Nat]
    /\ CountedWhereChecked
    /\ \A r \in Requests :
           /\ r \in lost => pc[r] = "failed"
           /\ pc[r] \in {"quota", "recording"} => contexts[r].resource # ""
           /\ r \in UnderWay \ beside => UnderWay = {r}
           /\ r \in UnderWay \ beside /\ pc[r] # "quota" /\ contexts[r].resource # "" =>
                  WithinQuota(contexts[r])
    /\ \A q \in DOMAIN usage : Used(q) \ beside # {} =>
           \E r \in Used(q) : AmountOf(Used(q) \ (beside \cup {r})) < QuotaLimit
=============================================================================
