------------------------------ MODULE MCGuards ------------------------------
(***************************************************************************)
(* What stands before the ledger and below it, on small instances: the     *)
(* endpoint and its window, sessions, rate limits and quotas; the          *)
(* database, its migrations, tables and pools; and what is found in it.    *)
(* They do not interact in these models: part says which of them the       *)
(* behaviour is about, and v1, v2, ... are the variables of that one, in   *)
(* the order of its vars.                                                  *)
(***************************************************************************)
EXTENDS Naturals, Sequences, FiniteSets

CONSTANTS
    \* IntentEndpoint: requests, what they ask for, and the window.
    EndpointRequests, EndpointAsks, WindowLimit, MaxWindows,
    \* Sessions: calls, how long things last, and bounds.
    Entities, SessionCalls, SessionFor, AccessFor, RefreshFor,
    MaxSessions, MaxPairs, MaxRevoked, MaxHalfSeconds,
    \* Limits: the limits, who is limited and how often they are reset; what
    \* is used of the quotas.
    LimitList, Scopes, LimitCalls, Resets,
    QuotaRequests, Uses, RateLimit, QuotaLimit,
    \* Database: the commands and what a server appends beside them; the
    \* clients and their transactions.
    Procs, MaxAppended, Aggregates, Versions, Clients, MaxRows, MaxBegun,
    \* Finding: the builders of queries.
    Builders, BuilderAsks, MaxAsked

VARIABLES part, v1, v2, v3, v4, v5, v6, v7, v8, v9, v10

vars == <<part, v1, v2, v3, v4, v5, v6, v7, v8, v9, v10>>

-----------------------------------------------------------------------------
(* A window of two requests; what they ask for, and who passes it by.      *)
ModelRequests ==
    {<<"intent", "intent", "createApiKey">>, <<"intent", "delegate", "createUser">>,
     <<"revokeApiKey", "revokeApiKey", "listApiKeys">>}
Endpoint == INSTANCE IntentEndpoint WITH
    Requests <- EndpointRequests, Limit <- WindowLimit, Checkeds <- BOOLEAN,
    Mixes <- EndpointAsks, asks <- v1, checked <- v2, pc <- v3, answer <- v4,
    seen <- v5, counter <- v6, window <- v7, late <- v8, log <- v9

(* A session whose tokens are refreshed while a second factor is verified. *)
Session == INSTANCE Sessions WITH
    Calls <- SessionCalls, MaxTime <- MaxHalfSeconds, clock <- v1, sessions <- v2, pairs <- v3,
    revokedTokens <- v4, calls <- v5, ended <- v6, stale <- v7, shared <- v8

(* A limit of one realm, one of all others, and one of an address; uses    *)
(* named by intent and realm, by realm, by entity and by nothing.          *)
Scoped(type, id) == [type |-> type, id |-> id]
LimitOf(scope, enabled) == [scope |-> scope, limit |-> 1, enabled |-> enabled]
ModelLimits ==
    <<LimitOf(Scoped("Realm", "r"), TRUE), LimitOf(Scoped("Global", ""), FALSE),
      LimitOf(Scoped("Realm", ""), TRUE), LimitOf(Scoped("IP", ""), TRUE)>>
ModelScopes == {Scoped("IP", "a")} \cup {Scoped("Realm", id) : id \in {"p", "r"}}
Use(intent, realm, entity, resource, amount) ==
    [intent |-> intent, realm |-> realm, entity |-> entity, resource |-> resource, amount |-> amount]
ModelUses ==
    {Use("register", "r", "", "storage", 2), Use("", "r", "", "storage", 1), Use("", "", "e", "", 1),
     Use("register", "", "", "", 1)}
Limiting == INSTANCE Limits WITH
    Requests <- QuotaRequests, Contexts <- Uses, contexts <- v1, pc <- v2,
    counts <- v3, usage <- v4, beside <- v5, lost <- v6, Limits <- LimitList,
    Calls <- LimitCalls, call <- v1, counter <- v2, drops <- v3,
    admitted <- v4, late <- v5, reset <- v6

(* A validation of the schema, a close, and another call of the pool; any  *)
(* two of the commands, while a server appends events; and transactions.   *)
PoolCalls == {1, 2, 3}
PoolDatabases == {"a", "b"}
PoolTables == {"events", "snapshots"}
PoolCritical == {"events"}
PoolCall(op, dsn) == [op |-> op, dsn |-> dsn]
PoolAsks == {<<PoolCall("validate", "a"), PoolCall("close", "a"), PoolCall(op, "b")>> :
                 op \in {"query", "close"}}
Stored == INSTANCE Database WITH
    MaxEvents <- MaxAppended, command <- v1, readable <- v2,
    objects <- v3, events <- v4, appended <- v5, marked <- v6, phase <- v7,
    next <- v8, fresh <- v9, first <- v10, Calls <- PoolCalls,
    Databases <- PoolDatabases, Tables <- PoolTables,
    Critical <- PoolCritical, MaxChanges <- 1, Asks <- PoolAsks, pool <- v1,
    pools <- v2, calls <- v3, tables <- v4, moments <- v5, shadowed <- v6,
    changes <- v7, MaxTime <- MaxBegun, clock <- v1, committed <- v2,
    taken <- v3, tx <- v4, met <- v5

(* Documents of two types with one id, found in pages of two; two builders *)
(* of queries, of each of which two things are asked.                      *)
Doc(type, id) == [type |-> type, id |-> id]
Documented == {Doc("Party", 1), Doc("Asset", 1), Doc("Party", 2)}
AskFor(op, arg) == [op |-> op, arg |-> arg]
ModelAsks ==
    {AskFor("where", 1), AskFor("limit", 1), AskFor("limit", 2), AskFor("after", 1),
     AskFor("groupBy", 1)}
Found == INSTANCE Finding WITH
    Documents <- Documented, Realms <- {"x"}, Words <- {"a"}, PageLimit <- 2,
    MaxCalls <- 5, documents <- v1, reindexing <- v2, given <- v3, met <- v4,
    calls <- v5, Asks <- BuilderAsks, query <- v1, asked <- v2, built <- v3

\* There are finitely many requests and calls, and each asks for something;
\* limits and versions are numbers; sessions and tokens last for some time.  What may be
\* asked of a builder: a limit of nothing and a cursor of nothing are not.
ASSUME GuardsAssumption ==
    /\ IsFiniteSet(EndpointRequests) /\ IsFiniteSet(QuotaRequests) /\ IsFiniteSet(LimitCalls)
    /\ \A m \in EndpointAsks : m \in [EndpointRequests -> Endpoint!Operations]
    /\ {WindowLimit, MaxWindows, RateLimit, QuotaLimit} \subseteq Nat
    /\ {SessionFor, AccessFor, RefreshFor} \subseteq Nat /\ Versions \subseteq Nat
    /\ LimitList \in Seq([scope : [type : STRING, id : STRING], limit : Nat, enabled : BOOLEAN])
    /\ \A u \in Uses : u.amount \in Nat
    /\ \A a \in BuilderAsks :
           /\ a.op \in {"where", "include", "orderBy", "aggregate", "groupBy", "at", "limit", "after"}
           /\ a.op \in {"limit", "after"} => a.arg \in Nat \ {0}

-----------------------------------------------------------------------------
Init ==
    \/ part = "endpoint" /\ Endpoint!Init /\ v10 = 0
    \/ part = "sessions" /\ Session!Init /\ v9 = 0 /\ v10 = 0
    \/ part = "limits" /\ Limiting!RateInit /\ v7 = 0 /\ v8 = 0 /\ v9 = 0 /\ v10 = 0
    \/ part = "quotas" /\ Limiting!QuotaInit /\ v7 = 0 /\ v8 = 0 /\ v9 = 0 /\ v10 = 0
    \/ part = "migrations" /\ Stored!MigrationInit
    \/ part = "schema" /\ Stored!SchemaInit /\ v6 = 0 /\ v7 = 0 /\ v8 = 0 /\ v9 = 0 /\ v10 = 0
    \/ part = "pool" /\ Stored!PoolInit /\ v8 = 0 /\ v9 = 0 /\ v10 = 0
    \/ part = "search" /\ Found!SearchInit /\ v6 = 0 /\ v7 = 0 /\ v8 = 0 /\ v9 = 0 /\ v10 = 0
    \/ part = "queries" /\ Found!QueryInit /\ v4 = 0 /\ v5 = 0 /\ v6 = 0 /\ v7 = 0 /\ v8 = 0 /\ v9 = 0 /\ v10 = 0

Next ==
    /\ \/ part = "endpoint" /\ Endpoint!Next /\ UNCHANGED v10
       \/ part = "sessions" /\ Session!Next /\ UNCHANGED <<v9, v10>>
       \/ part = "limits" /\ Limiting!RateNext /\ UNCHANGED <<v7, v8, v9, v10>>
       \/ part = "quotas" /\ Limiting!QuotaNext /\ UNCHANGED <<v7, v8, v9, v10>>
       \/ part = "migrations" /\ Stored!MigrationNext
       \/ part = "schema" /\ Stored!SchemaNext /\ UNCHANGED <<v6, v7, v8, v9, v10>>
       \/ part = "pool" /\ Stored!PoolNext /\ UNCHANGED <<v8, v9, v10>>
       \/ part = "search" /\ Found!SearchNext /\ UNCHANGED <<v6, v7, v8, v9, v10>>
       \/ part = "queries" /\ Found!QueryNext /\ UNCHANGED <<v4, v5, v6, v7, v8, v9, v10>>
    /\ UNCHANGED part

Spec == Init /\ [][Next]_vars

-----------------------------------------------------------------------------
(* The types of every part.                                                *)
TypeOK ==
    /\ part = "endpoint" => Endpoint!TypeOK
    /\ part = "sessions" => Session!TypeOK
    /\ part = "limits" => Limiting!RateTypeOK
    /\ part = "quotas" => Limiting!QuotaTypeOK
    /\ part = "migrations" => Stored!MigrationTypeOK
    /\ part = "schema" => Stored!SchemaTypeOK
    /\ part = "pool" => Stored!PoolTypeOK
    /\ part = "search" => Found!SearchTypeOK
    /\ part = "queries" => Found!QueryTypeOK

(* What is told holds: what the database is said to have it has, who asks  *)
(* gets what was asked for, and what was revoked or reset stays so.        *)
(* - Database!MarkedIsMade: a migration counts as applied only when all    *)
(*   that it runs is there.                                                *)
(* - Database!ValidWasThere: a schema found valid was all there at one     *)
(*   moment of the reading.                                                *)
(* - Database!ChainHoldsApart: a row of the ledger after the one it is     *)
(*   linked to, unless two transactions met.                               *)
(* - Database!VersionsAreSequential: an aggregate in the table of events   *)
(*   has all its versions.                                                 *)
(* - Database!NoPoolLeaks: every pool but the global one has ended.        *)
(* - Database!AskedIsServed: a call reaches the database it asked for,     *)
(*   unless a pool for another one was there.                              *)
(* - IntentEndpoint!RevokedOnce: a key is revoked once.                    *)
(* - IntentEndpoint!RevokedIsListed: no later list shows it alive.         *)
(* - Sessions!RefreshedOnce: a pair of tokens stands on a token that       *)
(*   gives no other, unless two refreshes met.                             *)
(* - Sessions!RevocationHolds: a revoked session stays revoked unless a    *)
(*   second factor had read it before.                                     *)
(* - Limits!ResetReachesAll: the counters of a limit are there until a     *)
(*   reset, which reaches all of them.                                     *)
(* - Finding!FoundAsGiven: a document is found as it was last given,       *)
(*   unless a reindexing was under way.                                    *)
(* - Finding!PagesCover: the pages of a search together hold each match    *)
(*   once.                                                                 *)
(* - Finding!QueriesAreAsAsked: a query is what was asked of its own       *)
(*   builder.                                                              *)
ToldHolds ==
    /\ part = "migrations" => Stored!MarkedIsMade
    /\ part = "schema" => Stored!ChainHoldsApart /\ Stored!VersionsAreSequential
    /\ part = "pool" =>
           Stored!ValidWasThere /\ Stored!NoPoolLeaks /\ Stored!AskedIsServed
    /\ part = "endpoint" => Endpoint!RevokedOnce /\ Endpoint!RevokedIsListed
    /\ part = "sessions" => Session!RefreshedOnce /\ Session!RevocationHolds
    /\ part = "limits" => Limiting!ResetReachesAll
    /\ part = "search" => Found!FoundAsGiven /\ Found!PagesCover
    /\ part = "queries" => Found!QueriesAreAsAsked

(* What is admitted is within its limit.                                   *)
(* - IntentEndpoint!AdmittedWithinLimit: no more requests in a window      *)
(*   than the limit and the counts given back late.                        *)
(* - IntentEndpoint!NoEternalWindow: a counter above zero expires, unless  *)
(*   a process died between the two commands.                              *)
(* - Sessions!LastsAsTold: a token admits as long as its owner was told.   *)
(* - Limits!UsedWithinQuota: what is used is within the quota but for      *)
(*   what was asked between a check and its record.                        *)
(* - Limits!CountedWhereChecked: what is checked is counted in the scope   *)
(*   it is checked in.                                                     *)
(* - Limits!ActorWithinLimit: an actor is admitted as often as its limit   *)
(*   allows, but for what was given back late.                             *)
(* - Limits!LimitedIsMeant: and is counted under a limit that is meant     *)
(*   for it.                                                               *)
AdmittedWithinLimit ==
    /\ part = "endpoint" =>
           Endpoint!AdmittedWithinLimit /\ Endpoint!NoEternalWindow
    /\ part = "sessions" => Session!LastsAsTold
    /\ part = "quotas" =>
           Limiting!UsedWithinQuota /\ Limiting!CountedWhereChecked
    /\ part = "limits" => Limiting!ActorWithinLimit /\ Limiting!LimitedIsMeant

(* A reset that was not forced costs no event that was there when it was   *)
(* started (Database!LosesNothingOld), and no statement changes or takes   *)
(* away a row of the ledger, or what was there at a time that is over      *)
(* (Database!CommittedStays), and a query that was built keeps its         *)
(* conditions (Finding!NarrowsOnly).                                       *)
UnforcedLosesNothingOld ==
    [][/\ part = "migrations" => Stored!LosesNothingOld
       /\ part = "schema" => Stored!CommittedStays
       /\ part = "queries" => Found!NarrowsOnly]_vars
=============================================================================
