----------------------------- MODULE MCServices -----------------------------
(***************************************************************************)
(* The services around the event store, on small instances.  They do not   *)
(* interact in these models: part says which of them the behaviour is      *)
(* about, and v1, v2, ... are the variables of that one, in the order of   *)
(* its vars.                                                               *)
(***************************************************************************)
EXTENDS Naturals, Sequences, FiniteSets

CONSTANTS
    \* Authorization: the role types and policies that come with it.
    Templates, Regulations, BuiltInAsks,
    \* RealmManager: the realms and their parents, and what they list.
    Parent, RealmLists, ContextCalls, ContextChanges

VARIABLES part, v1, v2, v3, v4, v5, v6, v7, v8, v9, v10

vars == <<part, v1, v2, v3, v4, v5, v6, v7, v8, v9, v10>>

-----------------------------------------------------------------------------
(* Three intents on one file, and any two intents of which one is on       *)
(* something that is there.                                                *)

Intents ==
    <<"upload", "download", "list", "modify", "delete", "function", "execute", "script",
      "clone", "pull", "push", "register", "propose", "asset", "workspace", "consent">>
FileWork == {<<"modify", "modify", "modify">>, <<"modify", "modify", "delete">>,
             <<"modify", "download", "modify">>, <<"modify", "download", "delete">>,
             <<"modify", "download", "download">>, <<"modify", "delete", "delete">>}
OnOld == {2, 4, 5, 7, 10, 11}
Pairs == UNION {{<<Intents[i], Intents[j]>> : j \in DOMAIN Intents \ {k \in OnOld : k < i}} :
                   i \in OnOld}

Intent == INSTANCE IntentHandlers WITH
    Requests <- 1 .. 3, Old <- 0, Mixes <- FileWork \cup Pairs,
    Checkeds <- BOOLEAN, intent <- v1, checked <- v2, pc <- v3, outcome <- v4,
    start <- v5, current <- v6, latest <- v7, log <- v8, stored <- v9,
    ran <- v10

(* Two processes that start, a realm that is changed by two calls, and a   *)
(* tenant that is made, looked for, changed and crossed into.              *)
Call(op, node, realm, open) == [op |-> op, node |-> node, realm |-> realm, open |-> open]
Boot(n) == Call("bootstrap", n, 0, TRUE)
Tenant == Call("tenant", "n1", 1, FALSE)
RealmCalls ==
    {<<Boot("n1"), Boot("n2"), Call("primordial", "n1", 0, FALSE)>>,
     <<Boot("n1"), Call("update", "n1", 0, FALSE), Call("primordial", "n1", 0, FALSE)>>,
     <<Tenant, Call("update", "n1", 1, TRUE), Call("cross", "n1", 1, FALSE)>>,
     <<Tenant, Call("update", "n1", 1, TRUE), Call("cross", "n2", 1, FALSE)>>,
     <<Tenant, Call("lookup", "n2", 1, TRUE), Call("update", "n1", 1, TRUE)>>}

(* Two roles of one actor and two policies.                                *)
Permission(action, type, id, conditions) ==
    [action |-> action, type |-> type, id |-> id, conditions |-> conditions]
TheRoles ==
    [manager |-> [holder |-> "ann", roleType |-> "Manager",
                  scope |-> [type |-> "Global", target |-> ""], from |-> 0, until |-> 0,
                  permissions |->
                      {Permission("approve", "Agreement", "*", {[type |-> "ResourceOwner"]})}],
     auditor |-> [holder |-> "ann", roleType |-> "Auditor",
                  scope |-> [type |-> "Realm", target |-> "r1"], from |-> 1, until |-> 1,
                  permissions |->
                      {Permission("read", "*", "*",
                                  {[type |-> "TimeOfDay", first |-> 1, last |-> 2]})}]]
ThePolicies ==
    [owner |-> [priority |-> 700, enabled |-> TRUE, actions |-> {"*"},
                conditions |-> {[type |-> "IsResourceOwner"]},
                effect |-> "Allow", ruled |-> FALSE, rules |-> <<>>],
     duties |-> [priority |-> 600, enabled |-> TRUE, actions |-> {"approve"}, conditions |-> {},
                 effect |-> "Neutral", ruled |-> TRUE, rules |->
                 <<[condition |-> [type |-> "HasAllRoles", of |-> {"Manager", "Auditor"}],
                    effect |-> "Deny"],
                   [condition |-> [type |-> "Any"], effect |-> "Allow"]>>]]
TheConditions ==
    UNION {p.conditions \cup {p.rules[i].condition : i \in DOMAIN p.rules} :
              p \in {ThePolicies.owner, ThePolicies.duties}}
Deal == [type |-> "Agreement", id |-> "deal", owner |-> "ann"]
TheAsks ==
    {[actor |-> [type |-> "Party", id |-> "ann"], actions |-> <<"approve", "read">>,
      realm |-> "r1", resource |-> Deal],
     [actor |-> [type |-> "System", id |-> "ann"], actions |-> <<"read">>,
      realm |-> "r1", resource |-> Deal]}

(* Up to three events of an aggregate of each kind.                        *)
Of(type, args) == {[type |-> type, arg |-> a] : a \in args}
TheEvents ==
    [Party |-> Of("PartyRegistered", {"Ann"}) \cup Of("NameUpdated", {"Bea"})
               \cup Of("ContactsUpdated", {"x", "y"}),
     Asset |-> Of("AssetCreated", {"ann"}) \cup Of("OwnershipTransferred", {"bob"})
               \cup Of("CustodyTransferred", {"cy"}) \cup Of("AssetStatusChanged", {"Created"}),
     Agreement |-> Of("AgreementCreated", {{"ann", "bob"}}) \cup Of("ConsentGiven", {"ann", "bob", "cy"})
                   \cup Of("AgreementStatusChanged", {"Active"}),
     Role |-> Of("RoleGranted", {"ann"}) \cup Of("RoleRevoked", {""}),
     Workflow |-> Of("WorkflowInstanceCreated", {"s0"}) \cup Of("WorkflowTransitioned", {"s1", "s2"})
                  \cup Of("WorkflowCompleted", {""})]
Past == INSTANCE Aggregates WITH
    EventsOf <- TheEvents, Writers <- 1 .. 3, Readers <- {"r"},
    Checkeds <- BOOLEAN, MaxTime <- 3, kind <- v1, checked <- v2,
    events <- v3, clock <- v4, draft <- v5, answer <- v6, was <- v7

(* An agreement that is made, activated and fulfilled, and a log call; a   *)
(* factory with two outputs or with one, and three loggers; and a logger   *)
(* of traces that two calls flush, over two days.                          *)
TheStatuses == <<"Draft", "Active", "Fulfilled">>
Stories == INSTANCE Narrative WITH
    Statuses <- TheStatuses, Logged <- {"Debug", "Error"}, MaxLogged <- 1,
    MaxTime <- 2, clock <- v1, told <- v2, calls <- v3, writing <- v4,
    memories <- v5, crossed <- v6, lost <- v7,
    Configs <- {<<"json", "memory">>, <<"console">>}, Correlations <- {"c"},
    MaxOutputs <- 2, MaxLoggers <- 3, MaxEntries <- 1, outputs <- v1,
    loggers <- v2, entries <- v3, written <- v4, Tracers <- {"root"},
    Flushes <- {1, 2}, Levels <- {"fatal", "milestone"}, MaxTraces <- 3,
    MaxDay <- 2, day <- v1, pending <- v2, traced <- v3, flush <- v4,
    saved <- v5, met <- v6, broken <- v7

(* Two activations of an agreement of each type.                           *)
Types == INSTANCE AgreementTypes WITH
    Calls <- {1, 2}, MaxOf <- 2, id <- v1, parties <- v2, assets <- v3,
    until <- v4, calls <- v5, granted <- v6

(* A request of each kind, sent twice, by name and in words.               *)
Hears(method, path, body) == [path |-> path, method |-> method, body |-> body]
InWords(words) == <<[words |-> <<words>>, name |-> "", type |-> ""]>>
ByName(name, type) == <<[words |-> <<>>, name |-> name, type |-> type]>>
AskedBodies ==
    {ByName("hire", ""), ByName("hire", "sale"), ByName("buy", ""), ByName("sing", ""), ByName("", ""),
     InWords({"hire", "agree"}), InWords({"sell"}), InWords({"accept"}), InWords({"buy"}),
     InWords({"help"}), <<>>}
AskedElse ==
    {Hears("GET", path, <<>>) : path \in {"/", "/simulate", "/affordances", "/health", "/nowhere"}} \cup
    {Hears("POST", "/simulate", ByName("sing", "")), Hears("POST", "/simulate", <<>>),
     Hears("GET", "/schema/", ByName("sing", ""))}
AskedAll ==
    AskedElse \cup {Hears("POST", path, body) : path \in {"/", "/intent"}, body \in AskedBodies}
Gateway == INSTANCE IntentGateway WITH
    Requests <- {1}, BuiltIn <- {"propose", "consent", "what-can-i-do"},
    Late <- {"sing"}, MaxSends <- 2, Asks <- AskedAll, asks <- v1,
    registered <- v2, sends <- v3, pc <- v4, intent <- v5, answer <- v6,
    handled <- v7, simulated <- v8

(* A server that is started twice and stopped once, and what two clients   *)
(* ask of it.                                                              *)
Asking(kind, of) == [kind |-> kind, of |-> of]
FromServer ==
    {<<Asking(k, 1), Asking(q, 1)>> :
        k \in {"chatStart", "sessionStart"}, q \in {"chat", "getSession"}} \cup
    {<<Asking("chatNone", 1), Asking("preflight", 2)>>, <<Asking("nowhere", 1), Asking("health", 2)>>,
     <<Asking("getSession", 1), Asking("suggestions", 2)>>, <<Asking("chat", 1), Asking("health", 2)>>}
Configured == {[key |-> TRUE, postgres |-> b, handler |-> b, production |-> b] : b \in BOOLEAN}
Server == INSTANCE Antenna WITH
    Starts <- {1, 2}, Stops <- {1}, Requests <- {1, 2}, Asks <- FromServer,
    Configs <- Configured, config <- v1, starts <- v2, named <- v3,
    running <- v4, stops <- v5, requests <- v6, sessions <- v7, alive <- v8,
    again <- v9

Contents == {<<"hire">>, <<"hire", "pay">>}

(* Two events of an agreement, one caused by the other, and one of another *)
(* aggregate, whose type and aggregate are words of one and two parts.     *)
Sendable(id, type, kind, aggregate, version, sequence) ==
    [id |-> id, type |-> [capitals |-> TRUE, words |-> type], kind |-> [capitals |-> TRUE, words |-> kind],
     aggregate |-> aggregate, version |-> version,
     sequence |-> sequence, realm |-> IF aggregate = "k" THEN "none" ELSE "r",
     correlation |-> IF aggregate = "k" THEN "none" ELSE "c", cause |-> IF id = 2 THEN 1 ELSE "none",
     actor |-> "somebody", payload |-> id]
SendableEvents ==
    {Sendable(1, <<<<"agreement">>, <<"created">>>>, <<<<"agreement">>>>, "a", 1, 1),
     Sendable(2, <<<<"agreement">>, <<"activated">>>>, <<<<"agreement">>>>, "a", 2, 0),
     Sendable(3, <<<<"revoked">>>>, <<<<"api">>, <<"key">>>>, "k", 2, 0)}

(* Every mix of three requests about an old session and new ones; plans of *)
(* two sessions; a user whose memories are cut to two of a kind.           *)
Agents == INSTANCE Agent WITH
    Requests <- 1 .. 3, Old <- 0, NoSession <- "none", asked <- v1,
    target <- v2, pc <- v3, copy <- v4, sessions <- v5, met <- v6,
    ended <- v7, Sessions <- {1, 2}, Contents <- Contents, MaxPlans <- 2,
    MaxCalls <- 3, plans <- v1, pending <- v2, owner <- v3, cards <- v4,
    created <- v5, calls <- v6, Users <- {"u"}, Realms <- {"x"},
    Keys <- {"tone", "lang"}, Values <- {1, 2}, UserLimit <- 2,
    MaxMemories <- 3, MaxWeeks <- 3, memories <- v1, given <- v2, saved <- v3,
    week <- v4

(* The versions of PartyRegistered; and two payments or subscriptions, of  *)
(* which things happen twice.                                              *)
Forms == INSTANCE EventForms WITH
    Objects <- {1, 2}, Agreements <- {"agr"}, MaxHappenings <- 2,
    MaxCalls <- 2, secrets <- v1, objects <- v2, happened <- v3,
    hookEvents <- v4, hookRefused <- v5, Events <- SendableEvents,
    MaxSent <- 2, sent <- v1, received <- v2, refused <- v3, LastVersion <- 4,
    MaxEvents <- 2, current <- v1, upcasters <- v2, events <- v3

(* Three calls about one policy and one aggregate; and what happened to    *)
(* two requests and beside them.                                           *)
About(kind, request) == [kind |-> kind, request |-> request]
Happening ==
    {About("decision", 11), About("decision", 12), About("policy", 11), [kind |-> "role", agreement |-> 21]}
        \cup {[kind |-> "anomaly", severity |-> s] : s \in {"Medium", "Critical"}}
Kept == INSTANCE Retention WITH
    Policies <- {"p1"}, Strategies <- {"crypto_shred", "logical_delete"},
    Aggregates <- {"a"}, Calls <- 1 .. 3, ready <- v1, rows <- v2,
    policies <- v3, applications <- v4, call <- v5, answer <- v6, late <- v7,
    last <- v8, restarts <- v9, MaxRestarts <- 1,
    Callers <- {1, 2}, Happenings <- Happening, MaxMemories <- 2,
    MaxYears <- 8, memories <- v1, pending <- v2, told <- v3, lost <- v4,
    year <- v5

(* Two operations on one repository, of which one may use a token.         *)
ToGit(op, token, force) == [op |-> op, token |-> token, force |-> force]
GitAsks ==
    {<<ToGit("pull", TRUE, FALSE), ToGit(op, FALSE, FALSE)>> : op \in {"pull", "push", "status"}} \cup
    {<<ToGit("push", FALSE, FALSE), ToGit("status", FALSE, FALSE)>>,
     <<ToGit("pull", FALSE, FALSE), ToGit("push", FALSE, TRUE)>>,
     <<ToGit("clone", FALSE, FALSE), ToGit("pull", TRUE, FALSE)>>}

(* A letter, another document of its name, and the letter as text.         *)
Written(id, content, type) == [owner |-> "r", id |-> id, name |-> "a", content |-> content, type |-> type]
Letter == Written(1, 1, "pdf")
Other == Written(2, 3, "pdf")
Again == Written(1, 2, "text")
StorageAsks ==
    <<{<<"upload", Letter>>}, {<<"upload", Other>>, <<"upload", Again>>, <<"delete", Letter>>},
      {<<op, Letter>> : op \in {"download", "exists", "list"}}>>

(* What an administrator makes twice and then lists, in a new ledger and   *)
(* in ones that realms were logged in otherwise.                           *)
Admin(op, realm, create) == [op |-> op, realm |-> realm, create |-> create]
AdminAsks ==
    <<{Admin("createRealm", 0, FALSE), Admin("register", 1, FALSE), Admin("createUser", 2, TRUE)},
      {Admin("createUser", 1, FALSE), Admin("createUser", 2, TRUE)},
      {Admin("listRealms", 0, FALSE), Admin("listEntities", 0, FALSE), Admin("listEntities", 1, FALSE)}>>
Entry(type, kind, id) == [type |-> type, kind |-> kind, id |-> id, of |-> 0]
OldLogs ==
    {<<>>, <<Entry("RealmCreated", "Flow", 1)>>,
     <<Entry("EntityCreated", "Party", 1), Entry("RealmCreated", "Realm", 2)>>}
(* The built-in roles and policies, and what tells them apart.             *)
Thing(type, owner, parties, by, entityType) ==
    [type |-> type, owner |-> owner, parties |-> parties, proposedBy |-> by, entityType |-> entityType]
Mine == Thing("Asset", "me", {}, "undefined", "undefined")
OnThing(action, thing, hour) == [action |-> action, resource |-> thing, hour |-> hour, day |-> 5]
ModelBuiltInAsks ==
    {OnThing("delete", Mine, 16), OnThing("delete", Mine, 17), OnThing("create", Mine, 9),
     OnThing("update", Thing("Entity", "me", {}, "undefined", "System"), 9)} \cup
    {OnThing("approve", Thing("Agreement", "undefined", {"me"}, by, "undefined"), 9) :
        by \in {"me", "undefined"}}
ModelRegulations == {"system-protection", "separation-of-duties", "business-hours", "owner-override"}
Access == INSTANCE Authorization WITH
    Roles <- TheRoles, Policies <- ThePolicies, RuleConditions <- TheConditions,
    Requests <- {"q"}, Asks <- TheAsks, Window <- 1,
    Stores <- {"memory", "postgres", "declared"}, MaxLog <- 3, MaxTime <- 1,
    store <- v1, log <- v2, policies <- v3, ask <- v4, began <- v5, ids <- v6,
    roles <- v7, pc <- v8, allowed <- v9, audit <- v10, Person <- "me",
    BuiltInPolicies <- Regulations, builtInRoles <- v1, builtInPolicies <- v2,
    last <- v3

(* One operation across realms, on each platform there may be.             *)
PlatformsThere == {[store |-> s, jsonb |-> "text"] : s \in {"memory", "postgres"}}
Crossing == INSTANCE CrossRealmSaga WITH
    Executions <- {1}, Calls <- {1, 2}, Platforms <- PlatformsThere, MaxDepth <- 2,
    platform <- v1, rows <- v2, logged <- v3, cache <- v4, old <- v5,
    calls <- v6, effects <- v7, registered <- v8, reached <- v9,
    refilled <- v10

(* Two calls of runtimes, of which one has a plugin without a shutdown;    *)
(* the operations and documents above.                                     *)
Adapting == INSTANCE Adapters WITH
    GitCalls <- {1, 2}, Asks <- GitAsks, MaxCommits <- 3, asks <- v1,
    pc <- v2, before <- v3, atFirst <- v4, answers <- v5, there <- v6,
    local <- v7, remote <- v8, named <- v9, tracking <- v10,
    StorageCalls <- {1, 2, 3}, Documents <- {Letter, Other, Again},
    StorageAsks <- StorageAsks, Schemes <- {"byRealm", "content"},
    PageSize <- 2, MaxShut <- 1, scheme <- v1, client <- v2, open <- v3,
    objects <- v4, storageCalls <- v5, storageAnswers <- v6, shown <- v7,
    Runtimes <- {"Node.js", "Wasm"}, Silent <- {"Wasm"}, Calls <- {1, 2},
    MaxPlugins <- 3, made <- v1, cleared <- v2, shutdownAsked <- v3,
    stopped <- v4, calls <- v5

(* Two jobs; and a loop that is started and stopped twice.                 *)
Loops == INSTANCE BackgroundLoops WITH
    Jobs <- {1, 2}, queue <- v1, status <- v2, doing <- v3, log <- v4,
    alive <- v5, Starts <- {1, 2}, MaxStops <- 2, MaxChanges <- 2,
    isRunning <- v1, tickInterval <- v2, timers <- v3, starts <- v4,
    deadline <- v5, task <- v6, tick <- v7, calls <- v8, overtaken <- v9,
    acknowledged <- v10

(* A realm in a realm in a realm.                                          *)
ModelParents == [team |-> "tenant", tenant |-> "root", root |-> "none"]
Realm == INSTANCE RealmManager WITH
    Calls <- 1 .. 3, Nodes <- {"n1", "n2"}, Mixes <- RealmCalls,
    Checkeds <- BOOLEAN, Primordial <- 0, MaxRestarts <- 1, call <- v1,
    checked <- v2, pc <- v3, answer <- v4, seen <- v5, began <- v6, log <- v7,
    realms <- v8, restarts <- v9, Realms <- DOMAIN Parent, Lists <- RealmLists,
    MaxChanges <- ContextChanges, was <- v1, contextCall <- v2,
    contextChanges <- v3, shared <- v4, kept <- v5, rebuild <- v6, AdminCalls <- {1, 2, 3}, Asks <- AdminAsks,
    OldLogs <- OldLogs, MaxLog <- 7, entries <- v1, calls <- v2, at <- v3,
    cursor <- v4, found <- v5, made <- v6, since <- v7

(* Two connections that may use the same ids; two messages of one.         *)
Sockets == INSTANCE WebSockets WITH
    Conns <- {"c1", "c2"}, Ids <- {"i1", "i2", "i3"}, MaxSubs <- 2,
    None <- "none", fate <- v1, subscribedBy <- v2, table <- v3,
    isAlive <- v4, pings <- v5, contested <- v6, Messages <- {1, 2},
    MaxEvents <- 2, isOpen <- v1, events <- v2, message <- v3,
    subscribed <- v4, recorded <- v5, sent <- v6

-----------------------------------------------------------------------------
Init ==
    \/ part = "intents" /\ Intent!Init
    \/ part = "chat" /\ Agents!ChatInit /\ v8 = 0 /\ v9 = 0 /\ v10 = 0
    \/ part = "sockets" /\ Sockets!SocketInit /\ v7 = 0 /\ v8 = 0 /\ v9 = 0 /\ v10 = 0
    \/ part = "realms" /\ Realm!RealmInit /\ v10 = 0
    \/ part = "retention" /\ Kept!RetentionInit /\ v10 = 0
    \/ part = "access" /\ Access!AccessInit
    \/ part = "types" /\ Types!Init /\ v7 = 0 /\ v8 = 0 /\ v9 = 0 /\ v10 = 0
    \/ part = "gateway" /\ Gateway!Init /\ v9 = 0 /\ v10 = 0
    \/ part = "server" /\ Server!Init /\ v10 = 0
    \/ part = "jobs" /\ Loops!JobInit /\ v6 = 0 /\ v7 = 0 /\ v8 = 0 /\ v9 = 0 /\ v10 = 0
    \/ part = "plans" /\ Agents!PlanInit /\ v7 = 0 /\ v8 = 0 /\ v9 = 0 /\ v10 = 0
    \/ part = "webhooks" /\ Forms!HookInit /\ v6 = 0 /\ v7 = 0 /\ v8 = 0 /\ v9 = 0 /\ v10 = 0
    \/ part = "formats" /\ Forms!FormatInit /\ v4 = 0 /\ v5 = 0 /\ v6 = 0 /\ v7 = 0 /\ v8 = 0 /\ v9 = 0 /\ v10 = 0
    \/ part = "recall" /\ Agents!MemoryInit /\ v5 = 0 /\ v6 = 0 /\ v7 = 0 /\ v8 = 0 /\ v9 = 0 /\ v10 = 0
    \/ /\ part = "upcasts" /\ Forms!UpcastInit
       /\ v4 = 0 /\ v5 = 0 /\ v6 = 0 /\ v7 = 0 /\ v8 = 0 /\ v9 = 0 /\ v10 = 0
    \/ part = "audit" /\ Kept!AuditInit /\ v6 = 0 /\ v7 = 0 /\ v8 = 0 /\ v9 = 0 /\ v10 = 0
    \/ part = "git" /\ Adapting!GitInit
    \/ part = "storage" /\ Adapting!StorageInit /\ v8 = 0 /\ v9 = 0 /\ v10 = 0
    \/ part = "directory" /\ Realm!DirectoryInit /\ v8 = 0 /\ v9 = 0 /\ v10 = 0
    \/ part = "builtin" /\ Access!BuiltInInit /\ v4 = 0 /\ v5 = 0 /\ v6 = 0 /\ v7 = 0 /\ v8 = 0 /\ v9 = 0 /\ v10 = 0
    \/ part = "crossing" /\ Crossing!Init
    \/ part = "logging" /\ Stories!LogInit /\ v5 = 0 /\ v6 = 0 /\ v7 = 0 /\ v8 = 0 /\ v9 = 0 /\ v10 = 0
    \/ part = "runtimes" /\ Adapting!RuntimeInit /\ v6 = 0 /\ v7 = 0 /\ v8 = 0 /\ v9 = 0 /\ v10 = 0
    \/ part = "loop" /\ Loops!LoopInit
    \/ part = "contexts" /\ Realm!ContextInit /\ v7 = 0 /\ v8 = 0 /\ v9 = 0 /\ v10 = 0
    \/ part = "messages" /\ Sockets!MessageInit /\ v7 = 0 /\ v8 = 0 /\ v9 = 0 /\ v10 = 0
    \/ part = "past" /\ Past!Init /\ v8 = 0 /\ v9 = 0 /\ v10 = 0
    \/ part = "stories" /\ Stories!Init /\ v8 = 0 /\ v9 = 0 /\ v10 = 0
    \/ part = "paths" /\ Stories!PathInit /\ v8 = 0 /\ v9 = 0 /\ v10 = 0

Next ==
    /\ \/ part = "intents" /\ Intent!Next
       \/ part = "chat" /\ Agents!ChatNext /\ UNCHANGED <<v8, v9, v10>>
       \/ part = "sockets" /\ Sockets!SocketNext /\ UNCHANGED <<v7, v8, v9, v10>>
       \/ part = "realms" /\ Realm!RealmNext /\ UNCHANGED v10
       \/ part = "retention" /\ Kept!RetentionNext /\ UNCHANGED v10
       \/ part = "access" /\ Access!AccessNext
       \/ part = "types" /\ Types!Next /\ UNCHANGED <<v7, v8, v9, v10>>
       \/ part = "gateway" /\ Gateway!Next /\ UNCHANGED <<v9, v10>>
       \/ part = "server" /\ Server!Next /\ UNCHANGED v10
       \/ part = "jobs" /\ Loops!JobNext /\ UNCHANGED <<v6, v7, v8, v9, v10>>
       \/ part = "plans" /\ Agents!PlanNext /\ UNCHANGED <<v7, v8, v9, v10>>
       \/ part = "webhooks" /\ Forms!HookNext /\ UNCHANGED <<v6, v7, v8, v9, v10>>
       \/ part = "formats" /\ Forms!FormatNext /\ UNCHANGED <<v4, v5, v6, v7, v8, v9, v10>>
       \/ part = "recall" /\ Agents!MemoryNext /\ UNCHANGED <<v5, v6, v7, v8, v9, v10>>
       \/ part = "upcasts" /\ Forms!UpcastNext /\ UNCHANGED <<v4, v5, v6, v7, v8, v9, v10>>
       \/ part = "audit" /\ Kept!AuditNext /\ UNCHANGED <<v6, v7, v8, v9, v10>>
       \/ part = "git" /\ Adapting!GitNext
       \/ part = "storage" /\ Adapting!StorageNext /\ UNCHANGED <<v8, v9, v10>>
       \/ part = "directory" /\ Realm!DirectoryNext /\ UNCHANGED <<v8, v9, v10>>
       \/ part = "builtin" /\ Access!BuiltInNext /\ UNCHANGED <<v4, v5, v6, v7, v8, v9, v10>>
       \/ part = "crossing" /\ Crossing!Next
       \/ part = "logging" /\ Stories!LogNext /\ UNCHANGED <<v5, v6, v7, v8, v9, v10>>
       \/ part = "runtimes" /\ Adapting!RuntimeNext /\ UNCHANGED <<v6, v7, v8, v9, v10>>
       \/ part = "loop" /\ Loops!LoopNext
       \/ part = "contexts" /\ Realm!ContextNext /\ UNCHANGED <<v7, v8, v9, v10>>
       \/ part = "messages" /\ Sockets!MessageNext /\ UNCHANGED <<v7, v8, v9, v10>>
       \/ part = "past" /\ Past!Next /\ UNCHANGED <<v8, v9, v10>>
       \/ part = "stories" /\ Stories!Next /\ UNCHANGED <<v8, v9, v10>>
       \/ part = "paths" /\ Stories!PathNext /\ UNCHANGED <<v8, v9, v10>>
    /\ UNCHANGED part

Spec == Init /\ [][Next]_vars

-----------------------------------------------------------------------------
(* The types of every part.                                                *)
TypeOK ==
    /\ part = "intents" => Intent!TypeOK
    /\ part = "chat" => Agents!ChatTypeOK
    /\ part = "sockets" => Sockets!SocketTypeOK
    /\ part = "realms" => Realm!RealmTypeOK
    /\ part = "retention" => Kept!RetentionTypeOK
    /\ part = "access" => Access!AccessTypeOK
    /\ part = "past" => Past!TypeOK
    /\ part = "paths" => Stories!PathTypeOK
    /\ part = "stories" => Stories!TypeOK
    /\ part = "types" => Types!TypeOK
    /\ part = "gateway" => Gateway!TypeOK
    /\ part = "server" => Server!TypeOK
    /\ part = "jobs" => Loops!JobTypeOK
    /\ part = "plans" => Agents!PlanTypeOK
    /\ part = "webhooks" => Forms!HookTypeOK
    /\ part = "formats" => Forms!FormatTypeOK
    /\ part = "recall" => Agents!MemoryTypeOK
    /\ part = "upcasts" => Forms!UpcastTypeOK
    /\ part = "audit" => Kept!AuditTypeOK
    /\ part = "git" => Adapting!GitTypeOK
    /\ part = "storage" => Adapting!StorageTypeOK
    /\ part = "directory" => Realm!DirectoryTypeOK
    /\ part = "builtin" => Access!BuiltInTypeOK
    /\ part = "crossing" => Crossing!TypeOK
    /\ part = "logging" => Stories!LogTypeOK
    /\ part = "runtimes" => Adapting!RuntimeTypeOK
    /\ part = "loop" => Loops!LoopTypeOK
    /\ part = "contexts" => Realm!ContextTypeOK
    /\ part = "messages" => Sockets!MessageTypeOK

(* What is recorded or reported as done has been done, and an answer of    *)
(* success stands on a record, and on one only.                            *)
(* - IntentHandlers!RecordedIsDone: what the log of intents says was       *)
(*   stored or run has been.                                               *)
(* - IntentGateway!WordsAreIntents: a word is handled as the intent it     *)
(*   stands for, and what was asked for explicitly as it was asked.        *)
(* - BackgroundLoops!OneOutcome: a job has one outcome at most, the one    *)
(*   that its status tells.                                                *)
(* - Adapters!PulledIsThere: what is said to be cloned or pulled has what  *)
(*   was on the server.                                                    *)
(* - Adapters!PushedIsThere: what is said to be pushed is on it.           *)
(* - Adapters!StatusTells: a status tells what the server lacks.           *)
(* - Authorization!ReasonTells: a decision tells why it was made, but for  *)
(*   one that policies allowed in vain.                                    *)
(* - IntentHandlers!SuccessIsRecorded: the event of the intent.            *)
(* - IntentHandlers!RefusedLeavesNothing: one that was refused leaves      *)
(*   nothing.                                                              *)
(* - RealmManager!ChangesTakeEffect: a change of a realm is in the         *)
(*   configuration it returns.                                             *)
(* - Retention!AppliedOnce: one row for a retention policy.                *)
(* - Authorization!AllowedIsHeld: what is allowed, on a role granted and   *)
(*   not revoked and no policy against it.                                 *)
(* - Narrative!EndIsTold: an agreement is told to have ended when it has.  *)
(* - AgreementTypes!ValidWhenAgreed: an agreement is valid when those it   *)
(*   needs agreed.                                                         *)
(* - IntentGateway!AnswerTells: the answer to a request tells what was     *)
(*   done for it.                                                          *)
(* - Agent!CreatedAsConfirmed: what is created from a plan is what its     *)
(*   user saw and confirmed.                                               *)
(* - RealmManager!UserHasKey: a user that was made has a key of its        *)
(*   own.                                                                  *)
(* - Authorization!ManagerIsNoEmployee: what a manager is granted, on the  *)
(*   permissions of a manager alone.                                       *)
(* - WebSockets!FailedHasRun: an intent that a socket tells to have        *)
(*   failed has run, unless the message brought none.                      *)
SuccessIsRecorded ==
    /\ part = "intents" =>
           Intent!RecordedIsDone /\ Intent!SuccessIsRecorded /\ Intent!RefusedLeavesNothing
    /\ part = "gateway" => Gateway!WordsAreIntents /\ Gateway!AnswerTells
    /\ part = "jobs" => Loops!OneOutcome
    /\ part = "git" => Adapting!PulledIsThere /\ Adapting!PushedIsThere /\ Adapting!StatusTells
    /\ part = "builtin" => Access!ReasonTells /\ Access!ManagerIsNoEmployee
    /\ part = "realms" => Realm!ChangesTakeEffect
    /\ part = "retention" => Kept!AppliedOnce
    /\ part = "access" => Access!AllowedIsHeld
    /\ part = "stories" => Stories!EndIsTold
    /\ part = "types" => Types!ValidWhenAgreed
    /\ part = "plans" => Agents!CreatedAsConfirmed
    /\ part = "directory" => Realm!UserHasKey
    /\ part = "messages" => Sockets!FailedHasRun

(* What rests on something else comes after it, in the order it came.      *)
(* - IntentHandlers!EffectsFollowCauses: the events of a registration.     *)
(* - RealmManager!GenesisInOrder: the events of genesis.                   *)
(* - RealmManager!RealmsAreLicensed: a realm after the activation of its   *)
(*   license.                                                              *)
(* - RealmManager!CrossedWhenOpen: an operation across realms after its    *)
(*   target was open.                                                      *)
(* - Narrative!SavedInOrder: a trace after those its logger formed         *)
(*   before it.                                                            *)
(* - Narrative!CausesLeadHere: causes lead to what they caused.            *)
(* - AgreementTypes!GrantsFollowType: the roles of an agreement in the     *)
(*   order of its type, after the realm they are for.                      *)
(* - EventForms!AggregateInOrder: the messages of an aggregate on one      *)
(*   key, in the order of its versions.                                    *)
(* - EventForms!OnItsAgreement: what a service tells of a payment or a     *)
(*   user comes to the aggregate it was made for.                          *)
(* - CrossRealmSaga!RealmsAreConsistent: an operation across realms is     *)
(*   completed after both have changed.                                    *)
(* - CrossRealmSaga!OneStepAProcess: and goes one step further in a        *)
(*   process at most.                                                      *)
(* - CrossRealmSaga!ReservationReleased: one that is given up holds no     *)
(*   asset.                                                                *)
(* - Narrative!SpansNest: the parent of a span is the one it was opened in.*)
(* - Narrative!OutputsInOrder: an output has an entry after those before   *)
(*   it.                                                                   *)
(* - Authorization!PoliciesOnlyTake: no policy admits what no role         *)
(*   permits.                                                              *)
(* - Authorization!ApprovedIsProposed: no party approves what nobody       *)
(*   proposed.                                                             *)
EffectsFollowCauses ==
    /\ part = "intents" => Intent!EffectsFollowCauses
    /\ part = "realms" =>
           Realm!GenesisInOrder /\ Realm!RealmsAreLicensed /\ Realm!CrossedWhenOpen
    /\ part = "paths" => Stories!SavedInOrder
    /\ part = "stories" => Stories!CausesLeadHere
    /\ part = "types" => Types!GrantsFollowType
    /\ part = "formats" => Forms!AggregateInOrder
    /\ part = "webhooks" => Forms!OnItsAgreement
    /\ part = "crossing" =>
           Crossing!RealmsAreConsistent /\ Crossing!OneStepAProcess /\ Crossing!ReservationReleased
    /\ part = "logging" => Stories!SpansNest /\ Stories!OutputsInOrder
    /\ part = "builtin" => Access!PoliciesOnlyTake /\ Access!ApprovedIsProposed

(* What is kept is there until it is taken away, and not after.            *)
(* - IntentHandlers!EditsApartAreKept: the content of an edit recorded     *)
(*   before the next one came.                                             *)
(* - IntentHandlers!DeletedIsFinal: nothing that comes after the deletion  *)
(*   of its file succeeds.                                                 *)
(* - Agent!AloneIsKept: the turn of a chat no other overlaps.              *)
(* - Agent!HistoryIsNumbered: the turns of a session are numbered as they  *)
(*   stand.                                                                *)
(* - Agent!EndedSessionIsGone: an ended session is there again only if a   *)
(*   chat was under way.                                                   *)
(* - Authorization!HeldIsAllowed: a role keeps granting what it should.    *)
(* - Narrative!KeptUntilSaved: a trace, until it is saved.                 *)
(* - AgreementTypes!GrantsEndWithAgreement: a role that an agreement       *)
(*   grants, until the agreement ends.                                     *)
(* - Antenna!ToldIsFound: a session a client was told of, until the agent  *)
(*   was made again.                                                       *)
(* - Agent!LastIsPending: the plan last shown in a session, until it is    *)
(*   confirmed or given up.                                                *)
(* - Agent!LastPreferenceCounts: what a user said last of a preference,    *)
(*   while there are no more memories than a context takes.                *)
(* - Retention!RequestIsFound: the decisions on a request, for seven       *)
(*   years.                                                                *)
(* - Retention!GraveIsKept: what is grave, longer than what led to it.     *)
(* - Adapters!RemoteIsRewritten: the remote of a repository, but between   *)
(*   two commands of a call with a token.                                  *)
(* - Adapters!DownloadedIsItsOwn: a document under a key of its own.       *)
(* - Narrative!OutputsMissNothing: an entry is in every output there was,  *)
(*   but behind one that could not write it.                               *)
(* - Adapters!ClearedIsStopped: a plugin, until its shutdown has ended,    *)
(*   unless it came while one waited.                                      *)
(* - BackgroundLoops!AcknowledgedStays: an acknowledgement that met no     *)
(*   tick.                                                                 *)
(* - Narrative!AlertsOutlast: a memory that alerts, or that is formed on   *)
(*   purpose.                                                              *)
KeptUntilDeleted ==
    /\ part = "intents" => Intent!EditsApartAreKept /\ Intent!DeletedIsFinal
    /\ part = "chat" =>
           Agents!AloneIsKept /\ Agents!HistoryIsNumbered /\ Agents!EndedSessionIsGone
    /\ part = "access" => Access!HeldIsAllowed
    /\ part = "paths" => Stories!KeptUntilSaved
    /\ part = "types" => Types!GrantsEndWithAgreement
    /\ part = "server" => Server!ToldIsFound
    /\ part = "plans" => Agents!LastIsPending
    /\ part = "recall" => Agents!LastPreferenceCounts
    /\ part = "audit" => Kept!RequestIsFound /\ Kept!GraveIsKept
    /\ part = "git" => Adapting!RemoteIsRewritten
    /\ part = "storage" => Adapting!DownloadedIsItsOwn
    /\ part = "logging" => Stories!OutputsMissNothing
    /\ part = "runtimes" => Adapting!ClearedIsStopped
    /\ part = "loop" => Loops!AcknowledgedStays
    /\ part = "stories" => Stories!AlertsOutlast

(* What is derived from a record agrees with it.                           *)
(* - RealmManager!MapFollowsLog: no process has a realm the log did not    *)
(*   give it.                                                              *)
(* - Retention!MapFollowsTable: the map of policies agrees with their      *)
(*   table, on what was registered last and with success, unless two       *)
(*   registrations met.                                                    *)
(* - Aggregates!VersionsTravel: what an aggregate was at a version is      *)
(*   what is read for it ever after.                                       *)
(* - Aggregates!PastIsSettled: what it was at a time likewise, when no     *)
(*   event of that time was still on its way.                              *)
(* - Aggregates!ShowsAll: no event takes back what another one says.       *)
(* - Narrative!PathsAreWhole: paths have all that was stored, each in      *)
(*   its place.                                                            *)
(* - Narrative!GuideAgrees: and so has what the guide says of them.        *)
(* - Narrative!StoriesAreWhole: and so have stories.                       *)
(* - Narrative!PeriodsAddUp: of which the periods of a span leave none     *)
(*   out and tell none twice.                                              *)
(* - EventForms!IdTellsHappening: events with one id tell of one           *)
(*   happening.                                                            *)
(* - EventForms!ReceivedIsSent: what is received of a format that is read  *)
(*   back is what was sent, but for what the format drops.                 *)
(* - EventForms!ReadAsCurrent: an event of any age is read as one of the   *)
(*   current version.                                                      *)
(* - Adapters!FoundWasThere: what is found to exist was there.             *)
(* - Adapters!ShortListIsAll: a list of less than a page has all that is   *)
(*   there.                                                                *)
(* - RealmManager!ListedOnce: the directory lists once what was logged.    *)
(* - Narrative!RequestsAreCorrelated: what is logged below a request bears *)
(*   its correlation.                                                      *)
(* - RealmManager!CrossingNeedsAll: a realm crosses when all above it      *)
(*   did.                                                                  *)
(* - RealmManager!ListIsOfTheLine: and allows the types that a realm of    *)
(*   its line listed.                                                      *)
MapFollowsStore ==
    /\ part = "realms" => Realm!MapFollowsLog
    /\ part = "retention" => Kept!MapFollowsTable
    /\ part = "past" =>
           Past!VersionsTravel /\ Past!PastIsSettled /\ Past!ShowsAll
    /\ part = "paths" => Stories!PathsAreWhole /\ Stories!GuideAgrees
    /\ part = "stories" => Stories!StoriesAreWhole /\ Stories!PeriodsAddUp
    /\ part = "webhooks" => Forms!IdTellsHappening
    /\ part = "formats" => Forms!ReceivedIsSent
    /\ part = "upcasts" => Forms!ReadAsCurrent
    /\ part = "storage" => Adapting!FoundWasThere /\ Adapting!ShortListIsAll
    /\ part = "directory" => Realm!ListedOnce
    /\ part = "logging" => Stories!RequestsAreCorrelated
    /\ part = "contexts" => Realm!CrossingNeedsAll /\ Realm!ListIsOfTheLine

(* Who asks is served from what is there, and nothing is served when it is *)
(* over.                                                                   *)
(* - WebSockets!TableIsWanted: events go to an open connection that asked  *)
(*   for them.                                                             *)
(* - WebSockets!SubscribedIsServed: all that it subscribed under an id of  *)
(*   its own.                                                              *)
(* - WebSockets!OnlySilentAreDropped: a heartbeat drops only what did not  *)
(*   answer a ping.                                                        *)
(* - Antenna!ListensWhenReady: a server that listens has what it answers   *)
(*   with.                                                                 *)
(* - Antenna!StopStops: after a stop nothing is left running, unless it    *)
(*   was started twice.                                                    *)
(* - Adapters!OnePluginARuntime: a runtime has one plugin.                 *)
(* - Adapters!RunByTheLiving: which was not asked to stop, unless a        *)
(*   shutdown waits or failed.                                             *)
(* - Adapters!HealthIsOfAll: and a health check tells of.                  *)
(* - BackgroundLoops!StoppedIsSilent: a scheduler that was stopped ticks   *)
(*   no more, unless the stop overtook a start.                            *)
(* - BackgroundLoops!OneTimer: one that runs has one timer.                *)
(* - BackgroundLoops!RunningTicks: and ticks, unless its first tick        *)
(*   failed.                                                               *)
(* - WebSockets!OneAnswer: a message of a connection has one answer, but   *)
(*   for a subscription whose replay fails.                                *)
(* - WebSockets!HandledIsAnswered: and has one while the connection is     *)
(*   open.                                                                 *)
(* - WebSockets!SilentReplayIsEmpty: a replay that says nothing had        *)
(*   nothing to tell.                                                      *)
SubscribedIsServed ==
    /\ part = "sockets" =>
           Sockets!TableIsWanted /\ Sockets!SubscribedIsServed /\ Sockets!OnlySilentAreDropped
    /\ part = "server" => Server!ListensWhenReady /\ Server!StopStops
    /\ part = "runtimes" =>
           Adapting!OnePluginARuntime /\ Adapting!RunByTheLiving /\ Adapting!HealthIsOfAll
    /\ part = "loop" =>
           Loops!StoppedIsSilent /\ Loops!OneTimer /\ Loops!RunningTicks
    /\ part = "messages" =>
           Sockets!OneAnswer /\ Sockets!HandledIsAnswered /\ Sockets!SilentReplayIsEmpty
=============================================================================
