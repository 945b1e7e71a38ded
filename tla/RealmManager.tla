---------------------------- MODULE RealmManager ----------------------------
(***************************************************************************)
(* The realms (src/core/universal/realm-manager.ts): how they come to be   *)
(* and change, what a realm allows by the configurations of those above    *)
(* it, and the directory of realms, entities and users the server keeps    *)
(* (src/antenna/admin.ts). The second reads configurations only, which it  *)
(* takes as they come: each has a specification of its own, in a section   *)
(* of its own.                                                             *)
(***************************************************************************)
EXTENDS Naturals, Sequences, FiniteSets, SequencesExt

CONSTANTS
    \* Realms.
    Calls,      \* calls, each made once
    Nodes,      \* server processes
    Mixes,      \* the calls made: functions from Calls to [op, node, realm, open]
    MaxRestarts, \* bound on the restarts of processes
    Checkeds,   \* whether the store checks versions
    Primordial, \* the id of the primordial realm
    \* The contexts of realms.
    Realms,
    Parent,     \* realm |-> the realm it is in, or None
    ContextCalls,      \* calls of getRealmContext
    Lists,      \* what a realm may allow: lists of types
    MaxChanges, \* bound: configurations changed
    \* The directory of the admin module.
    AdminCalls,
    Asks,       \* call |-> what it may be: [op, realm, create]
    OldLogs,    \* logs there may be at first
    MaxLog      \* bound: events

VARIABLES
    \* Realms.
    call,       \* c |-> what is called: [op, node, realm, open]
    checked,    \* which store is configured
    pc,         \* c |-> the next step; 0 before the call, Ended after it
    answer,     \* c |-> "none", "ok", "allowed", "refused", "missing", "error"
    seen,       \* c |-> the configuration it read; << >> when there is none
    began,      \* c |-> length of the log when the call was made
    log,        \* the events
    realms,     \* n |-> realm id |-> the configuration in the map, or << >>
    restarts,   \* restarts so far
    \* The contexts of realms.
    was,        \* realm |-> the configurations it has had: [cross, types]
    contextCall,    \* call |-> [pc, realm, next, read, chain, began]
    contextChanges,
    shared,     \* whether other processes have realms of the same log
    kept,       \* realm |-> which of them the map of this process has; 0: none
    rebuild,    \* that of another call, one at a time: [realm, pc, version]
    \* The directory of the admin module.
    entries,    \* the log: sequence of [type, kind, id, of]
    calls,      \* call |-> what it is
    at,         \* call |-> where it stands
    cursor,     \* call |-> events it has read
    found,      \* call |-> what it has listed, in order
    made,       \* call |-> realm, entity and key it made
    since       \* history: call |-> events there were when it began

-----------------------------------------------------------------------------
(***************************************************************************)
(* Realms (src/core/universal/realm-manager.ts), the hooks of a tenant     *)
(* license that create them (agreement-hooks-processor.ts) and the call of *)
(* the admin API that goes through both (src/antenna/admin.ts).  The log   *)
(* is the source of truth; every server process keeps a map of realms that *)
(* is filled from it and never invalidated.  A call is a sequence of       *)
(* awaited steps; calls of one process and of several interleave.          *)
(*                                                                         *)
(* Of a realm's configuration one field is kept, crossRealmAllowed: the    *)
(* configuration is the sequence of the values it has had, last one first  *)
(* to be read by the operations between realms.                            *)
(***************************************************************************)
realmVars == <<call, checked, pc, answer, seen, began, log, realms, restarts>>

RealmIds == Calls \cup {Primordial}
Ended == 13     \* more than the steps of any call

-----------------------------------------------------------------------------
(* The calls.                                                              *)

Put(kind, type, version) ==
    [do |-> "append", kind |-> kind, type |-> type, version |-> version]
ReadRealm  == [do |-> "read"]       \* getByAggregate('Realm', ...)
CacheRead  == [do |-> "cacheread"]  \* rebuildRealmFromEvents fills the map
CacheNew   == [do |-> "cachenew"]   \* the map gets the realm just created
NeedCached == [do |-> "cached"]     \* realms.get, or an error
Validate   == [do |-> "validate"]
FindFlow   == [do |-> "findflow"]   \* getByAggregate('Flow', ...)

\* Mutant of Bootstrap: the genesis agreement before the realm it governs.
BootstrapAgreementFirst ==
    <<ReadRealm, CacheRead, Put("Agreement", "AgreementCreated", 1),
      Put("Realm", "RealmCreated", 1), CacheNew, Put("Party", "EntityCreated", 1)>>

\* A primordial realm that is found is the end of bootstrap.
Bootstrap ==
    <<ReadRealm, CacheRead, Put("Realm", "RealmCreated", 1), CacheNew,
      Put("Party", "EntityCreated", 1), Put("Agreement", "AgreementCreated", 1)>>

\* Mutant of CreateRealm: the map is filled before the event is appended.
CreateRealmCachedFirst == <<CacheNew, Put("Realm", "RealmCreated", 1)>>

CreateRealm == <<Put("Realm", "RealmCreated", 1), CacheNew>>

\* The hook appends the event createRealm has appended already.
CreateRealmHook == CreateRealm \o <<Put("Realm", "RealmCreated", 1)>>

GrantRoles == <<Put("Role", "RoleGranted", 1)>>

\* The parties of the license, its proposal, consent and activation.
License ==
    <<Put("Licensor", "PartyRegistered", 1), Put("Licensee", "PartyRegistered", 1),
      Put("License", "AgreementProposed", 1), Put("License", "PartyConsented", 2),
      Put("License", "AgreementActivated", 3)>>

\* Mutant of CreateTenant: the hooks run on the proposal.
CreateTenantAtOnce ==
    SubSeq(License, 1, 3) \o CreateRealmHook \o GrantRoles \o SubSeq(License, 4, 5)
    \o <<Put("ApiKey", "ApiKeyCreated", 1), FindFlow>>

\* admin.createRealm.
CreateTenant ==
    License \o CreateRealmHook \o GrantRoles
    \o <<Put("ApiKey", "ApiKeyCreated", 1), FindFlow>>

\* Mutant of UpdateRealmConfig: the events are read before the change.
UpdateRealmConfigReadFirst ==
    <<NeedCached, ReadRealm, Put("Realm", "RealmConfigUpdated", 2), CacheRead>>

UpdateRealmConfig ==
    <<NeedCached, Put("Realm", "RealmConfigUpdated", 2), ReadRealm, CacheRead>>

\* getPrimordialRealm always rebuilds, getRealm when the map has no realm.
GetPrimordial == <<ReadRealm, CacheRead>>

\* validateCrossRealmOperation: from the primordial realm to the realm of the
\* call, each looked up with getRealm.
CrossRealm == <<ReadRealm, CacheRead, Validate>>

\* admin.getRealm.
AdminLookup == <<FindFlow>>

Steps(c) == CASE call[c].op = "bootstrap" -> Bootstrap
              [] call[c].op = "tenant"    -> CreateTenant
              [] call[c].op = "update"    -> UpdateRealmConfig
              [] call[c].op = "primordial" -> GetPrimordial
              [] call[c].op = "cross"     -> CrossRealm
              [] call[c].op = "lookup"    -> AdminLookup

-----------------------------------------------------------------------------
(* The log.                                                                *)

\* Who an aggregate is: a realm by its id, everything else by its call.
Id(c, kind) == IF kind = "Realm" THEN call[c].realm ELSE c

LatestVersion(kind, id) ==
    LET es == SelectSeq(log, LAMBDA e : e.kind = kind /\ e.id = id)
    IN IF es = << >> THEN 0 ELSE Last(es).version

Has(kind, id, type, n) == \E i \in 1..n :
    log[i].kind = kind /\ log[i].id = id /\ log[i].type = type

\* The configuration according to the first n events: that of the first
\* RealmCreated and the changes after it.
Rebuilt(id, n) ==
    LET es == SelectSeq(SubSeq(log, 1, n), LAMBDA e : e.kind = "Realm" /\ e.id = id)
        changes == SelectSeq(es, LAMBDA e : e.type = "RealmConfigUpdated")
    IN IF ~ Has("Realm", id, "RealmCreated", n) THEN << >>
       ELSE <<Head(SelectSeq(es, LAMBDA e : e.type = "RealmCreated")).open>>
            \o [i \in DOMAIN changes |-> changes[i].open]

-----------------------------------------------------------------------------
RealmInit ==
    /\ call \in Mixes
    /\ checked \in Checkeds
    /\ ~ checked => \E n \in Nodes : \A c \in Calls : call[c].node = n
    /\ pc = [c \in Calls |-> 0]
    /\ answer = [c \in Calls |-> "none"]
    /\ seen = [c \in Calls |-> << >>]
    /\ began = [c \in Calls |-> 0]
    /\ log = << >>
    /\ realms = [n \in Nodes |-> [r \in RealmIds |-> << >>]]
    /\ restarts = 0

Go(c) == pc' = [pc EXCEPT ![c] = @ + 1] /\ UNCHANGED answer
Return(c, a) == pc' = [pc EXCEPT ![c] = Ended] /\ answer' = [answer EXCEPT ![c] = a]
At(c, what) == pc[c] \in 1..Len(Steps(c)) /\ Steps(c)[pc[c]].do = what
Node(c) == call[c].node

Call(c) ==
    /\ pc[c] = 0
    /\ pc' = [pc EXCEPT ![c] = 1]
    /\ began' = [began EXCEPT ![c] = Len(log)]
    /\ UNCHANGED <<call, checked, answer, seen, log, realms, restarts>>

\* eventStore.append; the version is written in the code, never read.
AppendEvent(c) ==
    /\ At(c, "append")
    /\ LET s == Steps(c)[pc[c]]
           e == [kind |-> s.kind, id |-> Id(c, s.kind), type |-> s.type,
                 version |-> s.version, by |-> c, open |-> call[c].open]
       IN IF checked /\ LatestVersion(s.kind, e.id) + 1 # s.version
          THEN UNCHANGED log /\ Return(c, "error")
          ELSE log' = Append(log, e) /\ Go(c)
    /\ UNCHANGED <<call, checked, seen, began, realms, restarts>>

\* A realm that is in the map is not read again by getRealm.
Cached(c) == call[c].op = "cross" /\ realms[Node(c)][call[c].realm] # << >>

Read(c) ==
    /\ At(c, "read")
    /\ seen' = [seen EXCEPT ![c] =
           IF Cached(c) THEN realms[Node(c)][call[c].realm] ELSE Rebuilt(call[c].realm, Len(log))]
    /\ Go(c)
    /\ UNCHANGED <<call, checked, began, log, realms, restarts>>

FillMap(c) ==
    /\ At(c, "cacheread")
    /\ realms' = IF seen[c] = << >> THEN realms
                 ELSE [realms EXCEPT ![Node(c)][call[c].realm] = seen[c]]
    /\ CASE call[c].op = "bootstrap" /\ seen[c] # << >> -> Return(c, "ok")
         [] call[c].op # "bootstrap" /\ seen[c] = << >> -> Return(c, "missing")
         [] OTHER -> Go(c)
    /\ UNCHANGED <<call, checked, seen, began, log, restarts>>

NewInMap(c) ==
    /\ At(c, "cachenew")
    /\ realms' = [realms EXCEPT ![Node(c)][call[c].realm] = <<call[c].open>>]
    /\ Go(c)
    /\ UNCHANGED <<call, checked, seen, began, log, restarts>>

MustBeInMap(c) ==
    /\ At(c, "cached")
    /\ IF realms[Node(c)][call[c].realm] = << >> THEN Return(c, "error") ELSE Go(c)
    /\ UNCHANGED <<call, checked, seen, began, log, realms, restarts>>

\* Mutant of Decide: the configuration of the source is enough.
DecideBySource(c) ==
    /\ At(c, "validate")
    /\ Return(c, "allowed")
    /\ UNCHANGED <<call, checked, seen, began, log, realms, restarts>>

\* The realm itself is always allowed; otherwise both have to be open, and
\* the primordial realm is from the start.
Decide(c) ==
    /\ At(c, "validate")
    /\ Return(c, IF call[c].realm = Primordial \/ Last(seen[c]) THEN "allowed" ELSE "refused")
    /\ UNCHANGED <<call, checked, seen, began, log, realms, restarts>>

\* admin.getRealm: no RealmCreated has the aggregate type 'Flow'.
FindInFlow(c) ==
    /\ At(c, "findflow")
    /\ IF Has("Flow", call[c].realm, "RealmCreated", Len(log)) THEN Go(c) ELSE Return(c, "missing")
    /\ UNCHANGED <<call, checked, seen, began, log, realms, restarts>>

Answer(c) ==
    /\ pc[c] = Len(Steps(c)) + 1
    /\ Return(c, "ok")
    /\ UNCHANGED <<call, checked, seen, began, log, realms, restarts>>

\* A process ends and starts again: its map is empty, its calls are gone.  The
\* log of the store in memory would be gone with it.
Restart(n) ==
    /\ checked
    /\ restarts < MaxRestarts
    /\ restarts' = restarts + 1
    /\ realms' = [realms EXCEPT ![n] = [r \in RealmIds |-> << >>]]
    /\ LET lost == {c \in Calls : Node(c) = n /\ pc[c] \in 1..(Ended - 1)} IN
       /\ pc' = [c \in Calls |-> IF c \in lost THEN Ended ELSE pc[c]]
       /\ answer' = [c \in Calls |-> IF c \in lost THEN "error" ELSE answer[c]]
    /\ UNCHANGED <<call, checked, seen, began, log>>

RealmNext ==
    \/ \E c \in Calls :
        \/ Call(c) \/ AppendEvent(c) \/ Read(c) \/ FillMap(c) \/ NewInMap(c)
        \/ MustBeInMap(c) \/ Decide(c) \/ FindInFlow(c) \/ Answer(c)
    \/ \E n \in Nodes : Restart(n)

RealmSpec == RealmInit /\ [][RealmNext]_realmVars

-----------------------------------------------------------------------------
(* Properties.                                                             *)

RealmTypeOK ==
    /\ call \in Mixes
    /\ pc \in [Calls -> 0..Ended]
    /\ answer \in [Calls -> {"none", "ok", "allowed", "refused", "missing", "error"}]
    /\ seen \in [Calls -> Seq(BOOLEAN)]
    /\ began \in [Calls -> 0..Len(log)]
    /\ realms \in [Nodes -> [RealmIds -> Seq(BOOLEAN)]]
    /\ restarts \in 0..MaxRestarts

\* No process has a realm, or a configuration of one, that the log did not
\* give it: what its map holds is what some prefix of the log rebuilds to.
MapFollowsLog == \A n \in Nodes, r \in RealmIds :
    realms[n][r] # << >> => \E k \in 0..Len(log) : Rebuilt(r, k) = realms[n][r]

\* The three events of genesis are in the log in their order, whichever of
\* several processes appended them and wherever one of them was interrupted;
\* with a store that checks versions each of them is there once.
Genesis == <<"RealmCreated", "EntityCreated", "AgreementCreated">>
GenesisOf(i) == \E g \in DOMAIN Genesis :
    log[i].type = Genesis[g] /\ call[log[i].by].op = "bootstrap"
GenesisInOrder == \A i \in DOMAIN log : GenesisOf(i) /\ log[i].type # Genesis[1] =>
    \E j \in 1..(i - 1) : GenesisOf(j) /\
        \E g \in 2..3 : log[i].type = Genesis[g] /\ log[j].type = Genesis[g - 1]

\* A tenant's realm is in the log after the activation of the license that
\* establishes it, and its key and its administrator's role come after it.
RealmsAreLicensed == \A i \in DOMAIN log :
    LET c == log[i].by IN
    /\ log[i].type = "RealmCreated" /\ log[i].id # Primordial
       => Has("License", c, "AgreementActivated", i)
    /\ log[i].type \in {"RoleGranted", "ApiKeyCreated"}
       => Has("Realm", c, "RealmCreated", i)

\* A change that is answered with success is in the configuration it returns,
\* after everything that configuration had when the call was made.
ChangesTakeEffect == \A c \in Calls : answer[c] = "ok" /\ call[c].op = "update" =>
    /\ \E i \in DOMAIN log : log[i].type = "RealmConfigUpdated" /\ log[i].by = c
    /\ Len(seen[c]) > Len(Rebuilt(call[c].realm, began[c]))

\* An operation is let across into a realm only if the realm has been open.
CrossedWhenOpen == \A c \in Calls :
    answer[c] = "allowed" /\ call[c].realm # Primordial =>
        \E k \in 0..Len(log) : LET x == Rebuilt(call[c].realm, k) IN x # << >> /\ Last(x)

-----------------------------------------------------------------------------
(***************************************************************************)
(* The context of a realm (src/core/universal/realm-manager.ts): a realm   *)
(* is read, then its parent, and so on up, one await after the other, and  *)
(* the configuration that is in force is made of what was read.  A realm   *)
(* is read from the map of the process, or, when the map does not have it, *)
(* from the log, and then fills the map.  Realms are reconfigured          *)
(* meanwhile, by this process, which reads its change back into the map,   *)
(* or by another one, of which the map learns nothing.                     *)
(***************************************************************************)
contextVars == <<was, contextCall, contextChanges, shared, kept, rebuild>>

None == "none"      \* no parent
Undefined == {"undefined"}  \* no list

Config(r) == Last(was[r])

-----------------------------------------------------------------------------
\* Mutant of Merge: what the realm itself has.
MergeOwn(own, above) == own

\* ... what a realm has, with what is in force above it: crossing has to be
\* allowed by both, a list of types is the realm's own if it has one.
Merge(own, above) ==
    [cross |-> own.cross /\ above.cross,
     types |-> IF own.types # Undefined THEN own.types ELSE above.types]

\* chain begins with the realm and ends with the one without a parent.
GetEffectiveConfig(chain) ==
    FoldRight(Merge, Front(chain), Last(chain))

Idle == [realm |-> None, pc |-> "none", version |-> 0]

ContextInit ==
    /\ was \in [Realms -> {<<[cross |-> TRUE, types |-> t]>> : t \in Lists}]
    /\ contextCall = [c \in ContextCalls |-> [pc |-> "idle", next |-> None, read |-> 0]]
    /\ contextChanges = 0
    /\ shared \in BOOLEAN
    /\ kept = [r \in Realms |-> 0]
    /\ rebuild = Idle

\* The oldest configuration of r that the map has or may be given.
Oldest(r) ==
    LET read == {contextCall[c].read : c \in {d \in ContextCalls : contextCall[d].next = r}}
                \cup (IF rebuild.realm = r THEN {rebuild.version} ELSE {})
    IN Min((read \cup {kept[r], Len(was[r])}) \ {0})

GetRealmContext(c) ==
    \E r \in Realms :
        /\ contextCall[c].pc = "idle"
        /\ contextCall' = [contextCall EXCEPT ![c] = [pc |-> "read", realm |-> r, next |-> r, read |-> 0, chain |-> <<>>,
                                                      began |-> [q \in Realms |-> Oldest(q)]]]
        /\ UNCHANGED <<was, contextChanges, shared, kept, rebuild>>

\* Mutant of Above: the chain ends with the parent.
AboveOnce(c) == IF contextCall[c].chain = <<>> THEN Parent[contextCall[c].next] ELSE None

Above(c) == Parent[contextCall[c].next]

\* getRealm has answered with one of the configurations.
ContextHas(c, version) ==
    contextCall' = [contextCall EXCEPT ![c].chain = Append(@, was[contextCall[c].next][version]),
                                       ![c].next = Above(c),
                                       ![c].read = 0,
                                       ![c].pc = IF Above(c) = None THEN "held" ELSE "read"]

\* getRealm, with the realm in the map.
ContextReadRealm(c) ==
    /\ contextCall[c].pc = "read" /\ kept[contextCall[c].next] # 0
    /\ ContextHas(c, kept[contextCall[c].next])
    /\ UNCHANGED <<was, contextChanges, shared, kept, rebuild>>

\* ... and without it: the events are read,
ContextReadEvents(c) ==
    /\ contextCall[c].pc = "read" /\ kept[contextCall[c].next] = 0
    /\ contextCall' = [contextCall EXCEPT ![c].pc = "fill", ![c].read = Len(was[contextCall[c].next])]
    /\ UNCHANGED <<was, contextChanges, shared, kept, rebuild>>

\* and the map is given what was read, whatever it has by then.
ContextFillMap(c) ==
    /\ contextCall[c].pc = "fill"
    /\ kept' = [kept EXCEPT ![contextCall[c].next] = contextCall[c].read]
    /\ ContextHas(c, contextCall[c].read)
    /\ UNCHANGED <<was, contextChanges, shared, rebuild>>

\* Every change is appended as version 2: a store that checks versions, which
\* one that is shared does, takes one.  Changes are partial: what they do not
\* name stays.
Reconfigure(r) ==
    /\ contextChanges < MaxChanges /\ (shared => Len(was[r]) = 1)
    /\ contextChanges' = contextChanges + 1
    /\ \E config \in {[Config(r) EXCEPT !.cross = ~@]} \cup {[Config(r) EXCEPT !.types = t] : t \in Lists} :
           was' = [was EXCEPT ![r] = Append(@, config)]

\* updateRealmConfig, of a realm that is in the map, up to its rebuild.
ContextUpdateConfig(r) ==
    /\ kept[r] # 0 /\ rebuild = Idle
    /\ Reconfigure(r)
    /\ rebuild' = [realm |-> r, pc |-> "due", version |-> 0]
    /\ UNCHANGED <<contextCall, shared, kept>>

ContextUpdateElsewhere(r) ==
    /\ shared
    /\ Reconfigure(r)
    /\ UNCHANGED <<contextCall, shared, kept, rebuild>>

\* The rebuild of a change, of a getRealm that does not find the realm in the
\* map, or of getPrimordialRealm.
ContextRebuild(r) ==
    /\ \/ rebuild.realm = r /\ rebuild.pc = "due"
       \/ rebuild = Idle /\ (kept[r] = 0 \/ Parent[r] = None)
    /\ rebuild' = [realm |-> r, pc |-> "fill", version |-> Len(was[r])]
    /\ UNCHANGED <<was, contextCall, contextChanges, shared, kept>>

ContextRebuilt ==
    /\ rebuild.pc = "fill"
    /\ kept' = [kept EXCEPT ![rebuild.realm] = rebuild.version]
    /\ rebuild' = Idle
    /\ UNCHANGED <<was, contextCall, contextChanges, shared>>

ContextNext ==
    \/ \E c \in ContextCalls :
           GetRealmContext(c) \/ ContextReadRealm(c) \/ ContextReadEvents(c) \/ ContextFillMap(c)
    \/ \E r \in Realms :
           ContextUpdateConfig(r) \/ ContextUpdateElsewhere(r) \/ ContextRebuild(r)
    \/ ContextRebuilt

ContextSpec == ContextInit /\ [][ContextNext]_contextVars

-----------------------------------------------------------------------------
ContextTypeOK ==
    /\ \A r \in Realms : was[r] \in Seq([cross : BOOLEAN, types : Lists]) /\ was[r] # <<>>
    /\ kept \in [Realms -> 0 .. 1 + MaxChanges]
    /\ rebuild # Idle => rebuild.version \in 0 .. Len(was[rebuild.realm])
    /\ \A c \in ContextCalls : contextCall[c].pc \in {"idle", "read", "fill", "held"}

Line(r) ==
    LET up[n \in 0..Cardinality(Realms)] == IF n = 0 THEN <<r>>
                          ELSE LET top == Parent[Last(up[n - 1])] IN
                               IF top = None THEN up[n - 1] ELSE Append(up[n - 1], top)
    IN up[Cardinality(Realms)]

\* From what this process had read of r, or was reading, when the context was
\* asked for.
HadSince(c, r) == {was[r][i] : i \in contextCall[c].began[r]..Len(was[r])}

\* Who holds a context is told that its realm crosses only if every realm
\* above it did so at some moment since the context was asked for, or when
\* this process read it last before (getRealmContext, getEffectiveConfig).
CrossingNeedsAll ==
    \A c \in ContextCalls : contextCall[c].pc = "held" /\ GetEffectiveConfig(contextCall[c].chain).cross =>
        \A r \in ToSet(Line(contextCall[c].realm)) : \E config \in HadSince(c, r) : config.cross

\* The list of types in force is one that some realm of the line had in that
\* time, and there is none only if no realm of the line had one all the
\* while.  It is not always within the list of the realm above.
ListIsOfTheLine ==
    \A c \in ContextCalls : contextCall[c].pc = "held" =>
        LET types == GetEffectiveConfig(contextCall[c].chain).types
            line == ToSet(Line(contextCall[c].realm)) IN
        /\ \E r \in line : \E config \in HadSince(c, r) : config.types = types
        /\ types = Undefined =>
               \A r \in line : \E config \in HadSince(c, r) : config.types = Undefined

-----------------------------------------------------------------------------
(***************************************************************************)
(* Realms, entities and users as the admin module of the server makes and  *)
(* finds them (src/antenna/admin.ts).  Whatever it is asked for is read    *)
(* from the whole log, event by event, while other calls append to it; a   *)
(* user is made by several appends, any of which may be the last before    *)
(* the process or the store fails.                                         *)
(*                                                                         *)
(* getRealm looks for a RealmCreated of the aggregate type "Flow".  Only   *)
(* logs of before have one: what the code appends now has the type         *)
(* "Realm".  createRealm is here as one append.                            *)
(***************************************************************************)
directoryVars == <<entries, calls, at, cursor, found, made, since>>

NoAsk == [op |-> "none"]
Nothing == 0

-----------------------------------------------------------------------------
Event(type, kind, id, of) == [type |-> type, kind |-> kind, id |-> id, of |-> of]
NewId == Len(entries) + 1
Append1(type, kind, of) == entries' = Append(entries, Event(type, kind, NewId, of))
Room(n) == Len(entries) + n <= MaxLog

Logged(type, id) == {i \in DOMAIN entries : entries[i].type = type /\ entries[i].id = id}

\* getRealm of the admin module, getParty of the aggregates.
GetRealm(id) == \E i \in Logged("RealmCreated", id) : entries[i].kind = "Flow"
GetParty(id) == Logged("PartyRegistered", id) # {}

DirectoryInit ==
    /\ entries \in OldLogs
    /\ calls = [c \in AdminCalls |-> NoAsk]
    /\ at = [c \in AdminCalls |-> "idle"]
    /\ cursor = [c \in AdminCalls |-> 0] /\ found = [c \in AdminCalls |-> <<>>]
    /\ made = [c \in AdminCalls |-> [realm |-> Nothing, entity |-> Nothing, key |-> Nothing]]
    /\ since = [c \in AdminCalls |-> 0]

AdminGoto(c, where) == at' = [at EXCEPT ![c] = where]

Ask(c, ask) ==
    /\ at[c] = "idle"
    /\ calls' = [calls EXCEPT ![c] = ask]
    /\ since' = [since EXCEPT ![c] = Len(entries)]
    /\ AdminGoto(c, ask.op)
    /\ UNCHANGED <<entries, cursor, found, made>>

Op(c, op) == at[c] = op /\ UNCHANGED <<calls, since>>

\* An append that fails, or the process that dies before it.
Fail(c) ==
    /\ at[c] \notin {"idle", "done", "failed"}
    /\ Op(c, at[c])
    /\ AdminGoto(c, "failed")
    /\ UNCHANGED <<entries, cursor, found, made>>

-----------------------------------------------------------------------------
(* Making.                                                                 *)

\* createRealm: all that it appends is there when it looks for the realm,
\* under the type it does not have, and throws.  The realm is logged twice,
\* by the manager and by the hook.
AdminCreateRealm(c) ==
    /\ Op(c, "createRealm")
    /\ Room(3)
    /\ entries' = entries \o <<Event("RealmCreated", "Realm", NewId, Nothing),
                       Event("RealmCreated", "Realm", NewId, Nothing),
                       Event("ApiKeyCreated", "ApiKey", NewId + 2, Nothing)>>
    /\ made' = [made EXCEPT ![c].realm = NewId]
    /\ AdminGoto(c, IF GetRealm(NewId) THEN "made" ELSE "failed")
    /\ UNCHANGED <<cursor, found>>

\* createUser: without the realm, and without leave to make it, an error.
WhereFor(ask) ==
    CASE GetRealm(ask.realm) -> "register"
      [] ask.create -> "createRealm"
      [] OTHER -> "failed"

CreateUser(c) ==
    /\ Op(c, "createUser")
    /\ AdminGoto(c, WhereFor(calls[c]))
    /\ UNCHANGED <<entries, cursor, found, made>>

\* The intent register, which does not record the realm it is given.
Register(c) ==
    /\ Op(c, "register")
    /\ Room(1)
    /\ Append1("PartyRegistered", "Party", Nothing)
    /\ made' = [made EXCEPT ![c].entity = NewId]
    /\ AdminGoto(c, IF calls[c].op = "createUser" THEN "key" ELSE "read")
    /\ UNCHANGED <<cursor, found>>

\* createEntity reads the entity again.
ReadAgain(c) ==
    /\ Op(c, "read")
    /\ AdminGoto(c, IF GetParty(made[c].entity) THEN "done" ELSE "failed")
    /\ UNCHANGED <<entries, cursor, found, made>>

\* Mutant of KeyHolder: the key is for the id that was made up before.
KeyHolderFirst(c) == Nothing

KeyHolder(c) == made[c].entity

CreateApiKey(c) ==
    /\ Op(c, "key")
    /\ Room(1)
    /\ Append1("ApiKeyCreated", "ApiKey", KeyHolder(c))
    /\ made' = [made EXCEPT ![c].key = NewId]
    /\ AdminGoto(c, "done")
    /\ UNCHANGED <<cursor, found>>

-----------------------------------------------------------------------------
(* Finding.                                                                *)

\* Mutant of Unseen: every event counts.
UnseenAlways(c, e) == TRUE

Unseen(c, e) == e.id \notin ToSet(found[c])

\* listRealms takes realms of either type; listEntities those it can rebuild,
\* and with a realm those that say so -- none does.
Shows(c, e) ==
    CASE calls[c].op = "listRealms" -> e.type = "RealmCreated"
      [] calls[c].op = "listEntities" ->
            /\ e.type \in {"PartyRegistered", "EntityCreated"} /\ GetParty(e.id)
            /\ calls[c].realm \in {Nothing, e.of}

ListNext(c) ==
    /\ at[c] \in {"listRealms", "listEntities"}
    /\ Op(c, at[c])
    /\ cursor[c] < Len(entries)
    /\ LET e == entries[cursor[c] + 1] IN
           found' = [found EXCEPT ![c] = IF Shows(c, e) /\ Unseen(c, e) THEN Append(@, e.id) ELSE @]
    /\ cursor' = [cursor EXCEPT ![c] = @ + 1]
    /\ UNCHANGED <<entries, at, made>>

\* A store ends its iteration at the end of the log, as it was when the
\* iteration began or as it is now.
ListEnds(c) ==
    /\ at[c] \in {"listRealms", "listEntities"}
    /\ Op(c, at[c])
    /\ cursor[c] >= since[c]
    /\ AdminGoto(c, "done")
    /\ UNCHANGED <<entries, cursor, found, made>>

DirectoryNext ==
    \E c \in AdminCalls :
        \/ \E ask \in Asks[c] : Ask(c, ask)
        \/ Fail(c) \/ AdminCreateRealm(c) \/ CreateUser(c)
        \/ Register(c) \/ ReadAgain(c) \/ CreateApiKey(c)
        \/ ListNext(c) \/ ListEnds(c)

DirectorySpec == DirectoryInit /\ [][DirectoryNext]_directoryVars

-----------------------------------------------------------------------------
DirectoryTypeOK ==
    /\ Len(entries) <= MaxLog
    /\ \A c \in AdminCalls : cursor[c] <= Len(entries) /\ since[c] <= Len(entries)
    /\ at \in [AdminCalls -> {"idle", "createRealm", "createUser", "register", "read", "key",
                         "listRealms", "listEntities", "made", "done", "failed"}]

IdsOf(types, n) == {entries[i].id : i \in {j \in 1 .. n : entries[j].type \in types}}

(***************************************************************************)
(* A list has each realm that was logged before it began, once, although   *)
(* realms are logged twice, and each entity that can be rebuilt.           *)
(***************************************************************************)
ListedOnce ==
    \A c \in AdminCalls :
        /\ \A i, j \in DOMAIN found[c] : found[c][i] = found[c][j] => i = j
        /\ at[c] = "done" /\ calls[c].op = "listRealms" =>
               IdsOf({"RealmCreated"}, since[c]) \subseteq ToSet(found[c])
        /\ at[c] = "done" /\ calls[c].op = "listEntities" /\ calls[c].realm = Nothing =>
               IdsOf({"PartyRegistered"}, since[c]) \subseteq ToSet(found[c])

(***************************************************************************)
(* A user that was made has a key for the entity made with it, in a realm  *)
(* that was there; one that failed leaves an entity without a key at most, *)
(* or, where it was to make the realm, a realm nobody was told of.  A      *)
(* realm is never told to have been made.                                  *)
(***************************************************************************)
UserHasKey ==
    \A c \in AdminCalls :
        /\ at[c] = "done" /\ calls[c].op = "createUser" =>
               /\ GetRealm(calls[c].realm)
               /\ \E i \in Logged("ApiKeyCreated", made[c].key) : entries[i].of = made[c].entity
               /\ GetParty(made[c].entity)
        /\ at[c] = "failed" => made[c].key = Nothing
        /\ made[c].realm # Nothing => at[c] = "failed" /\ (calls[c].op = "createRealm" \/ calls[c].create)
=============================================================================
