------------------------------- MODULE Agent --------------------------------
(***************************************************************************)
(* The conversational agent (src/antenna/agent, src/core/agent): the       *)
(* sessions it chats in, the plans it makes of what is said, and what it   *)
(* remembers of its users.  No call of one changes the state of another:   *)
(* each has a specification of its own, in a section of its own.           *)
(***************************************************************************)
EXTENDS Naturals, Sequences, SequencesExt, FiniteSets

CONSTANTS
    \* Sessions and chats.
    Requests,   \* requests, each handled once; a new session has the id of its request
    Old,        \* the id of a session that is there at the beginning
    NoSession,
    \* Plans.
    Sessions,
    Contents,   \* what the records of a plan may be
    MaxPlans,   \* bound: plans made
    MaxCalls,   \* bound: calls about a plan
    \* Memories.
    Users, Realms, Keys, Values,
    UserLimit,      \* how many preferences and facts a context takes
    MaxMemories,    \* bound: memories saved
    MaxWeeks        \* bound on the clock

VARIABLES
    \* Sessions and chats.
    asked,      \* request |-> "chat", "startChat", "start" or "end"
    target,     \* request |-> the session it is about
    pc,         \* request |-> what it waits for
    copy,       \* request |-> the history it has read
    sessions,   \* id |-> its history, a sequence of turns, or NoSession
    met,        \* requests that ran while another of their session did
    ended,      \* id |-> requests that were under way when it was ended
    \* Plans.
    plans,      \* the Map: id |-> [records, confirmed], or NoPlan; ids in order
    pending,    \* session |-> the id of its last plan, 0 for none
    owner,      \* id |-> the session it was made for
    cards,      \* ids of the plans that responses show, never an id of the manager's
    created,    \* what confirmations returned: [plan, records], in order
    calls,
    \* Memories.
    memories,       \* the Map, in order: [type, subject, key, value, realm, importance, made]
    given,          \* key |-> the last value anybody preferred
    saved,          \* memories saved so far
    week

-----------------------------------------------------------------------------
(***************************************************************************)
(* The chat sessions of src/antenna/agent (implementation.ts, behind the   *)
(* routes of api.ts): a Map from the id of a session to its history.  A    *)
(* chat reads the session, waits for the language model, for the intents   *)
(* and for a module to be loaded, and then puts back what it has read with *)
(* its own turn at the end.  Requests of one session may overlap.          *)
(***************************************************************************)
chatVars == <<asked, target, pc, copy, sessions, met, ended>>

Ids == Requests \cup {Old}
UnderWay(s) == {r \in Requests : target[r] = s /\ pc[r] \notin {"received", "answered", "failed"}}

New(r) == asked[r] \in {"startChat", "start"}

\* The id of a session is known to others once it has been answered.
Known(r) == \A q \in Requests \ {r} : target[r] = q => pc[q] = "answered"

-----------------------------------------------------------------------------
ChatInit ==
    /\ asked \in [Requests -> {"chat", "startChat", "start", "end"}]
    /\ target \in [Requests -> Ids]
    /\ \A r \in Requests :
           IF New(r) THEN target[r] = r
           ELSE target[r] \in {Old} \cup {q \in Requests : New(q)}
    /\ pc = [r \in Requests |-> "received"]
    /\ copy = [r \in Requests |-> << >>]
    /\ sessions = [s \in Ids |-> IF s = Old THEN << >> ELSE NoSession]
    /\ met = {}
    /\ ended = [s \in Ids |-> {}]

Goto(r, where) == pc' = [pc EXCEPT ![r] = where]

\* A request begins to run next to those of its session that are under way.
Meet(r) ==
    met' = IF UnderWay(target[r]) \ {r} = {} THEN met
           ELSE met \cup {r} \cup UnderWay(target[r])

\* startSession loads the memory of the actor, if there is any, and then
\* stores the session.
Begin(r) ==
    /\ New(r) /\ pc[r] = "received"
    /\ Goto(r, "memory")
    /\ UNCHANGED <<asked, target, copy, sessions, met, ended>>

StartSession(r) ==
    /\ pc[r] = "memory"
    /\ sessions' = [sessions EXCEPT ![r] = << >>]
    /\ Goto(r, "session")
    /\ UNCHANGED <<asked, target, copy, met, ended>>

\* Mutant of Reads: a chat of a session that is gone begins a new one.
ReadsAny(s) == TRUE

Reads(s) == sessions[s] # NoSession

History(s) == IF sessions[s] = NoSession THEN << >> ELSE sessions[s]

\* chat up to its first await; the welcome of a new session ends here.
Read(r) ==
    /\ \/ asked[r] = "chat" /\ pc[r] = "received" /\ Known(r)
       \/ pc[r] = "session"
    /\ Meet(r)
    /\ IF Reads(target[r])
       THEN /\ copy' = [copy EXCEPT ![r] = History(target[r])]
            /\ Goto(r, IF asked[r] = "start" THEN "answered" ELSE "model")
       ELSE Goto(r, "failed") /\ UNCHANGED copy
    /\ UNCHANGED <<asked, target, sessions, ended>>

\* The language model answers, or the chat fails.
Complete(r) ==
    /\ pc[r] = "model"
    /\ \E where \in {"intents", "failed"} : Goto(r, where)
    /\ UNCHANGED <<asked, target, copy, sessions, met, ended>>

\* getAvailableIntents answers or not: either way the chat goes on.
GetAvailableIntents(r) ==
    /\ pc[r] = "intents"
    /\ Goto(r, "import")
    /\ UNCHANGED <<asked, target, copy, sessions, met, ended>>

CurrentTurn(r) == Len(copy[r]) + 1
Turn(r) == [by |-> r, turn |-> CurrentTurn(r)]

\* Mutant of Updated: the turn is added to the session as it is now.
UpdatedNow(r) == Append(History(target[r]), Turn(r))

\* Mutant of Updated: the history is not carried over.
UpdatedAlone(r) == <<Turn(r)>>

Updated(r) == Append(copy[r], Turn(r))

Commit(r) ==
    /\ pc[r] = "import"
    /\ sessions' = [sessions EXCEPT ![target[r]] = Updated(r)]
    /\ Goto(r, "answered")
    /\ UNCHANGED <<asked, target, copy, met, ended>>

EndSession(r) ==
    /\ asked[r] = "end" /\ pc[r] = "received" /\ Known(r)
    /\ sessions' = [sessions EXCEPT ![target[r]] = NoSession]
    /\ ended' = [ended EXCEPT ![target[r]] = IF sessions[target[r]] = NoSession THEN @
                                             ELSE UnderWay(target[r])]
    /\ Goto(r, "answered")
    /\ Meet(r)
    /\ UNCHANGED <<asked, target, copy>>

ChatNext == \E r \in Requests :
        \/ Begin(r) \/ StartSession(r) \/ Read(r) \/ Complete(r)
        \/ GetAvailableIntents(r) \/ Commit(r) \/ EndSession(r)

ChatSpec == ChatInit /\ [][ChatNext]_chatVars

-----------------------------------------------------------------------------
Turns == [by : Requests, turn : Nat]

ChatTypeOK ==
    /\ pc \in [Requests -> {"received", "memory", "session", "model", "intents",
                            "import", "answered", "failed"}]
    /\ \A r \in Requests : copy[r] \in Seq(Turns)
    /\ \A s \in Ids : sessions[s] # NoSession => sessions[s] \in Seq(Turns)
    /\ met \subseteq Requests
    /\ ended \in [Ids -> SUBSET Requests]

(***************************************************************************)
(* The turns of a session are numbered as they stand in its history, even  *)
(* when chats overlap and one overwrites what the other has recorded.      *)
(***************************************************************************)
HistoryIsNumbered ==
    \A s \in Ids : sessions[s] # NoSession =>
        \A i \in DOMAIN sessions[s] : sessions[s][i].turn = i

(***************************************************************************)
(* The turn of a chat that has been answered is in the history as long as  *)
(* the session is there, if no other request of the session overlapped it; *)
(* of two chats that overlap the turn of one is lost.                      *)
(***************************************************************************)
AloneIsKept ==
    \A r \in Requests \ met :
        asked[r] \in {"chat", "startChat"} /\ pc[r] = "answered" /\ sessions[target[r]] # NoSession
            => \E i \in DOMAIN sessions[target[r]] : sessions[target[r]][i].by = r

(***************************************************************************)
(* A session that was ended is there again only if a chat of it was under  *)
(* way at that time: it puts back what it had read.                        *)
(***************************************************************************)
EndedSessionIsGone ==
    \A e \in Requests : asked[e] = "end" /\ pc[e] = "answered" =>
        \/ sessions[target[e]] = NoSession
        \/ \E r \in ended[target[e]] : pc[r] = "answered"

-----------------------------------------------------------------------------
(***************************************************************************)
(* The plans of src/core/agent/rich-interface.ts: an agent proposes        *)
(* records, the user modifies, confirms or rejects them.  The manager      *)
(* keeps a Map of plans and, for each session, the id of the last one; the *)
(* builder of responses makes a card of a plan with an id of its own.      *)
(***************************************************************************)
planVars == <<plans, pending, owner, cards, created, calls>>

NoPlan == [records |-> << >>, confirmed |-> FALSE]
Made == DOMAIN plans
There(p) == p \in Made /\ plans[p] # NoPlan
Count == calls < MaxCalls /\ calls' = calls + 1

-----------------------------------------------------------------------------
PlanInit ==
    /\ plans = << >> /\ owner = << >>
    /\ pending = [s \in Sessions |-> 0]
    /\ cards = {}
    /\ created = << >>
    /\ calls = 0

CreatePlan(s, records) ==
    /\ Len(plans) < MaxPlans
    /\ plans' = Append(plans, [records |-> records, confirmed |-> FALSE])
    /\ owner' = Append(owner, s)
    /\ pending' = [pending EXCEPT ![s] = Len(plans')]
    /\ UNCHANGED <<cards, created, calls>>

\* The plan block of a response, which takes another id.
Show(s) ==
    /\ pending[s] # 0 /\ 0 - pending[s] \notin cards
    /\ cards' = cards \cup {0 - pending[s]}
    /\ UNCHANGED <<plans, pending, owner, created, calls>>

GetPendingPlan(s) ==
    IF pending[s] = 0 \/ ~There(pending[s]) \/ plans[pending[s]].confirmed THEN 0 ELSE pending[s]

\* A plan that is there is confirmed, whether it was before or not.
ConfirmPlan(p) ==
    /\ Count
    /\ IF There(p)
       THEN /\ created' = Append(created, [plan |-> p, records |-> plans[p].records])
            /\ plans' = [plans EXCEPT ![p].confirmed = TRUE]
       ELSE UNCHANGED <<created, plans>>
    /\ UNCHANGED <<pending, owner, cards>>

\* Mutant of Clears: the last plan of the session goes with any of its plans.
ClearsAll(s, p) == owner[p] = s

Clears(s, p) == pending[s] = p

RejectPlan(p) ==
    /\ Count
    /\ IF There(p)
       THEN /\ plans' = [plans EXCEPT ![p] = NoPlan]
            /\ pending' = [s \in Sessions |-> IF Clears(s, p) THEN 0 ELSE pending[s]]
       ELSE UNCHANGED <<plans, pending>>
    /\ UNCHANGED <<owner, cards, created>>

\* Mutant of Modifiable: confirmed plans too.
ModifiableAlways(p) == There(p)

Modifiable(p) == There(p) /\ ~plans[p].confirmed

ModifyPlannedRecord(p, records) ==
    /\ Count /\ Modifiable(p)
    /\ plans' = [plans EXCEPT ![p].records = records]
    /\ UNCHANGED <<pending, owner, cards, created>>

PlanNext ==
    \/ \E s \in Sessions : Show(s) \/ \E records \in Contents : CreatePlan(s, records)
    \/ \E p \in Made \cup cards :
           \/ ConfirmPlan(p) \/ RejectPlan(p)
           \/ \E records \in Contents : ModifyPlannedRecord(p, records)

PlanSpec == PlanInit /\ [][PlanNext]_planVars

-----------------------------------------------------------------------------
PlanTypeOK ==
    /\ plans \in Seq([records : Contents \cup {<< >>}, confirmed : BOOLEAN])
    /\ pending \in [Sessions -> {0} \cup Made]
    /\ calls \in 0 .. MaxCalls

(***************************************************************************)
(* What is created is what was agreed: however often a plan is confirmed,  *)
(* its records are the same each time, and those it has as long as it is   *)
(* there.  A plan can be confirmed twice, and rejected afterwards.         *)
(***************************************************************************)
CreatedAsConfirmed ==
    \A i \in DOMAIN created :
        /\ \A j \in DOMAIN created :
               created[j].plan = created[i].plan => created[j].records = created[i].records
        /\ There(created[i].plan) => plans[created[i].plan] = [records |-> created[i].records, confirmed |-> TRUE]

(***************************************************************************)
(* The last plan of a session is what it has pending, until that plan is   *)
(* confirmed or rejected; an earlier one is never pending again.           *)
(***************************************************************************)
LastIsPending ==
    \A s \in Sessions :
        LET ofs == {p \in Made : owner[p] = s}
            last == CHOOSE p \in ofs : \A q \in ofs : q <= p
        IN  ofs # {} => GetPendingPlan(s) = IF There(last) /\ ~plans[last].confirmed THEN last ELSE 0

-----------------------------------------------------------------------------
(***************************************************************************)
(* The memory of the agent (src/antenna/agent/memory.ts): a Map of         *)
(* memories in the order in which they were saved, from which the context  *)
(* of a conversation takes the first few that match.  A preference is      *)
(* saved next to those that were there, never in their place.              *)
(***************************************************************************)
memoryVars == <<memories, given, saved, week>>

Default == "default"
Memory(type, subject, key, value, realm, importance) ==
    [type |-> type, subject |-> subject, key |-> key, value |-> value, realm |-> realm,
     importance |-> importance, made |-> week]

-----------------------------------------------------------------------------
MemoryInit == memories = << >> /\ given = [k \in Keys |-> 0] /\ saved = 0 /\ week = 0

\* Mutant of Remembered: the newest memory comes first.
RememberedFirst(m) == <<m>> \o memories

Remembered(m) == Append(memories, m)

Remember(m) ==
    /\ saved < MaxMemories
    /\ saved' = saved + 1
    /\ memories' = Remembered(m)
    /\ UNCHANGED week

\* setPreference and recordFact remember in a realm of their own.
SetPreference(u, k, v) ==
    /\ Remember(Memory("Preference", u, k, v, Default, "High"))
    /\ given' = [given EXCEPT ![k] = v]

RecordFact(u, v) ==
    /\ Remember(Memory("Fact", u, "fact", v, Default, "Medium"))
    /\ UNCHANGED given

Tell(realm, importance) ==
    /\ Remember(Memory("Event", "none", "none", 0, realm, importance))
    /\ UNCHANGED given

\* Mutant of Forgotten: what is old is forgotten, important or not.
ForgottenOld(m, realm) == m.realm = realm /\ m.made + 1 < week

Forgotten(m, realm) == m.realm = realm /\ m.importance = "Low" /\ m.made + 1 < week

Consolidate(realm) ==
    /\ memories' = SelectSeq(memories, LAMBDA m : ~Forgotten(m, realm))
    /\ UNCHANGED <<given, saved, week>>

Pass == week < MaxWeeks /\ week' = week + 1 /\ UNCHANGED <<memories, given, saved>>

MemoryNext ==
    \/ \E u \in Users :
           \/ \E k \in Keys, v \in Values : SetPreference(u, k, v)
           \/ \E v \in Values : RecordFact(u, v)
    \/ \E realm \in Realms, importance \in {"Low", "Medium"} : Tell(realm, importance)
    \/ \E realm \in Realms \cup {Default} : Consolidate(realm)
    \/ Pass

MemorySpec == MemoryInit /\ [][MemoryNext]_memoryVars

-----------------------------------------------------------------------------
FirstOf(seq, n) == SubSeq(seq, 1, IF Len(seq) < n THEN Len(seq) ELSE n)

\* store.search of an empty query: whose memories they are is not asked.
Search(types, limit) == FirstOf(SelectSeq(memories, LAMBDA m : m.type \in types), limit)

\* loadContext: preferences are assigned one after the other, so that of
\* those that were taken the last one counts.  No messages are ever kept.
UserFacts == Search({"Preference", "Fact"}, UserLimit)
Preference(k) ==
    LET of == SelectSeq(UserFacts, LAMBDA m : m.type = "Preference" /\ m.key = k)
    IN  IF of = << >> THEN 0 ELSE of[Len(of)].value
Context == [preferences |-> [k \in Keys |-> Preference(k)],
            facts |-> SelectSeq(UserFacts, LAMBDA m : m.type = "Fact"),
            recentMessages |-> << >>]

MemoryTypeOK ==
    /\ memories \in Seq([type : {"Preference", "Fact", "Event"}, subject : Users \cup {"none"},
           key : Keys \cup {"fact", "none"}, value : Nat, realm : Realms \cup {Default},
           importance : {"High", "Medium", "Low"}, made : 0 .. MaxWeeks])
    /\ saved \in 0 .. MaxMemories /\ week \in 0 .. MaxWeeks

(***************************************************************************)
(* The context of a conversation has the last value given to a preference  *)
(* and every fact, through every consolidation, as long as no more were    *)
(* told, by all users together, than a context takes.                      *)
(***************************************************************************)
LastPreferenceCounts ==
    Len(SelectSeq(memories, LAMBDA m : m.type # "Event")) <= UserLimit =>
        /\ Context.preferences = given
        /\ Context.facts = SelectSeq(memories, LAMBDA m : m.type = "Fact")
=============================================================================
