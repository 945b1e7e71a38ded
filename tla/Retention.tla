----------------------------- MODULE Retention ------------------------------
(***************************************************************************)
(* How long things are kept: the policies of retention and what is done by *)
(* them, and the memories of security decisions, which are kept for years. *)
(* They share nothing: each has a specification of its own, in a section   *)
(* of its own.                                                             *)
(***************************************************************************)
EXTENDS Naturals, FiniteSets

CONSTANTS
    \* Policies.
    Policies,       \* ids of policies: a realm, or all, and a type of entity
    Strategies,     \* "crypto_shred" and "logical_delete"
    Aggregates,
    Calls,          \* calls, each made once
    MaxRestarts,    \* bound: restarts of the process
    \* Memories of security.
    Callers,
    Happenings,  \* what there is to log, of each kind:
                 \* decision [kind, request], policy [kind, request],
                 \* anomaly [kind, severity], role [kind, agreement]
    MaxMemories, \* bound: memories formed
    MaxYears     \* bound: years that pass

VARIABLES
    \* Policies.
    ready,          \* whether ensureTables has made the tables
    rows,           \* policy |-> strategy of its row, or "none"
    policies,       \* the map of the process: policy |-> strategy, or "none"
    applications,   \* rows of retention_applications: [aggregate, policy, action]
    call,           \* call |-> [op, policy, strategy, aggregate]
    answer,         \* call |-> "none", "under way", "ok", "failed", or the action
    late,           \* calls that failed and whose query may have been run
    last,           \* history: policy |-> the registration of this process that
                    \* wrote its row last, and met no other one, or NoCall
    restarts,
    \* Memories of security.
    memories,  \* what the store has
    pending,   \* caller |-> the memory it waits for, or None
    told,      \* history: memories whose caller was told they are kept
    lost,      \* history: memories whose store failed
    year

-----------------------------------------------------------------------------
(***************************************************************************)
(* Data retention (src/core/operational/data-retention.ts): policies are   *)
(* rows with a key of their own, an application of a policy is a row with  *)
(* the key of the aggregate.  applyPolicy decides, and then inserts; when  *)
(* the row is refused it answers that it did not succeed.  Any query may   *)
(* fail, and one that fails may have been run all the same, or be run      *)
(* later.  The map of policies is filled by registrations only: a process  *)
(* that starts again has none.                                             *)
(***************************************************************************)
retentionVars == <<ready, rows, policies, applications, call, answer, late, last, restarts>>

Nothing == [op |-> "none", policy |-> "", strategy |-> "none", aggregate |-> ""]
NoCall == 0

-----------------------------------------------------------------------------
RetentionInit ==
    /\ ready = FALSE
    /\ rows = [p \in Policies |-> "none"]
    /\ policies = rows
    /\ applications = {}
    /\ call = [c \in Calls |-> Nothing]
    /\ answer = [c \in Calls |-> "none"]
    /\ late = {}
    /\ last = [p \in Policies |-> NoCall]
    /\ restarts = 0

EnsureTables ==
    ready' = TRUE /\ UNCHANGED <<rows, policies, applications, call, answer, late, last, restarts>>

Answer(c, a) == answer' = [answer EXCEPT ![c] = a]

Ask(c) ==
    /\ answer[c] = "none"
    /\ \E op \in {"register", "apply"}, p \in Policies, s \in Strategies, a \in Aggregates :
           call' = [call EXCEPT ![c] = [op |-> op, policy |-> p, strategy |-> s, aggregate |-> a]]
    /\ Answer(c, "under way")
    /\ UNCHANGED <<ready, rows, policies, applications, late, last, restarts>>

Asked(c, op) == answer[c] = "under way" /\ call[c].op = op

\* The query of a call, once there are tables: the upsert of a registration.
WriteRow(c) == ready /\ rows' = [rows EXCEPT ![call[c].policy] = call[c].strategy]

\* A registration that is between its row and the map.
Met(c) == \E d \in Calls \ {c} : answer[d] = "stored" /\ call[d].policy = call[c].policy

\* Mutant of Upsert: the map is set before the row.
UpsertMapFirst(c) ==
    /\ Asked(c, "register")
    /\ policies' = [policies EXCEPT ![call[c].policy] = call[c].strategy]
    /\ \/ WriteRow(c) /\ Answer(c, "stored")
       \/ Answer(c, "failed") /\ UNCHANGED rows
    /\ UNCHANGED <<ready, applications, call, late, last, restarts>>

\* registerPolicy: the upsert; the map is set when it has succeeded.
Upsert(c) ==
    /\ Asked(c, "register")
    /\ WriteRow(c)
    /\ last' = [last EXCEPT ![call[c].policy] = IF Met(c) THEN NoCall ELSE c]
    /\ Answer(c, "stored")
    /\ UNCHANGED <<ready, policies, applications, call, late, restarts>>

Remember(c) ==
    /\ answer[c] = "stored"
    /\ policies' = [policies EXCEPT ![call[c].policy] = call[c].strategy]
    /\ Answer(c, "ok")
    /\ UNCHANGED <<ready, rows, applications, call, late, last, restarts>>

Action(strategy) == IF strategy = "crypto_shred" THEN "Delete" ELSE "Anonymize"

\* Mutant of Insertable: the key of the table is not that of the aggregate.
InsertableAgain(c) == ready /\ rows[call[c].policy] # "none"

\* The primary key and the foreign key of retention_applications.
Insertable(c) ==
    /\ ready /\ rows[call[c].policy] # "none"
    /\ \A x \in applications : x.aggregate # call[c].aggregate

Insert(c) ==
    /\ Insertable(c)
    /\ applications' = applications \cup
           {[aggregate |-> call[c].aggregate, policy |-> call[c].policy,
             action |-> Action(call[c].strategy), by |-> c]}

ApplyPolicy(c) ==
    /\ Asked(c, "apply")
    /\ Insert(c)
    /\ Answer(c, Action(call[c].strategy))
    /\ UNCHANGED <<ready, rows, policies, call, late, last, restarts>>

\* The query is refused, or its answer is lost: both are told as a failure.
Fails(c) ==
    /\ answer[c] = "under way"
    /\ Answer(c, "failed")
    /\ late' = late \cup {c}
    /\ UNCHANGED <<ready, rows, policies, applications, call, last, restarts>>

\* What the database does all the same.
RunsLate(c) ==
    /\ c \in late
    /\ late' = late \ {c}
    /\ \/ /\ call[c].op = "register" /\ WriteRow(c)
          /\ last' = [last EXCEPT ![call[c].policy] = NoCall]
          /\ UNCHANGED applications
       \/ call[c].op = "apply" /\ Insert(c) /\ UNCHANGED <<rows, last>>
    /\ UNCHANGED <<ready, policies, call, answer, restarts>>

\* The process ends and starts again, with an empty map.
Restart ==
    /\ restarts < MaxRestarts
    /\ restarts' = restarts + 1
    /\ policies' = [p \in Policies |-> "none"]
    /\ last' = [p \in Policies |-> NoCall]
    /\ answer' = [c \in Calls |-> IF answer[c] \in {"under way", "stored"} THEN "failed" ELSE answer[c]]
    /\ late' = late \cup {c \in Calls : answer[c] = "under way"}
    /\ UNCHANGED <<ready, rows, applications, call>>

RetentionNext ==
    \/ EnsureTables
    \/ \E c \in Calls : Ask(c) \/ Upsert(c) \/ Remember(c) \/ ApplyPolicy(c) \/ Fails(c) \/ RunsLate(c)
    \/ Restart

RetentionSpec == RetentionInit /\ [][RetentionNext]_retentionVars

-----------------------------------------------------------------------------
RetentionTypeOK ==
    /\ rows \in [Policies -> Strategies \cup {"none"}]
    /\ policies \in [Policies -> Strategies \cup {"none"}]
    /\ answer \in [Calls -> {"none", "under way", "stored", "ok", "failed", "Delete", "Anonymize"}]
    /\ late \subseteq {c \in Calls : answer[c] = "failed"}
    /\ last \in [Policies -> Calls \cup {NoCall}]

(***************************************************************************)
(* A policy is applied to an aggregate once: data that was anonymized is   *)
(* not deleted later, whether or not the first call was told of it.  What  *)
(* is answered with success is in the table, under a policy that was       *)
(* registered, with the action its strategy calls for.                     *)
(***************************************************************************)
AppliedOnce ==
    /\ \A x, y \in applications : x.aggregate = y.aggregate => x = y
    /\ \A c \in Calls : answer[c] \in {"Delete", "Anonymize"} =>
           \E x \in applications :
               /\ x.by = c /\ x.aggregate = call[c].aggregate /\ x.action = answer[c]
               /\ rows[x.policy] # "none"

(***************************************************************************)
(* The map has no policy that cannot be applied for want of a row.  And    *)
(* when the registration that wrote the row of a policy last was answered  *)
(* with success, by this process, the map has what the row has: unless it  *)
(* met another one between that one's row and the map, and unless one that *)
(* was told to have failed wrote its row after it.                         *)
(***************************************************************************)
MapFollowsTable ==
    \A p \in Policies :
        /\ policies[p] # "none" => rows[p] # "none"
        /\ last[p] # NoCall /\ answer[last[p]] = "ok" => policies[p] = rows[p]

-----------------------------------------------------------------------------
(***************************************************************************)
(* What the security layer remembers (src/core/security/audit-integration  *)
(* .ts): decisions, evaluations of policies, anomalies and changes of      *)
(* roles become memories, each stored before its caller goes on.  How long *)
(* a memory is worth keeping is said in it; the store that keeps it, and   *)
(* drops it when its time is over, is given.  What a memory says, its      *)
(* level and whether it alerts are left out.                               *)
(***************************************************************************)
auditVars == <<memories, pending, told, lost, year>>

None == [id |-> 0]

-----------------------------------------------------------------------------
\* Mutant of MinRetention: ninety years, not days.
RetentionYears(h) ==
    CASE h.kind = "policy" -> 90 [] h.kind = "anomaly" -> 1 [] OTHER -> 0

\* In whole years; that of an evaluation is 90 days.
MinRetention(h) ==
    CASE h.kind \in {"decision", "role"} -> 7
      [] h.kind = "anomaly" -> 1
      [] h.kind = "policy" -> 0

LegalHold(h) == h.kind = "anomaly" /\ h.severity = "Critical"

\* Mutant of Correlation: the memory leads to itself.
CorrelationOwn(h, id) == IF h.kind = "role" THEN h.agreement ELSE id

\* By which memories are found together; an anomaly is found by its own.
Correlation(h, id) ==
    CASE h.kind \in {"decision", "policy"} -> h.request
      [] h.kind = "role" -> h.agreement
      [] h.kind = "anomaly" -> id

Memory(h, id) ==
    [id |-> id, of |-> h, timestamp |-> year, years |-> MinRetention(h), hold |-> LegalHold(h),
     correlation |-> Correlation(h, id)]

-----------------------------------------------------------------------------
AuditInit ==
    /\ memories = {} /\ told = {} /\ lost = {}
    /\ pending = [c \in Callers |-> None]
    /\ year = 0

Formed == told \cup lost \cup {pending[c] : c \in {d \in Callers : pending[d] # None}}

\* logDecision, logPolicyEvaluation, logAnomaly and logRoleChange up to the
\* await.
Log(c, h) ==
    /\ pending[c] = None
    /\ Cardinality(Formed) < MaxMemories
    /\ pending' = [pending EXCEPT ![c] = Memory(h, Cardinality(Formed) + 1)]
    /\ UNCHANGED <<memories, told, lost, year>>

Stored(c) ==
    /\ pending[c] # None
    /\ memories' = memories \cup {pending[c]}
    /\ told' = told \cup {pending[c]}
    /\ pending' = [pending EXCEPT ![c] = None]
    /\ UNCHANGED <<lost, year>>

\* The store fails, with or without having kept the memory; the caller is
\* answered with the error.
StoreFails(c) ==
    /\ pending[c] # None
    /\ memories' \in {memories, memories \cup {pending[c]}}
    /\ lost' = lost \cup {pending[c]}
    /\ pending' = [pending EXCEPT ![c] = None]
    /\ UNCHANGED <<told, year>>

YearPasses ==
    /\ year < MaxYears
    /\ year' = year + 1
    /\ UNCHANGED <<memories, pending, told, lost>>

Over(m) == year > m.timestamp + m.years /\ ~m.hold

Drop(m) ==
    /\ Over(m)
    /\ memories' = memories \ {m}
    /\ UNCHANGED <<pending, told, lost, year>>

AuditNext ==
    \/ \E c \in Callers :
           (\E h \in Happenings : Log(c, h)) \/ Stored(c) \/ StoreFails(c)
    \/ YearPasses
    \/ \E m \in memories : Drop(m)

AuditSpec == AuditInit /\ [][AuditNext]_auditVars

-----------------------------------------------------------------------------
AuditTypeOK ==
    /\ year \in 0 .. MaxYears
    /\ memories \subseteq told \cup lost
    /\ \A m \in Formed : m.of \in Happenings /\ m.id \in 1 .. MaxMemories

Found(by) == {m \in memories : m.correlation = by}
AuditAsked == {h.request : h \in {g \in Happenings : g.kind \in {"decision", "policy"}}}

(***************************************************************************)
(* Who looks for a request finds the decisions on it that were logged in   *)
(* the last seven years, and the evaluations of its policies while they    *)
(* are kept; none of another request, and no anomaly or role.              *)
(***************************************************************************)
RequestIsFound ==
    \A r \in AuditAsked :
        /\ \A m \in told :
               m.of.kind = "decision" /\ m.of.request = r /\ year <= m.timestamp + 7 => m \in Found(r)
        /\ \A m \in Found(r) : m.of.kind \in {"decision", "policy"} /\ m.of.request = r

(***************************************************************************)
(* What is grave is there for longer than what led to it: no evaluation of *)
(* a policy is kept when a decision of its time may be dropped, and a      *)
(* critical anomaly is never dropped.                                      *)
(***************************************************************************)
GraveIsKept ==
    \A m \in told :
        /\ m.of.kind = "anomaly" /\ m.of.severity = "Critical" => m \in memories
        /\ Over(m) /\ m.of.kind = "decision" =>
               \A n \in memories : n.of.kind = "policy" /\ n.timestamp <= m.timestamp => Over(n)
=============================================================================
