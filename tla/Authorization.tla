--------------------------- MODULE Authorization ----------------------------
(***************************************************************************)
(* Who may do what: the engine that decides on requests by the roles it    *)
(* finds in the log, and the role types and policies that come with it, as *)
(* they decide on one person. The second asks for single decisions: each   *)
(* has a specification of its own, in a section of its own.                *)
(***************************************************************************)
EXTENDS Naturals, Sequences, FiniteSets, SequencesExt

CONSTANTS
    \* The engine.
    Roles,      \* id |-> [holder, roleType, scope, from, until, permissions]
    Policies,   \* id |-> [priority, enabled, conditions, effect, ruled, rules]
    RuleConditions,     \* their conditions, and what those are made of
    Requests,   \* ids of requests
    Asks,       \* what may be asked: [actor, actions, resource, realm]
    Window,     \* events the role store looks back (10000)
    Stores,     \* the cases of store
    MaxLog,     \* bound: events appended
    MaxTime,    \* bound: hours
    \* The role types and policies there are.
    Person,
    Templates,   \* role types that may be granted
    BuiltInPolicies,    \* ids of policies that may be registered
    BuiltInAsks         \* [action, resource, hour, day]; a resource is
                        \* [type, owner, parties, proposedBy, entityType]

VARIABLES
    \* The engine.
    store,      \* "memory", "postgres": the server's; "declared": one whose
                \* roles have the scope and permissions of the interface Role
    log,        \* sequence of [type, role]
    policies,   \* ids of the registered policies
    ask,        \* request |-> what is asked, at which time
    began,      \* request |-> length of the log when its roles were last asked for
    ids,        \* request |-> roles found and not rebuilt yet
    roles,      \* request |-> roles rebuilt: active when they were
    pc,         \* request |-> "idle", "find", "rebuild", "allowed", "denied", "thrown"
    allowed,    \* request |-> actions allowed so far
    audit,      \* sequence of [request, action, decision, roles, policies, before, after]
    \* The role types and policies there are.
    builtInRoles,       \* role types the person holds
    builtInPolicies,    \* policies that are registered and enabled
    last         \* what was decided last, with the roles and policies of then

-----------------------------------------------------------------------------
(***************************************************************************)
(* Who may do what: the role store of the server, which rebuilds the roles *)
(* of an actor from the log (src/antenna/server.ts), the authorization     *)
(* engine (src/core/security/authorization.ts) and the policies that may   *)
(* override it (policies.ts).  Roles are granted and revoked, and policies *)
(* registered, while a request is answered.                                *)
(***************************************************************************)
accessVars == <<store, log, policies, ask, began, ids, roles, pc, allowed, audit>>

Wild == "*"

-----------------------------------------------------------------------------
(* Roles and permissions.                                                  *)

Granted(r, n) == \E i \in 1 .. n : log[i] = [type |-> "RoleGranted", role |-> r]
Revoked(r, n) == \E i \in 1 .. n : log[i] = [type |-> "RoleRevoked", role |-> r]

ScopeValid(scope, q) ==
    CASE scope.type = "Global" -> TRUE
      [] scope.type = "Realm" -> scope.target = q.realm
      [] OTHER -> scope.type = q.resource.type /\ scope.target = q.resource.id

PermissionMatches(p, action, resource) ==
    /\ p.action \in {Wild, action}
    /\ p.type \in {Wild, resource.type}
    /\ p.id \in {Wild, resource.id}

Between(hours, at) == hours.first <= at /\ at < hours.last

EvaluateCondition(c, q) ==
    CASE c.type = "TimeOfDay" -> Between(c, q.at)
      [] c.type = "ResourceOwner" -> q.actor.type = "Party" /\ q.resource.owner = q.actor.id
      [] OTHER -> TRUE

Grants(r, action, q) ==
    /\ ScopeValid(Roles[r].scope, q)
    /\ \E p \in Roles[r].permissions :
           /\ PermissionMatches(p, action, q.resource)
           /\ \A c \in p.conditions : EvaluateCondition(c, q)

-----------------------------------------------------------------------------
(* Policies.                                                               *)

Holds(roleType, rs) == \E r \in rs : Roles[r].roleType = roleType

EvaluateRule(c, q, rs) ==
    LET holds[k \in RuleConditions] ==
            CASE k.type = "Any" -> TRUE
              [] k.type = "And" -> \A part \in k.of : holds[part]
              [] k.type = "Or" -> \E part \in k.of : holds[part]
              [] k.type = "Not" -> ~holds[k.of]
              [] k.type = "ActorType" -> q.actor.type = k.of
              [] k.type = "HasRole" -> Holds(k.of, rs)
              [] k.type = "NotHasRole" -> ~Holds(k.of, rs)
              [] k.type = "HasAllRoles" -> \A t \in k.of : Holds(t, rs)
              [] k.type = "IsResourceOwner" ->
                    q.actor.type = "Party" /\ q.resource.owner = q.actor.id
              [] k.type = "ResourceType" -> q.resource.type \in k.of
              [] k.type = "InRealm" -> q.realm = k.of
              [] k.type = "TimeOfDay" -> Between(k, q.at)
    IN holds[c]

\* The conditions that are given, and all of them.
MatchesConditions(p, action, q, rs) ==
    /\ action \in p.actions \/ Wild \in p.actions
    /\ \A c \in p.conditions : EvaluateRule(c, q, rs)

\* What a policy that matches makes of the effect so far: its rules, to the
\* first that denies, or its own effect when it has no rules.
Override(effect, next) == IF next = "Neutral" \/ effect = "Deny" THEN effect ELSE next
PolicyEffect(p, q, rs, effect) ==
    IF p.ruled
    THEN FoldLeft(LAMBDA e, rule : IF EvaluateRule(rule.condition, q, rs)
                                   THEN Override(e, rule.effect) ELSE e, effect, p.rules)
    ELSE Override(effect, p.effect)

\* Mutant of Evaluate: the policy of the highest priority has the last word.
EvaluateFirst(action, q, rs) ==
    LET matching == {i \in policies : Policies[i].enabled /\ MatchesConditions(Policies[i], action, q, rs)}
        first == CHOOSE i \in matching : \A j \in matching : Policies[j].priority <= Policies[i].priority
    IN IF matching = {} THEN "Neutral" ELSE PolicyEffect(Policies[first], q, rs, "Neutral")

\* PolicyEngine.evaluate: by descending priority.
Evaluate(action, q, rs) ==
    LET sorted == SetToSortSeq({i \in policies : Policies[i].enabled},
                               LAMBDA i, j : Policies[i].priority > Policies[j].priority)
    IN FoldLeft(LAMBDA e, i : IF MatchesConditions(Policies[i], action, q, rs)
                              THEN PolicyEffect(Policies[i], q, rs, e) ELSE e,
                "Neutral", sorted)

-----------------------------------------------------------------------------
NoAsk == [actor |-> [type |-> "", id |-> ""], actions |-> <<>>, at |-> 0]

AccessInit ==
    /\ store \in Stores
    /\ log = <<>>
    /\ policies = {}
    /\ ask = [q \in Requests |-> NoAsk]
    /\ began = [q \in Requests |-> 0]
    /\ ids = [q \in Requests |-> {}]
    /\ roles = [q \in Requests |-> {}]
    /\ pc = [q \in Requests |-> "idle"]
    /\ allowed = [q \in Requests |-> {}]
    /\ audit = <<>>

calls == <<ask, began, ids, roles, pc, allowed, audit>>

AppendEvent(type, r) ==
    /\ Len(log) < MaxLog
    /\ log' = log \o <<[type |-> type, role |-> r]>>
    /\ UNCHANGED <<store, policies, calls>>

GrantRole(r) == ~Granted(r, Len(log)) /\ AppendEvent("RoleGranted", r)

RevokeRole(r) ==
    Granted(r, Len(log)) /\ ~Revoked(r, Len(log)) /\ AppendEvent("RoleRevoked", r)

Register(i) == policies' = policies \cup {i} /\ UNCHANGED <<store, log, calls>>
Unregister(i) == policies' = policies \ {i} /\ UNCHANGED <<store, log, calls>>

Goto(q, where) == pc' = [pc EXCEPT ![q] = where]

\* authorize is asked for one action, getAllowedActions asks it for each.
Ask(q) ==
    /\ pc[q] = "idle"
    /\ \E a \in Asks, now \in 0 .. MaxTime :
           ask' = [ask EXCEPT ![q] = [actor |-> a.actor, actions |-> a.actions,
                                      resource |-> a.resource, realm |-> a.realm, at |-> now]]
    /\ Goto(q, "find")
    /\ UNCHANGED <<store, log, policies, began, ids, roles, allowed, audit>>

\* Mutant of Found: the last events are all there is.
FoundRecently(q) ==
    {r \in DOMAIN Roles :
        /\ Roles[r].holder = ask[q].actor.id
        /\ \E i \in 1 .. Len(log) :
               i + Window >= Len(log) /\ log[i] = [type |-> "RoleGranted", role |-> r]}

\* Where the roles of a holder are looked for: all of the log with a query,
\* the last events without one, or when it finds none.
Found(q) ==
    LET held == {r \in DOMAIN Roles : Roles[r].holder = ask[q].actor.id}
        recent == {r \in held : \E i \in 1 .. Len(log) :
                       /\ i + Window >= Len(log)
                       /\ log[i] = [type |-> "RoleGranted", role |-> r]}
    IN IF store = "memory" THEN recent ELSE {r \in held : Granted(r, Len(log))}

FindRolesByHolder(q) ==
    /\ pc[q] = "find"
    /\ ids' = [ids EXCEPT ![q] = IF ask[q].actor.type = "System" THEN {} ELSE Found(q)]
    /\ roles' = [roles EXCEPT ![q] = {}]
    /\ began' = [began EXCEPT ![q] = Len(log)]
    /\ Goto(q, "rebuild")
    /\ UNCHANGED <<store, log, policies, ask, allowed, audit>>

\* Mutant of Active: the date of revocation is not looked at.
ActiveOnce(r, q) == ask[q].at >= Roles[r].from

\* A role that was rebuilt counts when it is active, valid at the time of
\* the request, and, in the server's store, global or of this realm.
Active(r, q) ==
    /\ ~Revoked(r, Len(log))
    /\ ask[q].at >= Roles[r].from
    /\ Roles[r].until = 0 \/ ask[q].at <= Roles[r].until
    /\ \/ store = "declared"
       \/ Roles[r].scope.type = "Global"
       \/ Roles[r].scope.type = "Realm" /\ Roles[r].scope.target = ask[q].realm

RebuildRole(q, r) ==
    /\ pc[q] = "rebuild" /\ r \in ids[q]
    /\ ids' = [ids EXCEPT ![q] = @ \ {r}]
    /\ roles' = [roles EXCEPT ![q] = IF Active(r, q) THEN @ \cup {r} ELSE @]
    /\ UNCHANGED <<store, log, policies, ask, began, pc, allowed, audit>>

\* The roles the server rebuilds have neither a scope nor permissions, and
\* the engine reads both.
Throw(q) ==
    /\ pc[q] = "rebuild" /\ ids[q] = {}
    /\ store # "declared" /\ roles[q] # {}
    /\ Goto(q, "thrown")
    /\ UNCHANGED <<store, log, policies, ask, began, ids, roles, allowed, audit>>

\* The rest of authorize waits for nothing outside the process: the loop over
\* the roles, the policies and the log of decisions.
Decide(q) ==
    LET asked == ask[q]
        action == Head(asked.actions)
        granting == {r \in roles[q] : Grants(r, action, asked)}
        yes == granting # {} /\ Evaluate(action, asked, roles[q]) # "Deny"
    IN
    /\ pc[q] = "rebuild" /\ ids[q] = {}
    /\ store = "declared" \/ roles[q] = {}
    /\ audit' = audit \o <<[request |-> q, action |-> action, decision |-> yes,
                            granting |-> granting, roles |-> roles[q], policies |-> policies,
                            before |-> began[q], after |-> Len(log)]>>
    /\ allowed' = [allowed EXCEPT ![q] = IF yes THEN @ \cup {action} ELSE @]
    /\ ask' = [ask EXCEPT ![q].actions = Tail(@)]
    /\ Goto(q, IF Len(asked.actions) > 1 THEN "find" ELSE "done")
    /\ UNCHANGED <<store, log, policies, began, ids, roles>>

\* A request that was answered is not asked again: what comes after the last
\* of them concerns nobody.
Awaited == \E q \in Requests : pc[q] \in {"idle", "find", "rebuild"}

AccessNext ==
    \/ /\ Awaited
       /\ \/ \E r \in DOMAIN Roles : GrantRole(r) \/ RevokeRole(r)
          \/ AppendEvent("Other", "none")
          \/ \E i \in DOMAIN Policies : Register(i) \/ Unregister(i)
    \/ \E q \in Requests :
           \/ Ask(q)
           \/ FindRolesByHolder(q)
           \/ \E r \in ids[q] : RebuildRole(q, r)
           \/ Throw(q)
           \/ Decide(q)

AccessSpec == AccessInit /\ [][AccessNext]_accessVars

-----------------------------------------------------------------------------
AccessTypeOK ==
    /\ policies \subseteq DOMAIN Policies
    /\ pc \in [Requests -> {"idle", "find", "rebuild", "done", "thrown"}]
    /\ \A q \in Requests :
           /\ ids[q] \cup roles[q] \subseteq DOMAIN Roles
           /\ pc[q] = "thrown" => store # "declared"

\* What a role grants, by the words of the interface: in its scope, while it
\* is valid, what its permissions say.
Entitles(r, d) ==
    LET q == ask[d.request] IN
    /\ Roles[r].holder = q.actor.id /\ q.actor.type # "System"
    /\ Roles[r].from <= q.at /\ (Roles[r].until = 0 \/ q.at <= Roles[r].until)
    /\ Grants(r, d.action, q)

\* Whether a policy denies, whatever the others say.
Denies(p, d) ==
    LET q == ask[d.request]
        effects == IF p.ruled
                   THEN {rule.effect : rule \in {x \in ToSet(p.rules) :
                                                    EvaluateRule(x.condition, q, d.roles)}}
                   ELSE {p.effect}
    IN p.enabled /\ MatchesConditions(p, d.action, q, d.roles) /\ "Deny" \in effects

(***************************************************************************)
(* What is allowed rests on a role the log gave the actor and had not      *)
(* taken back when the roles were asked for, and no policy denied it,      *)
(* whatever its priority.  (A role that is revoked while the roles are     *)
(* rebuilt one by one may still count.)                                    *)
(***************************************************************************)
AllowedIsHeld ==
    \A d \in ToSet(audit) : d.decision =>
        /\ \E r \in DOMAIN Roles :
               Granted(r, d.after) /\ ~Revoked(r, d.before) /\ Entitles(r, d)
        /\ \A i \in d.policies : ~Denies(Policies[i], d)

(***************************************************************************)
(* And a role that is in the log all the while grants what it should,      *)
(* unless a policy denies it -- where the store answers with roles that    *)
(* have a scope and permissions.  The server's does not: there nothing is  *)
(* ever allowed, and who has a role that counts is answered with an error. *)
(***************************************************************************)
HeldIsAllowed ==
    \A d \in ToSet(audit) :
        IF store = "declared"
        THEN ~d.decision =>
                 \/ \E i \in d.policies : Denies(Policies[i], d)
                 \/ \A r \in DOMAIN Roles :
                        Entitles(r, d) => ~Granted(r, d.before) \/ Revoked(r, d.after)
        ELSE ~d.decision

-----------------------------------------------------------------------------
(***************************************************************************)
(* What the roles and policies that come with the ledger make of a         *)
(* request: the permission sets and role templates of src/core/security/   *)
(* authorization.ts, the built-in policies of policies.ts, and the         *)
(* decision on both.  Roles are granted and revoked and policies           *)
(* registered, enabled or not, between the requests of one person; the     *)
(* roles are global and have the permissions of their template.            *)
(***************************************************************************)
builtInVars == <<builtInRoles, builtInPolicies, last>>

BuiltInWild == "*"
Undefined == "undefined"
None == [allowed |-> FALSE]

-----------------------------------------------------------------------------
Can(actions, types) == actions \X types

Employee ==
    Can({"read"}, {"Entity", "Agreement", "Asset"})
    \cup {<<"propose", "Agreement">>, <<"create", "Asset">>}

\* Mutant of Manager: an employee, and more.
ManagerExtends ==
    Employee \cup {<<"read", BuiltInWild>>, <<"create", "Entity">>, <<"approve", "Agreement">>,
                   <<"grant", "Role">>, <<"transition", "Workflow">>, <<"update", BuiltInWild>>}

Manager ==
    {<<"read", BuiltInWild>>, <<"create", "Entity">>, <<"propose", "Agreement">>,
     <<"approve", "Agreement">>, <<"grant", "Role">>, <<"transition", "Workflow">>}

\* PERMISSION_SETS and ROLE_TEMPLATES; "Entity:*" is every entity, as is
\* "Entity".
Permissions(roleType) ==
    CASE roleType = "SystemAdmin" -> {<<BuiltInWild, BuiltInWild>>}
      [] roleType = "TenantAdmin" ->
            Can({"admin", "configure"}, {"Realm"}) \cup Can({"create"}, {"Entity", "Agreement", "Asset"})
            \cup {<<"read", BuiltInWild>>}
      [] roleType = "Member" ->
            Can({"read"}, {"Entity", "Agreement", "Asset"}) \cup Can({"propose", "consent"}, {"Agreement"})
      [] roleType = "Viewer" -> {<<"read", BuiltInWild>>}
      [] roleType = "AgreementParty" ->
            Can({"read", "consent", "fulfill", "terminate"}, {"Agreement"})
      [] roleType = "AssetOwner" -> Can({"read", "update", "transfer", "delete"}, {"Asset"})
      [] roleType = "Employee" -> Employee
      [] roleType = "Manager" -> Manager
      [] roleType = "Auditor" -> Can({"read"}, {BuiltInWild, "Event", "Memory"})

BuiltInPermissionMatches(p, q) == p[1] \in {BuiltInWild, q.action} /\ p[2] \in {BuiltInWild, q.resource.type}

Granting(rs, q) == {r \in rs : \E p \in Permissions(r) : BuiltInPermissionMatches(p, q)}

-----------------------------------------------------------------------------
IsResourceOwner(q) == q.resource.owner = Person
IsAgreementParty(q) == Person \in q.resource.parties
BusinessHours(q) == q.day \in 1 .. 5 /\ q.hour \in 9 .. 16

\* Mutant of OwnProposal: the attribute is compared with the person.
OwnProposalDynamic(q) == IsAgreementParty(q) /\ q.resource.proposedBy = Person

\* "Will match actor ID dynamically" (policies.ts:612): the rule compares the
\* attribute with undefined.
OwnProposal(q) == IsAgreementParty(q) /\ q.resource.proposedBy = Undefined

\* By descending priority.
Order == <<"system-protection", "separation-of-duties", "business-hours", "owner-override",
           "agreement-party-access">>

Matches(p, q) ==
    CASE p = "system-protection" -> q.resource.type = "Entity" /\ q.action \in {"update", "delete"}
      [] p = "separation-of-duties" -> q.action \in {"approve", "consent"}
      [] p = "business-hours" -> q.action \in {"delete", "admin", "configure"}
      [] p = "owner-override" -> IsResourceOwner(q)
      [] p = "agreement-party-access" ->
            /\ q.resource.type = "Agreement" /\ q.action \in {"read", "consent", "fulfill"}
            /\ IsAgreementParty(q)

\* Of a policy that matches: the effect of its rule, or its own.
Effect(p, q) ==
    CASE p = "system-protection" -> IF q.resource.entityType = "System" THEN "Deny" ELSE "Neutral"
      [] p = "separation-of-duties" -> IF OwnProposal(q) THEN "Deny" ELSE "Neutral"
      [] p = "business-hours" -> IF BusinessHours(q) THEN "Neutral" ELSE "Deny"
      [] OTHER -> "Allow"

BuiltInOverride(effect, next) == IF next = "Neutral" \/ effect = "Deny" THEN effect ELSE next

BuiltInEvaluate(ps, q) ==
    FoldLeft(LAMBDA e, p : IF p \in ps /\ Matches(p, q) THEN BuiltInOverride(e, Effect(p, q)) ELSE e,
             "Neutral", Order)

\* Mutant of Allowed: an Allow counts like a permission.
AllowedByPolicy(rs, ps, q) ==
    BuiltInEvaluate(ps, q) # "Deny" /\ (Granting(rs, q) # {} \/ BuiltInEvaluate(ps, q) = "Allow")

Allowed(rs, ps, q) == Granting(rs, q) # {} /\ BuiltInEvaluate(ps, q) # "Deny"

\* The reason of who is denied is that of the policies if they have one.
Reason(rs, ps, q) ==
    CASE Allowed(rs, ps, q) -> "GRANTED"
      [] BuiltInEvaluate(ps, q) = "Deny" -> "POLICY_DENIED"
      [] BuiltInEvaluate(ps, q) = "Allow" -> "POLICY_ALLOWED"
      [] OTHER -> "DENIED"

-----------------------------------------------------------------------------
BuiltInInit == builtInRoles = {} /\ builtInPolicies = {} /\ last = None

BuiltInGrantRole(r) == builtInRoles' = builtInRoles \cup {r} /\ UNCHANGED <<builtInPolicies, last>>
BuiltInRevokeRole(r) == builtInRoles' = builtInRoles \ {r} /\ UNCHANGED <<builtInPolicies, last>>

\* A policy that is not enabled, as business-hours when it is registered as
\* it comes, is as good as none.
RegisterPolicy(p) == builtInPolicies' = builtInPolicies \cup {p} /\ UNCHANGED <<builtInRoles, last>>
UnregisterPolicy(p) == builtInPolicies' = builtInPolicies \ {p} /\ UNCHANGED <<builtInRoles, last>>

Authorize(q) ==
    /\ last' = [ask |-> q, roles |-> builtInRoles, policies |-> builtInPolicies,
                allowed |-> Allowed(builtInRoles, builtInPolicies, q),
                reason |-> Reason(builtInRoles, builtInPolicies, q)]
    /\ UNCHANGED <<builtInRoles, builtInPolicies>>

BuiltInNext ==
    \/ \E r \in Templates : BuiltInGrantRole(r) \/ BuiltInRevokeRole(r)
    \/ \E p \in BuiltInPolicies : RegisterPolicy(p) \/ UnregisterPolicy(p)
    \/ \E q \in BuiltInAsks : Authorize(q)

BuiltInSpec == BuiltInInit /\ [][BuiltInNext]_builtInVars

-----------------------------------------------------------------------------
BuiltInTypeOK ==
    /\ builtInRoles \subseteq Templates /\ builtInPolicies \subseteq BuiltInPolicies
    /\ last = None \/ (last.ask \in BuiltInAsks /\ last.allowed \in BOOLEAN)

(***************************************************************************)
(* Policies take and roles give: with more roles, and with fewer policies, *)
(* what was allowed still is.  No owner and no party gets by the policies  *)
(* what no role gives, whatever owner-override says of full access.        *)
(***************************************************************************)
PoliciesOnlyTake ==
    last.allowed =>
        /\ last.roles \subseteq builtInRoles /\ builtInPolicies \subseteq last.policies =>
               Allowed(builtInRoles, builtInPolicies, last.ask)
        /\ \E r \in last.roles : Allowed({r}, {}, last.ask)

(***************************************************************************)
(* With the separation of duties who is a party of a proposal approves it  *)
(* only if it says who proposed it -- which may be the same person.        *)
(***************************************************************************)
ApprovedIsProposed ==
    last.allowed =>
        \/ "separation-of-duties" \notin last.policies
        \/ last.ask.action \notin {"approve", "consent"}
        \/ ~IsAgreementParty(last.ask)
        \/ last.ask.resource.proposedBy # Undefined

(***************************************************************************)
(* "Manager permissions (extends Employee)" (authorization.ts:701): what   *)
(* an employee is allowed and a manager is not is to create an asset; and  *)
(* a manager changes nothing that is there.                                *)
(***************************************************************************)
ManagerIsNoEmployee ==
    (last # None /\ last.policies = {} /\ last.roles = {"Manager"}) =>
        IF last.allowed THEN last.ask.action \notin {"update", "delete"}
        ELSE Allowed({"Employee"}, {}, last.ask) =>
                 last.ask.action = "create" /\ last.ask.resource.type = "Asset"

(***************************************************************************)
(* The reason tells why: a policy that denied, or no permission -- and of  *)
(* who has no permission but is owner or party, that a policy allowed it.  *)
(***************************************************************************)
ReasonTells ==
    last # None =>
        /\ last.reason = "GRANTED" <=> last.allowed
        /\ last.reason = "POLICY_DENIED" => ~Allowed({"SystemAdmin"}, last.policies, last.ask)
        /\ last.reason = "POLICY_ALLOWED" => IsResourceOwner(last.ask) \/ IsAgreementParty(last.ask)
=============================================================================
