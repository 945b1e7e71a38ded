---------------------------- MODULE AgreementTypes ----------------------------
(***************************************************************************)
(* The agreement types (src/core/universal/agreement-types.ts), what an    *)
(* agreement of a type needs, and what its activation does                 *)
(* (agreement-hooks-processor.ts): the hooks of the type, then a role for  *)
(* each of its grants, every one an event of its own whose append may      *)
(* fail.  A call that fails has done what it has done.                     *)
(***************************************************************************)
EXTENDS Naturals, Sequences, FiniteSets, SequencesExt

CONSTANTS
    Calls,      \* calls of processAgreementActivatedHooks
    MaxOf       \* bound: parties in one role

VARIABLES
    id,         \* the type of the agreement
    parties,    \* its parties, with the role each has
    assets,     \* assets it has as its subject
    until,      \* validity.effectiveUntil, 0 when it has none
    calls,      \* call |-> [pc, realm, next]: next is the place in grantsRoles
    granted     \* the RoleGranted events

vars == <<id, parties, assets, until, calls, granted>>

Need(role, min, max, consent) == [role |-> role, min |-> min, max |-> max, consent |-> consent]
NoLimit == 0
Grant(to, role, scope, validity) ==
    [to |-> to, role |-> role, scope |-> scope, validity |-> validity]
Type(needs, subjects, grants, onActivated) ==
    [needs |-> needs, subjects |-> subjects, grants |-> grants, onActivated |-> onActivated]

-----------------------------------------------------------------------------
(* The built-in types: the participants they require, their grants and     *)
(* the hooks of their activation.                                          *)

GENESIS_AGREEMENT_TYPE ==
    Type(<<Need("System", 1, 1, FALSE)>>, 0,
         <<Grant("System", "SystemAdmin", "Global", "agreement")>>, <<>>)
TENANT_LICENSE_TYPE ==
    Type(<<Need("Licensor", 1, 1, FALSE), Need("Licensee", 1, 1, TRUE)>>, 0,
         <<Grant("Licensee", "TenantAdmin", "realm", "agreement")>>, <<"CreateRealm">>)
MEMBERSHIP_TYPE ==
    Type(<<Need("Organization", 1, 1, FALSE), Need("Member", 1, 1, TRUE)>>, 0,
         <<Grant("Member", "Member", "realm", "agreement")>>, <<>>)
EMPLOYMENT_TYPE ==
    Type(<<Need("Employer", 1, 1, TRUE), Need("Employee", 1, 1, TRUE)>>, 0,
         <<Grant("Employee", "Employee", "realm", "agreement")>>, <<>>)
SALE_TYPE ==
    Type(<<Need("Seller", 1, 1, TRUE), Need("Buyer", 1, 1, TRUE)>>, 1,
         <<Grant("Buyer", "Customer", "Entity", "custom")>>, <<"TransferAssets">>)
TESTIMONY_TYPE ==
    Type(<<Need("Declarant", 1, 1, TRUE), Need("Witness", 1, 3, TRUE)>>, 0, <<>>, <<>>)
AUTHORIZATION_TYPE ==
    Type(<<Need("Grantor", 1, 1, TRUE), Need("Grantee", 1, 1, TRUE)>>, 0,
         <<Grant("Grantee", "Authorized", "agreement", "agreement")>>, <<>>)
CUSTODY_TYPE ==
    Type(<<Need("Owner", 1, 1, TRUE), Need("Custodian", 1, 1, TRUE)>>, 1,
         <<Grant("Custodian", "Custodian", "Asset", "agreement")>>, <<"TransferCustody">>)
WORKSPACE_MEMBERSHIP_TYPE ==
    Type(<<Need("WorkspaceOwner", 1, 1, FALSE), Need("Member", 1, NoLimit, TRUE)>>, 0,
         <<Grant("WorkspaceOwner", "WorkspaceOwner", "Asset", "agreement"),
           Grant("Member", "WorkspaceMember", "Asset", "agreement")>>, <<>>)
WORKSPACE_EXECUTION_TYPE ==
    Type(<<Need("WorkspaceOwner", 1, NoLimit, FALSE), Need("Executor", 1, NoLimit, TRUE)>>, 0,
         <<Grant("Executor", "WorkspaceExecutor", "Asset", "agreement")>>, <<>>)

BUILT_IN_AGREEMENT_TYPES ==
    [genesis |-> GENESIS_AGREEMENT_TYPE, tenantLicense |-> TENANT_LICENSE_TYPE,
     membership |-> MEMBERSHIP_TYPE, employment |-> EMPLOYMENT_TYPE, sale |-> SALE_TYPE,
     testimony |-> TESTIMONY_TYPE, authorization |-> AUTHORIZATION_TYPE, custody |-> CUSTODY_TYPE,
     workspaceMembership |-> WORKSPACE_MEMBERSHIP_TYPE,
     workspaceExecution |-> WORKSPACE_EXECUTION_TYPE]

TheType == BUILT_IN_AGREEMENT_TYPES[id]

-----------------------------------------------------------------------------
In(role) == SelectSeq(parties, LAMBDA p : p.role = role)

\* Mutant of Enough: null is taken for a number.
EnoughBelow(need) == Len(In(need.role)) >= need.min /\ Len(In(need.role)) <= need.max

Enough(need) ==
    Len(In(need.role)) >= need.min /\ (need.max # NoLimit => Len(In(need.role)) <= need.max)

\* Mutant of Consented: the first one in the role is asked.
ConsentedFirst(need) ==
    need.consent /\ In(need.role) # <<>> => Head(In(need.role)).consent

Consented(need) == need.consent => \A p \in ToSet(In(need.role)) : p.consent

\* Optional participants, terms, and the kinds of entities are not looked at.
Validate ==
    /\ \A need \in ToSet(TheType.needs) : Enough(need) /\ Consented(need)
    /\ assets >= TheType.subjects

-----------------------------------------------------------------------------
Unborn == [pc |-> "none", realm |-> FALSE, next |-> 1]

Init ==
    /\ id \in DOMAIN BUILT_IN_AGREEMENT_TYPES
    /\ \E n \in [DOMAIN TheType.needs -> 0 .. MaxOf] :
           parties = FlattenSeq([i \in DOMAIN TheType.needs |->
                         [k \in 1 .. n[i] |-> [role |-> TheType.needs[i].role, nr |-> k,
                                               consent |-> FALSE]]])
    /\ assets \in 0 .. 1
    /\ until \in 0 .. 1
    /\ calls = [c \in Calls |-> Unborn]
    /\ granted = <<>>

Consent(i) ==
    /\ ~parties[i].consent
    /\ \A c \in Calls : calls[c].pc = "none"
    /\ parties' = [parties EXCEPT ![i].consent = TRUE]
    /\ UNCHANGED <<id, assets, until, calls, granted>>

Go(c, r) == calls' = [calls EXCEPT ![c] = r]
Kept == UNCHANGED <<id, parties, assets, until>>

\* Mutant of ProcessActivated: the roles come first.
ProcessActivatedRolesFirst(c) ==
    /\ calls[c].pc = "none"
    /\ Go(c, [Unborn EXCEPT !.pc = "grants"])
    /\ Kept /\ UNCHANGED granted

\* Nobody validates the agreement first.  Without hooks there is nothing to
\* do, whatever the type grants.
ProcessActivated(c) ==
    /\ calls[c].pc = "none"
    /\ Go(c, [Unborn EXCEPT !.pc = IF TheType.onActivated = <<>> THEN "ended" ELSE "hooks"])
    /\ Kept /\ UNCHANGED granted

\* Hooks other than CreateRealm only warn.  Who makes a realm appends two
\* events for it.
RunHooks(c) ==
    /\ calls[c].pc = "hooks"
    /\ Go(c, [calls[c] EXCEPT !.pc = "grants", !.realm = Contains(TheType.onActivated, "CreateRealm")])
    /\ Kept /\ UNCHANGED granted

ScopeOf(grant) ==
    CASE grant.scope = "agreement" -> "Agreement"
      [] grant.scope = "Asset" -> "Asset"
      [] OTHER -> "Global"

\* Mutant of ValidUntil: every role outlasts its agreement.
ValidUntilNever(grant) == 0

ValidUntil(grant) == IF grant.validity = "agreement" THEN until ELSE 0

\* Mutant of ProcessGrant: the last grant of a type is not made.
ProcessGrantButLast(c) ==
    LET grants == TheType.grants
        grant == grants[calls[c].next]
    IN /\ calls[c].pc = "grants"
       /\ IF calls[c].next >= Len(grants)
          THEN Go(c, [calls[c] EXCEPT !.pc = "ended"]) /\ UNCHANGED granted
          ELSE /\ granted' = granted \o <<[call |-> c, role |-> grant.role, holder |-> Head(In(grant.to)),
                                           scope |-> ScopeOf(grant), until |-> ValidUntil(grant)]>>
               /\ Go(c, [calls[c] EXCEPT !.next = @ + 1])
       /\ Kept

\* One grant: to the first party in its role, or to nobody.
ProcessGrant(c) ==
    LET grants == TheType.grants
        grant == grants[calls[c].next]
    IN /\ calls[c].pc = "grants"
       /\ IF calls[c].next > Len(grants)
          THEN Go(c, [calls[c] EXCEPT !.pc = "ended"]) /\ UNCHANGED granted
          ELSE /\ granted' = IF In(grant.to) = <<>> THEN granted
                             ELSE granted \o <<[call |-> c, role |-> grant.role,
                                                holder |-> Head(In(grant.to)),
                                                scope |-> ScopeOf(grant),
                                                until |-> ValidUntil(grant)]>>
               /\ Go(c, [calls[c] EXCEPT !.next = @ + 1])
       /\ Kept

\* An append throws, and so does the call.
Fail(c) ==
    /\ calls[c].pc \in {"hooks", "grants"}
    /\ Go(c, [calls[c] EXCEPT !.pc = "failed"])
    /\ Kept /\ UNCHANGED granted

Next ==
    \/ \E i \in DOMAIN parties : Consent(i)
    \/ \E c \in Calls : ProcessActivated(c) \/ RunHooks(c) \/ ProcessGrant(c) \/ Fail(c)

Spec == Init /\ [][Next]_vars

-----------------------------------------------------------------------------
TypeOK ==
    /\ \A c \in Calls : calls[c].next \in 1 .. Len(TheType.grants) + 1
    /\ \A i \in DOMAIN granted : granted[i].holder \in ToSet(parties)

(***************************************************************************)
(* An agreement is valid when as many as its type asks for are in each     *)
(* role, no one who must consent has not, and there is what it is about:   *)
(* so every type can be agreed on.                                         *)
(***************************************************************************)
ValidWhenAgreed ==
    LET size(role) == Cardinality({p \in ToSet(parties) : p.role = role})
        agreed == /\ \A need \in ToSet(TheType.needs) :
                         need.min <= size(need.role) /\ (need.max > 0 => size(need.role) <= need.max)
                  /\ \A p \in ToSet(parties) :
                         \/ p.consent
                         \/ \E need \in ToSet(TheType.needs) : need.role = p.role /\ ~need.consent
                  /\ TheType.subjects > 0 => assets > 0
    IN Validate <=> agreed

(***************************************************************************)
(* An activation that ended has granted each role of the type for which    *)
(* there is a party, once, in the order of the type, if the type has       *)
(* hooks; one that failed has granted the first of them.  It has made the  *)
(* realm of a tenant license before it made the tenant its administrator.  *)
(***************************************************************************)
GrantsFollowType ==
    \A c \in Calls :
        LET mine == SelectSeq(granted, LAMBDA g : g.call = c)
            due == SelectSeq(TheType.grants, LAMBDA g : \E p \in ToSet(parties) : p.role = g.to)
        IN /\ Len(mine) <= Len(due)
           /\ \A i \in DOMAIN mine : mine[i].role = due[i].role /\ mine[i].holder.role = due[i].to
           /\ calls[c].pc = "ended" /\ TheType.onActivated # <<>> => Len(mine) = Len(due)
           /\ mine # <<>> /\ id = "tenantLicense" => calls[c].realm

(***************************************************************************)
(* A role ends with the agreement that grants it, when that has an end;    *)
(* only what a sale makes of a buyer goes on.                              *)
(***************************************************************************)
GrantsEndWithAgreement ==
    \A i \in DOMAIN granted : granted[i].until # until => granted[i].role = "Customer"
=============================================================================
