-------------------------------- MODULE Rbac --------------------------------
(***************************************************************************)
(* Role bindings and the authorization decisions drawn from them, for one  *)
(* organization and one permission.  A human's platform roles are stored   *)
(* twice, under the account and under its Principal.  A transaction is one *)
(* step; reading a row before a transaction, and the two halves of an      *)
(* unlocked INSERT ... SELECT, are steps of their own.                     *)
(***************************************************************************)
CONSTANTS
    People,     \* human accounts with their Principals
    Services,   \* service Principals
    Roles       \* role ids

ASSUME RbacAssumption == People \cap Services = {}

VARIABLES
    roles,           \* roles[r]: assignable_to, scope and role_permissions, {} when there is none
    userRoles,       \* user_roles
    principalRoles,  \* principal_roles
    bindings,        \* organization_role_bindings of the organization
    members,         \* Principals with a live membership of the organization
    class,           \* class[u]: users.user_class
    live,            \* active Principals
    resources,       \* "platform", "tenant": where an active resource carries the permission
    typeEdits,       \* changes of assignable_to past their check
    syncs,           \* syncs[u]: the roles a running sync has read, None when there is none
    decision,        \* one authorization request
    raced            \* history: an unlocked check or read was overtaken

rbacVars == <<roles, userRoles, principalRoles, bindings, members, class, live, resources, typeEdits, syncs, decision, raced>>

Principals == People \cup Services
Role == [type : {"user", "service", "all"}, scope : {"platform", "organization"}, grants : BOOLEAN]
TypeOf(p) == IF p \in People THEN "user" ELSE "service"
NoSync == [open |-> FALSE, read |-> {}]
NoDecision == [step |-> "none", who |-> "none", tenant |-> FALSE, resource |-> FALSE, scope |-> "none", seen |-> {}]

RbacInit ==
    /\ roles = [r \in Roles |-> {}]
    /\ userRoles = {} /\ principalRoles = {} /\ bindings = {} /\ members = {}
    /\ class \in [People -> {"internal", "external"}]
    /\ live = Principals
    /\ resources \in SUBSET {"platform", "tenant"}
    /\ typeEdits = {} /\ syncs = [u \in People |-> NoSync]
    /\ decision = NoDecision /\ raced = FALSE

Others == <<live, resources, members, decision>>

-----------------------------------------------------------------------------
(* Roles *)

\* create_role_with_scope
CreateRole(r, type, scope) ==
    /\ roles[r] = {}
    /\ roles' = [roles EXCEPT ![r] = {[type |-> type, scope |-> scope, grants |-> FALSE]}]
    /\ UNCHANGED <<Others, userRoles, principalRoles, bindings, class, typeEdits, syncs, raced>>

\* delete_role; the bindings go with it
DeleteRole(r) ==
    /\ roles[r] # {}
    /\ roles' = [roles EXCEPT ![r] = {}]
    /\ userRoles' = {b \in userRoles : b[2] # r}
    /\ principalRoles' = {b \in principalRoles : b[2] # r}
    /\ bindings' = {b \in bindings : b[2] # r}
    /\ typeEdits' = {e \in typeEdits : e[1] # r}
    /\ syncs' = [u \in People |-> [syncs[u] EXCEPT !.read = @ \ {r}]]
    /\ UNCHANGED <<Others, class, raced>>

\* ensure_role_assignable_to_principal_type
Assignable(role, type) == role.type \in {"all", type}

\* ensure_role_assignable_to_update_is_compatible: no lock is kept
CheckType(r, type) ==
    /\ roles[r] # {} /\ \A e \in typeEdits : e[1] # r
    /\ type # "all" =>
          /\ type # "user" => \A b \in userRoles : b[2] # r
          /\ \A b \in principalRoles : b[2] = r => TypeOf(b[1]) = type
    /\ typeEdits' = typeEdits \cup {<<r, type>>}
    /\ UNCHANGED <<Others, roles, userRoles, principalRoles, bindings, class, syncs, raced>>

\* the UPDATE of update_role and restore_role
ChangeType(r, type) ==
    /\ <<r, type>> \in typeEdits
    /\ roles' = [roles EXCEPT ![r] = {[role EXCEPT !.type = type] : role \in @}]
    /\ typeEdits' = typeEdits \ {<<r, type>>}
    /\ UNCHANGED <<Others, userRoles, principalRoles, bindings, class, syncs, raced>>

\* assign_permission_to_role, revoke_permission_from_role
ChangePermission(r) ==
    /\ roles[r] # {}
    /\ roles' = [roles EXCEPT ![r] = {[role EXCEPT !.grants = ~@] : role \in @}]
    /\ UNCHANGED <<Others, userRoles, principalRoles, bindings, class, typeEdits, syncs, raced>>

-----------------------------------------------------------------------------
(* Platform bindings *)

\* ensure_platform_role_assignment, ensure_user_can_receive_platform_role
Bindable(p, r) ==
    \E role \in roles[r] :
        /\ role.scope = "platform" /\ Assignable(role, TypeOf(p))
        /\ p \in People => class[p] = "internal"

Overtakes(r) == raced \/ \E e \in typeEdits : e[1] = r

\* the bindings of p to the roles R are added; a human's to both tables
Assign(p, R) ==
    /\ principalRoles' = principalRoles \cup {<<p, r>> : r \in R}
    /\ userRoles' = IF p \in People THEN userRoles \cup {<<p, r>> : r \in R} ELSE userRoles
    /\ raced' = (raced \/ \E r \in R : Overtakes(r))
    /\ UNCHANGED <<Others, roles, bindings, class, typeEdits, syncs>>

\* assign_roles_to_user_batch: all or none
AssignRolesToUser(u, R) ==
    /\ R # {} /\ \A r \in R : Bindable(u, r)
    /\ Assign(u, R)

\* assign_role_to_principal
AssignRoleToPrincipal(p, r) ==
    /\ Bindable(p, r)
    /\ Assign(p, {r})

\* a revocation that a running sync has already read past is recorded
Unassign(p, r) ==
    /\ raced' = (raced \/ (p \in People /\ r \in syncs[p].read))
    /\ UNCHANGED <<Others, roles, bindings, class, typeEdits, syncs>>

\* fault: the Principal keeps the role
RevokeAccountRole(u, r) ==
    /\ userRoles' = userRoles \ {<<u, r>>}
    /\ UNCHANGED principalRoles
    /\ Unassign(u, r)

\* revoke_role_from_user
RevokeRoleFromUser(u, r) ==
    /\ userRoles' = userRoles \ {<<u, r>>}
    /\ principalRoles' = principalRoles \ {<<u, r>>}
    /\ Unassign(u, r)

\* revoke_role_from_principal
RevokeRoleFromPrincipal(p, r) ==
    /\ principalRoles' = principalRoles \ {<<p, r>>}
    /\ userRoles' = IF p \in People THEN userRoles \ {<<p, r>>} ELSE userRoles
    /\ Unassign(p, r)

\* sync_user_roles_to_principal: the SELECT
ReadSync(u) ==
    /\ ~syncs[u].open
    /\ syncs' = [syncs EXCEPT ![u] = [open |-> TRUE, read |-> {r \in Roles : <<u, r>> \in userRoles /\ Bindable(u, r)}]]
    /\ UNCHANGED <<Others, roles, userRoles, principalRoles, bindings, class, typeEdits, raced>>

\* its INSERT
WriteSync(u) ==
    /\ syncs[u].open
    /\ principalRoles' = principalRoles \cup {<<u, r>> : r \in syncs[u].read}
    /\ syncs' = [syncs EXCEPT ![u] = NoSync]
    /\ UNCHANGED <<Others, roles, userRoles, bindings, class, typeEdits, raced>>

\* the EXISTS of set_user_class and promote_user_to_internal_employee
HasPlatformRole(u) ==
    \E b \in userRoles \cup principalRoles : b[1] = u /\ \E role \in roles[b[2]] : role.scope = "platform"

\* set_user_class, promote_user_to_internal_employee
SetUserClass(u, c) ==
    /\ class[u] # c => ~HasPlatformRole(u)
    /\ class' = [class EXCEPT ![u] = c]
    /\ raced' = (raced \/ syncs[u].read # {})
    /\ UNCHANGED <<Others, roles, userRoles, principalRoles, bindings, typeEdits, syncs>>

-----------------------------------------------------------------------------
(* Organization bindings *)

\* assign_organization_role, assign_organization_role_as_manager
AssignOrganizationRole(p, r) ==
    /\ p \in members
    /\ \E role \in roles[r] : role.scope = "organization" /\ Assignable(role, TypeOf(p))
    /\ bindings' = bindings \cup {<<p, r>>}
    /\ UNCHANGED <<Others, roles, userRoles, principalRoles, class, typeEdits, syncs, raced>>

\* revoke_organization_role_as_manager
RevokeOrganizationRole(p, r) ==
    /\ <<p, r>> \in bindings
    /\ bindings' = bindings \ {<<p, r>>}
    /\ UNCHANGED <<Others, roles, userRoles, principalRoles, class, typeEdits, syncs, raced>>

-----------------------------------------------------------------------------
(* Decisions *)

\* principal_has_permission
PlatformPermission(p) ==
    \E b \in principalRoles :
        /\ b[1] = p /\ (p \in People => class[p] = "internal")
        /\ \E role \in roles[b[2]] : role.scope = "platform" /\ role.grants

\* principal_has_organization_permission
OrganizationPermission(p) ==
    /\ p \in live \cap members
    /\ \E b \in bindings : b[1] = p /\ \E role \in roles[b[2]] : role.scope = "organization" /\ role.grants

Answer(d) == decision' = d /\ UNCHANGED <<roles, userRoles, principalRoles, bindings, members, class, live, resources, typeEdits, syncs, raced>>

\* principal_from_authorization_headers: a token of an active Principal, for the
\* platform or for the organization
Identify(p, tenant, resource) ==
    /\ decision.step = "none" /\ p \in live
    /\ Answer([NoDecision EXCEPT !.step = "context", !.who = p, !.tenant = tenant, !.resource = resource, !.seen = {"live"}])

\* resolve_authorization_context
ResolveContext ==
    /\ decision.step = "context"
    /\ IF decision.tenant /\ decision.who \notin live \cap members THEN Answer([decision EXCEPT !.step = "denied"])
       ELSE Answer([decision EXCEPT !.step = "target", !.seen = @ \cup IF decision.tenant THEN {"member"} ELSE {}])

\* fault: the tenant context decides for every resource
RoleScopeOfContext(tenant, resource, found) == IF tenant THEN "tenant" ELSE "platform"

\* role_scope: a named permission follows the context, a resource its owner
RoleScope(tenant, resource, found) ==
    IF resource THEN found ELSE IF tenant THEN "tenant" ELSE "platform"

\* permission_for_resource: the tenant's own resource before the platform's
FoundResource ==
    CASE decision.tenant /\ "tenant" \in resources -> "tenant"
      [] "platform" \in resources /\ ~(decision.tenant /\ "tenant" \in resources) -> "platform"
      [] OTHER -> "none"

ResolveTarget ==
    /\ decision.step = "target"
    /\ Answer([decision EXCEPT !.step = IF decision.resource /\ FoundResource = "none" THEN "denied" ELSE "decide",
                             !.scope = RoleScope(decision.tenant, decision.resource, FoundResource),
                             !.seen = @ \cup IF decision.resource /\ FoundResource = "platform" THEN {"platform resource"} ELSE {}])

\* check_one
CheckOne ==
    LET granted == IF decision.scope = "platform" THEN PlatformPermission(decision.who) ELSE OrganizationPermission(decision.who)
        source  == IF PlatformPermission(decision.who) THEN {"platform role"} ELSE {}
    IN  /\ decision.step = "decide"
        /\ Answer([decision EXCEPT !.step = IF granted THEN "allowed" ELSE "denied",
                                 !.seen = @ \cup source \cup IF OrganizationPermission(decision.who) THEN {"organization role"} ELSE {}])

Answered ==
    /\ decision.step \in {"allowed", "denied"}
    /\ Answer(NoDecision)

-----------------------------------------------------------------------------
(* What else may change *)

Toggle(S, x) == IF x \in S THEN S \ {x} ELSE S \cup {x}

\* a membership or its organization is suspended or restored
ChangeMember(p) ==
    /\ members' = Toggle(members, p)
    /\ UNCHANGED <<roles, userRoles, principalRoles, bindings, class, live, resources, typeEdits, syncs, decision, raced>>

\* a Principal is disabled or enabled
ChangePrincipal(p) ==
    /\ live' = Toggle(live, p)
    /\ UNCHANGED <<roles, userRoles, principalRoles, bindings, members, class, resources, typeEdits, syncs, decision, raced>>

\* create_resource_in_organization, update_resource, assign_permission_to_resource, ...
ChangeResource(s) ==
    /\ resources' = Toggle(resources, s)
    /\ UNCHANGED <<roles, userRoles, principalRoles, bindings, members, class, live, typeEdits, syncs, decision, raced>>

RoleChanges ==
    \E r \in Roles :
        \/ \E type \in {"user", "service", "all"}, scope \in {"platform", "organization"} : CreateRole(r, type, scope)
        \/ DeleteRole(r) \/ ChangePermission(r)
        \/ \E u \in People : RevokeRoleFromUser(u, r) \/ \E R \in SUBSET Roles : AssignRolesToUser(u, R)
        \/ \E p \in Principals :
              \/ AssignRoleToPrincipal(p, r) \/ RevokeRoleFromPrincipal(p, r)
              \/ AssignOrganizationRole(p, r) \/ RevokeOrganizationRole(p, r)

UnlockedChanges ==
    \/ \E r \in Roles, type \in {"user", "service", "all"} : CheckType(r, type) \/ ChangeType(r, type)
    \/ \E u \in People :
          \/ ReadSync(u) \/ WriteSync(u)
          \/ \E c \in {"internal", "external"} : SetUserClass(u, c)

Requests ==
    \/ \E p \in Principals :
          \/ ChangePrincipal(p)
          \/ \E tenant, resource \in BOOLEAN : Identify(p, tenant, resource)
    \/ ResolveContext \/ ResolveTarget \/ CheckOne \/ Answered
    \/ \E s \in {"platform", "tenant"} : ChangeResource(s)

\* how the two tables of platform roles stay one
BindingNext == RoleChanges \/ UnlockedChanges \/ \E p \in Principals : ChangeMember(p)

\* how a request is decided while roles, bindings, members and resources change;
\* no query of a decision reads a role's assignable_to
RequestNext == RoleChanges \/ Requests \/ \E p \in Principals : ChangeMember(p)

RbacSpec == RbacInit /\ [][BindingNext \/ RequestNext]_rbacVars

-----------------------------------------------------------------------------
(* Correctness *)

\* "User and Principal role rows are one logical assignment": while no sync and
\* no change of a role's type is overtaken by a revocation or an assignment, the
\* two tables agree for every human, every platform binding joins a platform
\* role to a Principal of its type, and an external customer has none at all.
RoleBindingsAreValid ==
    ~raced =>
        /\ {b \in principalRoles : b[1] \in People} = userRoles
        /\ \A b \in principalRoles :
              /\ \E role \in roles[b[2]] : role.scope = "platform" /\ Assignable(role, TypeOf(b[1]))
              /\ b[1] \in People => class[b[1]] = "internal"

\* "A concrete platform resource remains platform-scoped even when an internal
\* employee carries a live organization context": a request for a platform
\* resource, or without a tenant context, is allowed by platform roles alone,
\* every other one by organization roles alone, and a tenant context only if
\* the membership was live when it was resolved.
DecisionsFollowScope ==
    decision.step = "allowed" =>
        /\ decision.tenant => "member" \in decision.seen
        /\ IF decision.tenant /\ "platform resource" \notin decision.seen
           THEN "organization role" \in decision.seen
           ELSE "platform role" \in decision.seen
=============================================================================
