---------------------------- MODULE Organization ----------------------------
(***************************************************************************)
(* The memberships of one organization: the platform and the organization's *)
(* own owners and admins write them, invited people join.  A transaction   *)
(* is one step; the checks a route makes before it are another.            *)
(***************************************************************************)
CONSTANTS
    Members,   \* Principals that may become members: human accounts
    Troubles   \* what may go wrong with them

Able == {"able", "principal disabled", "account disabled", "wrong class"}

ASSUME MemberAssumption == Troubles \subseteq Able

VARIABLES
    orgStatus,   \* organizations.status
    member,      \* member[p]: status and management_role of its row; status "none" without one
    able,        \* able[p]: what may be wrong with the account, its class or its Principal
    delegated,   \* Principals whose request passed require_delegated_manager
    made,        \* history: made[p] is the authority that last made p an owner
    unmade       \* history: the authorities that took an active owner's rights

orgVars == <<orgStatus, member, able, delegated, made, unmade>>

NoRow == [status |-> "none", role |-> "member"]
MemberStatus == {"pending", "active", "suspended", "removed"}
ManagementRole == {"member", "admin", "owner"}

\* create_organization: no one is a member yet
OrgInit ==
    /\ orgStatus = "active"
    /\ member = [p \in Members |-> NoRow]
    /\ able = [p \in Members |-> "able"]
    /\ delegated = {}
    /\ made = [p \in Members |-> "no one"] /\ unmade = {}

-----------------------------------------------------------------------------

IsOwner(m) == m.status = "active" /\ m.role = "owner"

\* the row of p after an upsert; COALESCE keeps the role when none is named
Upserted(p, status, role) ==
    [status |-> status, role |-> IF role = "unnamed" THEN member[p].role ELSE role]

\* p's row becomes m on the authority of `by`
SetRow(p, m, by) ==
    /\ member' = [member EXCEPT ![p] = m]
    /\ made' = IF m.role = "owner" /\ member[p].role # "owner" THEN [made EXCEPT ![p] = by] ELSE made
    /\ unmade' = IF IsOwner(member[p]) /\ ~IsOwner(m) THEN unmade \cup {by} ELSE unmade

\* is_valid_organization_status_transition
Transition(from, to) == from = to \/ to = "active" \/ from = "active" \/ <<from, to>> = <<"disabled", "archived">>

\* set_organization_status; ending the tenant's sessions and codes is modelled
\* in RefreshSession and OidcProvider
SetOrganizationStatus(status) ==
    /\ Transition(orgStatus, status)
    /\ orgStatus' = status
    /\ UNCHANGED <<member, able, delegated, made, unmade>>

\* upsert_organization_membership, for platform administrators
UpsertMembership(p, status, role) ==
    /\ status \in {"pending", "active"} => orgStatus = "active"
    /\ status = "active" => able[p] # "principal disabled"
    /\ able[p] # "wrong class"
    /\ SetRow(p, Upserted(p, status, role), "platform")
    /\ UNCHANGED <<orgStatus, able, delegated>>

\* promote_user_to_internal_employee, when the organization is org-internal
Promote(p) ==
    /\ SetRow(p, [status |-> "active", role |-> "owner"], "platform")
    /\ able' = [able EXCEPT ![p] = IF @ = "account disabled" THEN @ ELSE "able"]
    /\ UNCHANGED <<orgStatus, delegated>>

-----------------------------------------------------------------------------
(* Delegated administration *)

\* lock_organization_manager_context: the role a has as a manager, if it is one
ManagerRole(a) ==
    IF orgStatus = "active" /\ able[a] = "able" /\ member[a].status = "active" /\ member[a].role # "member"
    THEN member[a].role ELSE "none"

\* require_delegated_manager, then require_delegated_mfa
CheckManager(a) ==
    /\ a \notin delegated /\ ManagerRole(a) # "none"
    /\ delegated' = delegated \cup {a}
    /\ UNCHANGED <<orgStatus, member, able, made, unmade>>

\* fault: an admin may touch an owner as long as no other role is named
OwnerIsProtectedFromDemotion(a, p, status, role) ==
    ManagerRole(a) = "admin" =>
        /\ role # "owner"
        /\ member[p].role = "owner" => role = "unnamed"

\* the two tests on organization_owner_role_required
OwnerIsProtected(a, p, status, role) ==
    ManagerRole(a) = "admin" =>
        /\ role # "owner"
        /\ member[p].role = "owner" => status = "active" /\ role = "unnamed"

\* upsert_organization_membership_as_manager, for an update or an invitation;
\* a second invitation does not touch an active member
UpsertAsManager(a, p, status, role) ==
    /\ a \in delegated /\ ManagerRole(a) # "none"
    /\ able[p] # "wrong class"
    /\ status = "active" => able[p] = "able"
    /\ OwnerIsProtected(a, p, status, role)
    /\ IF status = "pending" /\ member[p].status = "active"
       THEN UNCHANGED <<member, made, unmade>>
       ELSE SetRow(p, Upserted(p, status, role), ManagerRole(a))
    /\ delegated' = delegated \ {a}
    /\ UNCHANGED <<orgStatus, able>>

\* the factor is not recent, the locked rows refuse, or the caller gives up
EndRequest(a) ==
    /\ a \in delegated
    /\ delegated' = delegated \ {a}
    /\ UNCHANGED <<orgStatus, member, able, made, unmade>>

\* join_organization_membership: once; an active member only reads its row
JoinOrganization(p) ==
    /\ orgStatus = "active" /\ able[p] = "able" /\ member[p].status = "pending"
    /\ member' = [member EXCEPT ![p].status = "active"]
    /\ UNCHANGED <<orgStatus, able, delegated, made, unmade>>

\* an account or its Principal is disabled or enabled, or its class changes
ChangeAble(p, a) ==
    /\ able' = [able EXCEPT ![p] = a]
    /\ UNCHANGED <<orgStatus, member, delegated, made, unmade>>

OrgNext ==
    \/ \E s \in {"active", "disabled", "archived"} : SetOrganizationStatus(s)
    \/ \E p \in Members :
          \/ \E status \in MemberStatus, role \in ManagementRole \cup {"unnamed"} :
                \/ UpsertMembership(p, status, role)
                \/ \E a \in Members : UpsertAsManager(a, p, status, role)
          \/ Promote(p) \/ CheckManager(p) \/ EndRequest(p) \/ JoinOrganization(p)
          \/ \E a \in Troubles \cup {"able"} : ChangeAble(p, a)

OrgSpec == OrgInit /\ [][OrgNext]_orgVars

-----------------------------------------------------------------------------
(* Correctness *)

\* Owners answer to owners: whoever is an owner, invited or active, was made one
\* by the platform or by a manager who was an active owner at that moment, and
\* an active owner is only ever suspended, removed or demoted on the same
\* authority; a request that was checked while its sender was still an owner
\* gains nothing from it.
OwnersAnswerToOwners ==
    /\ \A p \in Members : member[p].role = "owner" => made[p] \in {"platform", "owner"}
    /\ unmade \subseteq {"platform", "owner"}
=============================================================================
