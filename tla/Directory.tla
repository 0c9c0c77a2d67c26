----------------------------- MODULE Directory -----------------------------
(***************************************************************************)
(* The rows a session depends on: human accounts (table users), their      *)
(* security subjects (principals), organizations and memberships.          *)
(*                                                                         *)
(* Every operator below is the effect of one committed PostgreSQL          *)
(* transaction on these four tables.  The transactions lock the rows they  *)
(* read (FOR UPDATE), so each is one atomic step.  The modules that extend *)
(* this one add the effect of the same transaction on their own tables.    *)
(*                                                                         *)
(* user_class and organizations.kind are constants: user_class changes     *)
(* only while the bootstrap administrator is seeded, before the server     *)
(* listens (promote_user_to_internal_employee), and no operation updates a *)
(* kind.                                                                   *)
(***************************************************************************)
EXTENDS Common

CONSTANTS
    Users,          \* user ids; principals.id is 'user-<user id>'
    Orgs,           \* organization ids
    InternalUsers,  \* the users whose user_class is internal_employee
    CustomerOrgs    \* the organizations whose kind is customer

ASSUME DirectoryAssumption ==
    /\ InternalUsers \subseteq Users
    /\ CustomerOrgs \subseteq Orgs
    /\ None \notin Users \cup Orgs

VARIABLES
    users,       \* users[u]: the account's row and its active flag
    principals,  \* principals[u]: the row of u's Principal and its own active flag
    orgs,        \* orgs[o]: organizations.status
    members      \* members[o][u]: the organization_memberships row

directoryVars == <<users, principals, orgs, members>>

UserStates      == {"active", "disabled", "deleted"}
PrincipalStates == {"absent", "active", "inactive"}
OrgStatuses     == {"active", "disabled", "archived"}
MemberStatuses  == {"pending", "active", "suspended", "removed"}
ManagementRoles == {"member", "admin", "owner"}

Membership == [status : MemberStatuses \cup {"absent"}, role : ManagementRoles]
NoMembership == [status |-> "absent", role |-> "member"]

DirectoryTypeOK ==
    /\ users \in [Users -> UserStates]
    /\ principals \in [Users -> PrincipalStates]
    /\ orgs \in [Orgs -> OrgStatuses]
    /\ members \in [Orgs -> [Users -> Membership]]

DirectoryInit ==
    /\ users = [u \in Users |-> "active"]
    /\ principals = [u \in Users |-> "active"]
    /\ orgs = [o \in Orgs |-> "active"]
    /\ members = [o \in Orgs |-> [u \in Users |-> NoMembership]]

-----------------------------------------------------------------------------
(* Predicates the queries evaluate *)

\* an external_customer may only be used with an organization of kind customer
ClassFits(u, o) == u \in InternalUsers \/ o \in CustomerOrgs

\* lock_active_organization_session_context: the locked rows still make a
\* session of u scoped to o valid.
ActiveContext(u, o) ==
    /\ orgs[o] = "active"
    /\ principals[u] = "active"
    /\ users[u] = "active"
    /\ ClassFits(u, o)
    /\ members[o][u].status = "active"

\* get_active_organization_membership, for a human Principal: one unlocked join
ActiveMembership(u, o) ==
    /\ members[o][u].status = "active"
    /\ orgs[o] = "active"
    /\ principals[u] = "active"
    /\ users[u] = "active"
    /\ ClassFits(u, o)

ValidOrgTransition(from, to) ==
    from = to \/ <<from, to>> \in
        {<<"active", "disabled">>, <<"active", "archived">>,
         <<"disabled", "active">>, <<"disabled", "archived">>,
         <<"archived", "active">>}

-----------------------------------------------------------------------------
(* Accounts and Principals *)

\* UPDATE users SET active = a
WriteUserActive(u, a) ==
    /\ users[u] # "deleted"
    /\ users' = [users EXCEPT ![u] = IF a THEN "active" ELSE "disabled"]
    /\ UNCHANGED <<principals, orgs, members>>

\* upsert_principal: inserts or overwrites the Principal's active flag with the
\* value its caller read from users in an earlier statement.
UpsertPrincipal(u, a) ==
    /\ principals' = [principals EXCEPT ![u] = IF a THEN "active" ELSE "inactive"]
    /\ UNCHANGED <<users, orgs, members>>

\* The rows delete_user removes; memberships cascade from the Principal.
DeleteUserRows(u) ==
    /\ users[u] # "deleted"
    /\ users' = [users EXCEPT ![u] = "deleted"]
    /\ principals' = [principals EXCEPT ![u] = "absent"]
    /\ members' = [o \in Orgs |-> [members[o] EXCEPT ![u] = NoMembership]]
    /\ UNCHANGED orgs

-----------------------------------------------------------------------------
(* Organizations and memberships *)

WriteOrgStatus(o, st) ==
    /\ ValidOrgTransition(orgs[o], st)
    /\ orgs' = [orgs EXCEPT ![o] = st]
    /\ UNCHANGED <<users, principals, members>>

\* INSERT ... ON CONFLICT DO UPDATE: a NULL role keeps the stored one, and a
\* new row defaults to 'member'.
WriteMembership(o, u, st, role) ==
    members' = [members EXCEPT ![o][u] =
                   [status |-> st, role |-> IF role = None THEN @.role ELSE role]]

\* upsert_organization_membership: the platform administrator's path.  The LEFT
\* JOIN yields a NULL class when the account behind the Principal is gone.
PlatformPutMembership(o, u, st, role) ==
    /\ principals[u] # "absent"
    /\ st \in {"pending", "active"} => orgs[o] = "active"
    /\ st = "active" => principals[u] = "active"
    /\ users[u] = "deleted" \/ ClassFits(u, o)
    /\ role \in {"admin", "owner"} => users[u] # "deleted"
    /\ WriteMembership(o, u, st, role)
    /\ UNCHANGED <<users, principals, orgs>>

\* lock_organization_manager_context: actor may manage o, target is eligible
ManagerContext(o, actor, target) ==
    /\ orgs[o] = "active"
    /\ principals[target] # "absent"
    /\ users[target] # "deleted"
    /\ principals[actor] = "active"
    /\ users[actor] = "active"
    /\ ClassFits(actor, o)
    /\ members[o][actor].status = "active"
    /\ members[o][actor].role \in {"admin", "owner"}
    /\ ClassFits(target, o)

\* the refusals of upsert_organization_membership_as_manager after the lock
ManagerMayPut(o, actor, u, st, role) ==
    /\ ManagerContext(o, actor, u)
    /\ st = "active" => principals[u] = "active" /\ users[u] = "active"
    /\ members[o][actor].role = "admin" =>
          /\ role # "owner"
          /\ members[o][u].status # "absent" /\ members[o][u].role = "owner"
                => st = "active" /\ role \in {None, "owner"}

\* A retried invitation of an active member returns before the write.
InvitationRetry(o, u, st) == st = "pending" /\ members[o][u].status = "active"

ManagerPutMembership(o, actor, u, st, role) ==
    /\ ManagerMayPut(o, actor, u, st, role)
    /\ ~InvitationRetry(o, u, st)
    /\ WriteMembership(o, u, st, role)
    /\ UNCHANGED <<users, principals, orgs>>

\* join_organization_membership: accept a pending invitation
JoinOrganization(o, u) ==
    /\ orgs[o] = "active"
    /\ principals[u] = "active"
    /\ users[u] = "active"
    /\ ClassFits(u, o)
    /\ members[o][u].status = "pending"
    /\ members' = [members EXCEPT ![o][u].status = "active"]
    /\ UNCHANGED <<users, principals, orgs>>
=============================================================================
