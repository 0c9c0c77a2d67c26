------------------------------ MODULE RowLocks ------------------------------
(***************************************************************************)
(* The order in which the transactions lock rows.  A transaction takes its *)
(* FOR UPDATE locks one after the other and keeps them until it ends; when *)
(* some wait for each other PostgreSQL aborts one of them.  Principals are *)
(* numbers, so that ORDER BY id means something.                           *)
(*                                                                         *)
(* Listed are the transactions on organizations, Principals, accounts,     *)
(* memberships, proofs and machine credentials.  Not listed are those on   *)
(* support grants, relying-party clients, identity sources and recovery    *)
(* codes, which lock rows of other tables too, or only those.              *)
(***************************************************************************)
EXTENDS Naturals, Sequences, FiniteSets

CONSTANTS
    Orgs,       \* organizations
    Humans,     \* numbers: Principals with an account
    Machines,   \* numbers: Principals with a machine credential
    TxSlots     \* transactions that may run at once

ASSUME LocksAssumption == Humans \cup Machines \subseteq Nat /\ IsFiniteSet(TxSlots)

VARIABLE tx   \* tx[t]: what transaction t locks, and how much of it it has locked

NoTx == [family |-> "none", rows |-> <<>>, locked |-> 0]

LockedRow(table, o, p) == <<table, o, p>>
OrganizationRow(o) == LockedRow("organizations", o, 0)
PrincipalRow(p) == LockedRow("principals", "", p)
UserRow(p) == LockedRow("users", "", p)
MemberRow(o, p) == LockedRow("organization_memberships", o, p)
ProofRow(p) == LockedRow("password_reset_tokens", "", p)
CredentialRow(p) == LockedRow("machine_credentials", "", p)
ScopeRow(p) == LockedRow("service_clients", "", p)

\* fault: the caller before the target
CallerFirst(a, p) == IF a = p THEN <<a>> ELSE <<a, p>>

\* ORDER BY id, for the manager and its target
ById(a, p) ==
    CASE a < p -> <<a, p>>
      [] a = p -> <<a>>
      [] a > p -> <<p, a>>

\* lock_organization_manager_context
ManagerRows(o, a, p) ==
    LET ids == ById(a, p)
        accounts == IF p \in Humans THEN ids ELSE <<a>>
    IN  <<OrganizationRow(o)>>
        \o [i \in DOMAIN ids |-> PrincipalRow(ids[i])]
        \o [i \in DOMAIN accounts |-> UserRow(accounts[i])]
        \o [i \in DOMAIN ids |-> MemberRow(o, ids[i])]

\* lock_machine_principal_scope
ScopeRows(o, m) == <<PrincipalRow(m), ScopeRow(m), OrganizationRow(o), MemberRow(o, m)>>

Tx(family, rows) == [family |-> family, rows |-> rows, locked |-> 0]

DelegatedTx(o, a, p) == Tx("organization", ManagerRows(o, a, p))

\* upsert_organization_membership
UpsertTx(o, p) == Tx("organization", <<OrganizationRow(o), PrincipalRow(p), MemberRow(o, p)>>)

\* join_organization_membership
JoinTx(o, p) == Tx("organization", <<OrganizationRow(o), PrincipalRow(p), UserRow(p), MemberRow(o, p)>>)

\* lock_active_organization_session_context
SessionTx(o, p) == Tx("organization", <<OrganizationRow(o), PrincipalRow(p), UserRow(p), MemberRow(o, p)>>)

\* rotate_machine_credential_as_organization_manager
ManagedRotationTx(o, a, m) == Tx("organization", ManagerRows(o, a, m) \o <<CredentialRow(m)>> \o ScopeRows(o, m))

OrganizationTx ==
    UNION {
        {DelegatedTx(o, a, p) : o \in Orgs, a \in Humans, p \in Humans \cup Machines},
        {UpsertTx(o, p) : o \in Orgs, p \in Humans \cup Machines},
        {JoinTx(o, p) : o \in Orgs, p \in Humans},
        {SessionTx(o, p) : o \in Orgs, p \in Humans},
        {ManagedRotationTx(o, a, m) : o \in Orgs, a \in Humans, m \in Machines}}

\* change_user_password, set_user_class and the role writers
PasswordTx(p) == Tx("account", <<UserRow(p)>>)

\* promote_user_to_internal_employee
PromoteTx(o, p) == Tx("account", <<UserRow(p), PrincipalRow(p), MemberRow(o, p)>>)

\* issue_password_reset_token
IssueResetTx(p) == Tx("account", <<UserRow(p), ProofRow(p)>>)

\* issue_email_verification_token
IssueVerificationTx(p) == Tx("account", <<UserRow(p), ProofRow(p)>>)

AccountTx ==
    UNION {
        {PasswordTx(p) : p \in Humans}, {PromoteTx(o, p) : o \in Orgs, p \in Humans},
        {IssueResetTx(p) : p \in Humans}, {IssueVerificationTx(p) : p \in Humans}}

\* consume_password_reset_token
ConsumeResetTx(p) == Tx("proof", <<ProofRow(p), UserRow(p)>>)

\* consume_email_verification_token
ConsumeVerificationTx(p) == Tx("proof", <<ProofRow(p), UserRow(p)>>)

ProofTx == UNION {{ConsumeResetTx(p) : p \in Humans}, {ConsumeVerificationTx(p) : p \in Humans}}

\* create_machine_credential
CreateKeyTx(o, m) == Tx("machine", ScopeRows(o, m))

\* rotate_machine_credential
RotateKeyTx(o, m) == Tx("machine", <<CredentialRow(m)>> \o ScopeRows(o, m))

\* verify_machine_credential
VerifyKeyTx(m) == Tx("machine", <<CredentialRow(m), PrincipalRow(m)>>)

MachineTx ==
    UNION {
        {CreateKeyTx(o, m) : o \in Orgs, m \in Machines}, {RotateKeyTx(o, m) : o \in Orgs, m \in Machines},
        {VerifyKeyTx(m) : m \in Machines}}

-----------------------------------------------------------------------------

Holds(t) == {tx[t].rows[i] : i \in 1 .. tx[t].locked}

\* t cannot go on before u ends
Waits(t, u) ==
    /\ u # t /\ tx[t].locked < Len(tx[t].rows)
    /\ tx[t].rows[tx[t].locked + 1] \in Holds(u)

\* every transaction of D waits for another one of D
Deadlocked(D) == D # {} /\ \A t \in D : \E u \in D : Waits(t, u)

LocksInit == tx = [t \in TxSlots |-> NoTx]

BeginTx(t) ==
    /\ tx[t] = NoTx
    /\ \E new \in OrganizationTx \cup AccountTx \cup ProofTx \cup MachineTx : tx' = [tx EXCEPT ![t] = new]

LockRow(t) ==
    /\ tx[t].locked < Len(tx[t].rows)
    /\ \A u \in TxSlots : ~Waits(t, u)
    /\ tx' = [tx EXCEPT ![t].locked = @ + 1]

\* COMMIT, or a check that fails on the way
EndTx(t) ==
    /\ tx[t].locked > 0
    /\ tx' = [tx EXCEPT ![t] = NoTx]

\* deadlock_detected: the handler answers with a database error
AbortTx(t) ==
    /\ \E D \in SUBSET TxSlots : t \in D /\ Deadlocked(D)
    /\ tx' = [tx EXCEPT ![t] = NoTx]

LocksNext == \E t \in TxSlots : BeginTx(t) \/ LockRow(t) \/ EndTx(t) \/ AbortTx(t)

LocksSpec == LocksInit /\ [][LocksNext]_tx

-----------------------------------------------------------------------------

\* "so two managers updating one another cannot acquire caller/target locks in
\* reverse order", "Lifecycle writers use the same lock order": those of the
\* listed transactions that follow one of the documented orders (organization
\* first, account first, proof first, machine credential first) never wait for
\* each other in a circle, across organizations too.  Only transactions of
\* different orders can.
OneOrderNeverDeadlocks ==
    \A D \in SUBSET TxSlots :
        (\A t, u \in D : tx[t].family = tx[u].family) => ~Deadlocked(D)
=============================================================================
