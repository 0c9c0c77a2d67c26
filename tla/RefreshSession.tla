--------------------------- MODULE RefreshSession ---------------------------
(***************************************************************************)
(* The refresh-session store: tables refresh_sessions and                  *)
(* refresh_session_tokens, and every transaction that writes them.         *)
(*                                                                         *)
(* A session is a chain of one-time refresh tokens.  Presenting the        *)
(* current token consumes it and stores its successor; presenting a token  *)
(* that was already consumed revokes the session.  Account, organization   *)
(* and membership changes revoke sessions inside their own transaction.    *)
(*                                                                         *)
(* Each action is one transaction.  Rows are locked before they are        *)
(* tested, and a session's user, client, organization and expiry never     *)
(* change after the insert, so a transaction takes effect at its commit.   *)
(***************************************************************************)
EXTENDS Directory

CONSTANTS
    Clients,     \* refresh_sessions.client_id: the login channel
    SessionIds,  \* refresh_sessions.id
    TokenIds,    \* the signed refresh tokens (token_hash is injective on them)
    Lifetime,    \* config.refresh_token_expiry_seconds, in model time units
    RoleArgs     \* management_role arguments requests send; None omits it

ASSUME SessionAssumption ==
    /\ Lifetime \in Nat \ {0}
    /\ RoleArgs \subseteq ManagementRoles \cup {None}
    /\ None \notin Clients \cup SessionIds \cup TokenIds

VARIABLES
    sessions,  \* sessions[s]: the refresh_sessions row
    tokens,    \* tokens[t]: the refresh_session_tokens row
    parent     \* history: parent[t] is the token whose exchange stored t

sessionVars == <<sessions, tokens, parent>>
vars == <<directoryVars, now, sessionVars>>

\* revoke_reason, by the kind of writer: an account, organization or membership
\* change; a refresh that met an inactive context; a replayed token; somebody's
\* request (logout, administrator, takeover by a forced login, unlinked source)
Reasons == {"lifecycle", "context", "replay", "request"}

SessionRow ==
    [state : {"absent", "open", "revoked", "deleted"}, user : Users \cup {None},
     client : Clients \cup {None}, org : Orgs \cup {None}, expires : Nat,
     current : TokenIds \cup {None}, reason : Reasons \cup {None}]

TokenRow ==
    [state : {"absent", "stored", "deleted"}, session : SessionIds \cup {None},
     consumed : BOOLEAN, revoked : BOOLEAN, expires : Nat]

NoSession == [state |-> "absent", user |-> None, client |-> None, org |-> None,
              expires |-> 0, current |-> None, reason |-> None]
NoToken == [state |-> "absent", session |-> None, consumed |-> FALSE,
            revoked |-> FALSE, expires |-> 0]

TypeOK ==
    /\ DirectoryTypeOK
    /\ now \in Nat
    /\ sessions \in [SessionIds -> SessionRow]
    /\ tokens \in [TokenIds -> TokenRow]
    /\ parent \in [TokenIds -> TokenIds \cup {None}]

Init ==
    /\ DirectoryInit
    /\ now = 0
    /\ sessions = [s \in SessionIds |-> NoSession]
    /\ tokens = [t \in TokenIds |-> NoToken]
    /\ parent = [t \in TokenIds |-> None]

-----------------------------------------------------------------------------
(* State formulae *)

Stored(s) == sessions[s].state \in {"open", "revoked"}

\* usable: neither revoked nor expired
Live(s) == sessions[s].state = "open" /\ sessions[s].expires > now

\* sessions of one Principal, of one organization, of one member of it
SessionsOf(u)   == {s \in SessionIds : Stored(s) /\ sessions[s].user = u}
ScopedTo(o)     == {s \in SessionIds : Live(s) /\ sessions[s].org = o}
ScopedFor(o, u) == ScopedTo(o) \cap SessionsOf(u)

\* has_active_refresh_session_for_principal
HasActiveSession(u) == \E s \in SessionsOf(u) : Live(s)

\* fault: a revocation without COALESCE overwrites an earlier one
RevokedOverwriting(S, why) ==
    [s \in SessionIds |->
        IF s \in S /\ Stored(s)
        THEN [sessions[s] EXCEPT !.state = "revoked", !.reason = why]
        ELSE sessions[s]]

\* SET revoked_at = COALESCE(revoked_at, NOW()),
\*     revoke_reason = COALESCE(revoke_reason, why): the first revocation stands
Revoked(S, why) ==
    [s \in SessionIds |->
        IF s \in S /\ sessions[s].state = "open"
        THEN [sessions[s] EXCEPT !.state = "revoked", !.reason = why]
        ELSE sessions[s]]

-----------------------------------------------------------------------------
(* Creation and rotation *)

\* fault: the context is not locked and tested again before the insert
CreateWithoutContext(u, c, o, s, t, e) ==
    /\ principals[u] # "absent"
    /\ sessions[s].state = "absent"
    /\ tokens[t].state = "absent"
    /\ sessions' = [sessions EXCEPT ![s] =
          [state |-> "open", user |-> u, client |-> c, org |-> o,
           expires |-> e, current |-> t, reason |-> None]]
    /\ tokens' = [tokens EXCEPT ![t] =
          [state |-> "stored", session |-> s, consumed |-> FALSE,
           revoked |-> FALSE, expires |-> e]]
    /\ UNCHANGED <<directoryVars, now, parent>>

\* create_refresh_session.  The caller computed the expiry e from the time its
\* own request read the clock, which may lie in the past.
CreateRefreshSession(u, c, o, s, t, e) ==
    /\ principals[u] # "absent"              \* foreign key on principal_id
    /\ o # None => ActiveContext(u, o)
    /\ sessions[s].state = "absent"
    /\ tokens[t].state = "absent"
    /\ sessions' = [sessions EXCEPT ![s] =
          [state |-> "open", user |-> u, client |-> c, org |-> o,
           expires |-> e, current |-> t, reason |-> None]]
    /\ tokens' = [tokens EXCEPT ![t] =
          [state |-> "stored", session |-> s, consumed |-> FALSE,
           revoked |-> FALSE, expires |-> e]]
    /\ UNCHANGED <<directoryVars, now, parent>>

\* faults: a consumed token, a revoked session is accepted
ConsumeAgain(t, o) ==
    IF tokens[t].state # "stored" \/ sessions[tokens[t].session].expires <= now
    THEN "NotFound"
    ELSE IF sessions[tokens[t].session].state = "revoked" THEN "Replayed" ELSE "Consumed"
ConsumeRevoked(t, o) ==
    IF tokens[t].state # "stored" \/ sessions[tokens[t].session].expires <= now
    THEN "NotFound"
    ELSE IF tokens[t].consumed THEN "Replayed" ELSE "Consumed"

\* What consume_and_rotate_refresh_session answers for a presented token t
\* whose signed organization claim is o, in the order of its early returns.
ConsumeResult(t, o) ==
    LET row == tokens[t]
        session == sessions[row.session]
    IN  IF row.state # "stored" THEN "NotFound"
        ELSE IF session.org # o THEN "ScopeMismatch"
        ELSE IF o # None /\ ~ActiveContext(session.user, o) THEN "ContextInactive"
        ELSE IF row.expires <= now \/ session.expires <= now THEN "NotFound"
        ELSE IF row.consumed \/ row.revoked \/ session.state = "revoked" THEN "Replayed"
        ELSE "Consumed"

\* fault: rotation leaves current_refresh_token_id behind
RotateKeepingCurrent(t, o, new) ==
    /\ ConsumeResult(t, o) = "Consumed"
    /\ tokens[new].state = "absent"
    /\ tokens' = [tokens EXCEPT ![t].consumed = TRUE, ![new] = [tokens[t] EXCEPT !.consumed = FALSE]]
    /\ parent' = [parent EXCEPT ![new] = t]
    /\ UNCHANGED <<directoryVars, now, sessions>>

\* fault: the successor lives for a lifetime of its own
RotateExtending(t, o, new) ==
    /\ ConsumeResult(t, o) = "Consumed"
    /\ tokens[new].state = "absent"
    /\ LET s == tokens[t].session IN
       /\ tokens' = [tokens EXCEPT
             ![t].consumed = TRUE,
             ![new] = [tokens[t] EXCEPT !.expires = now + Lifetime]]
       /\ sessions' = [sessions EXCEPT ![s].current = new]
    /\ parent' = [parent EXCEPT ![new] = t]
    /\ UNCHANGED <<directoryVars, now>>

\* consume_and_rotate_refresh_session, answering Consumed
RotateRefreshSession(t, o, new) ==
    /\ ConsumeResult(t, o) = "Consumed"
    /\ tokens[new].state = "absent"
    /\ LET s == tokens[t].session IN
       /\ tokens' = [tokens EXCEPT
             ![t].consumed = TRUE,
             ![new] = [state |-> "stored", session |-> s, consumed |-> FALSE,
                       revoked |-> FALSE, expires |-> sessions[s].expires]]
       /\ sessions' = [sessions EXCEPT ![s].current = new]
    /\ parent' = [parent EXCEPT ![new] = t]
    /\ UNCHANGED <<directoryVars, now>>

DetectReplay(t, o) ==
    /\ ConsumeResult(t, o) = "Replayed"
    /\ sessions' = Revoked({tokens[t].session}, "replay")
    /\ UNCHANGED <<directoryVars, now, tokens, parent>>

RejectInactiveContext(t, o) ==
    /\ ConsumeResult(t, o) = "ContextInactive"
    /\ sessions' = Revoked({tokens[t].session}, "context")
    /\ UNCHANGED <<directoryVars, now, tokens, parent>>

-----------------------------------------------------------------------------
(* Explicit revocation *)

\* revoke_refresh_session
RevokeRefreshSession(s) ==
    /\ Stored(s)
    /\ sessions' = Revoked({s}, "request")
    /\ UNCHANGED <<directoryVars, now, tokens, parent>>

\* revoke_refresh_session_by_token: logout with any token of the chain, or a
\* refresh whose membership check failed
RevokeByToken(t, why) ==
    /\ tokens[t].state = "stored"
    /\ tokens' = [tokens EXCEPT ![t].revoked = TRUE]
    /\ sessions' = Revoked({tokens[t].session}, why)
    /\ UNCHANGED <<directoryVars, now, parent>>

\* revoke_principal_refresh_sessions
RevokePrincipalSessions(u) ==
    /\ sessions' = Revoked(SessionsOf(u), "request")
    /\ UNCHANGED <<directoryVars, now, tokens, parent>>

\* revoke_client_refresh_sessions
RevokeClientSessions(c) ==
    /\ sessions' = Revoked({s \in SessionIds : sessions[s].client = c}, "request")
    /\ UNCHANGED <<directoryVars, now, tokens, parent>>

\* revoke_principal_client_refresh_sessions
RevokePrincipalClientSessions(u, c) ==
    /\ sessions' = Revoked({s \in SessionsOf(u) : sessions[s].client = c}, "request")
    /\ UNCHANGED <<directoryVars, now, tokens, parent>>

-----------------------------------------------------------------------------
(* Account changes *)

\* fault: disabling an account leaves its sessions usable
DisableKeepingSessions(u) ==
    /\ WriteUserActive(u, FALSE)
    /\ UNCHANGED <<now, sessionVars>>

\* the transaction of update_user with active = false, and of set_user_active
DisableUser(u) ==
    /\ WriteUserActive(u, FALSE)
    /\ sessions' = Revoked(SessionsOf(u), "lifecycle")
    /\ UNCHANGED <<now, tokens, parent>>

\* update_user with active = true, in a request that may carry a new password
EnableUser(u, newPassword) ==
    /\ WriteUserActive(u, TRUE)
    /\ sessions' = IF newPassword THEN Revoked(SessionsOf(u), "lifecycle") ELSE sessions
    /\ UNCHANGED <<now, tokens, parent>>

\* fault: replacing a password leaves the sessions usable
ChangeKeepingSessions(u) ==
    /\ users[u] # "deleted"
    /\ UNCHANGED vars

\* every transaction that replaces a password: update_user, reset_user_password,
\* change_user_password and the consumption of a reset token
ChangePassword(u) ==
    /\ users[u] # "deleted"
    /\ sessions' = Revoked(SessionsOf(u), "lifecycle")
    /\ UNCHANGED <<directoryVars, now, tokens, parent>>

\* delete_user: sessions and their tokens cascade from the Principal.  A deleted
\* row keeps its fields as history; no operation reads it again.
DeleteUser(u) ==
    /\ DeleteUserRows(u)
    /\ sessions' = [s \in SessionIds |->
          IF s \in SessionsOf(u) THEN [sessions[s] EXCEPT !.state = "deleted"]
                                 ELSE sessions[s]]
    /\ tokens' = [t \in TokenIds |->
          IF tokens[t].state = "stored" /\ tokens[t].session \in SessionsOf(u)
          THEN [tokens[t] EXCEPT !.state = "deleted"] ELSE tokens[t]]
    /\ UNCHANGED <<now, parent>>

\* the write of ensure_user_principal; a is what its earlier SELECT returned
SyncPrincipal(u, a) ==
    /\ UpsertPrincipal(u, a)
    /\ UNCHANGED <<now, sessionVars>>

-----------------------------------------------------------------------------
(* Tenant changes *)

SetOrganizationStatus(o, st) ==
    /\ WriteOrgStatus(o, st)
    /\ sessions' = IF orgs[o] = "active" /\ st # "active"
                   THEN Revoked(ScopedTo(o), "lifecycle") ELSE sessions
    /\ UNCHANGED <<now, tokens, parent>>

\* faults: only a removal revokes; every session of the member is revoked
RevokeOnRemovalOnly(o, u, st) ==
    /\ sessions' = IF st = "removed" THEN Revoked(ScopedFor(o, u), "lifecycle")
                                     ELSE sessions
    /\ UNCHANGED <<now, tokens, parent>>
RevokeEverySession(o, u, st) ==
    /\ sessions' = IF st # "active" THEN Revoked(SessionsOf(u), "lifecycle")
                                    ELSE sessions
    /\ UNCHANGED <<now, tokens, parent>>

\* the revocation both membership writers perform
RevokeForMembership(o, u, st) ==
    /\ sessions' = IF st # "active" THEN Revoked(ScopedFor(o, u), "lifecycle")
                                    ELSE sessions
    /\ UNCHANGED <<now, tokens, parent>>

UpsertMembership(o, u, st, role) ==
    /\ PlatformPutMembership(o, u, st, role)
    /\ RevokeForMembership(o, u, st)

UpsertMembershipAsManager(o, actor, u, st, role) ==
    /\ ManagerPutMembership(o, actor, u, st, role)
    /\ RevokeForMembership(o, u, st)

JoinMembership(o, u) ==
    /\ JoinOrganization(o, u)
    /\ UNCHANGED <<now, sessionVars>>

Tick ==
    /\ now < MaxTime
    /\ now' = now + 1
    /\ UNCHANGED <<directoryVars, sessionVars>>

-----------------------------------------------------------------------------
OrgScopes == Orgs \cup {None}

TokenNext ==
    \/ \E u \in Users, c \in Clients, o \in OrgScopes, s \in SessionIds,
          t \in TokenIds, e \in Lifetime .. (now + Lifetime) :
          CreateRefreshSession(u, c, o, s, t, e)
    \/ \E t \in TokenIds, o \in OrgScopes :
          \/ \E new \in TokenIds : RotateRefreshSession(t, o, new)
          \/ DetectReplay(t, o)
    \/ \E t \in TokenIds, o \in Orgs : RejectInactiveContext(t, o)
    \/ \E s \in SessionIds : RevokeRefreshSession(s)
    \/ \E t \in TokenIds, why \in {"request", "context"} : RevokeByToken(t, why)
    \/ \E u \in Users : RevokePrincipalSessions(u)
    \/ \E c \in Clients : RevokeClientSessions(c)
    \/ \E u \in Users, c \in Clients : RevokePrincipalClientSessions(u, c)

AccountNext ==
    \E u \in Users :
        \/ DisableUser(u)
        \/ \E newPassword \in BOOLEAN : EnableUser(u, newPassword)
        \/ ChangePassword(u)
        \/ DeleteUser(u)
        \/ \E a \in BOOLEAN : SyncPrincipal(u, a)

TenantNext ==
    \E o \in Orgs :
        \/ \E st \in OrgStatuses : SetOrganizationStatus(o, st)
        \/ \E u \in Users :
              \/ \E st \in MemberStatuses, role \in RoleArgs :
                    \/ UpsertMembership(o, u, st, role)
                    \/ \E actor \in Users :
                          UpsertMembershipAsManager(o, actor, u, st, role)
              \/ JoinMembership(o, u)

Next == TokenNext \/ AccountNext \/ TenantNext \/ Tick

Spec == Init /\ [][Next]_vars

-----------------------------------------------------------------------------
(* Correctness *)

\* A usable organization-scoped session belongs to an enabled account that is
\* an active member of an active organization of the right kind: "a disabled or
\* archived organization never leaves a usable scoped session behind", and
\* neither does a suspended membership or a disabled account, whatever creation
\* or rotation ran concurrently.  (The Principal's own flag is not part of it:
\* SyncPrincipal copies it without touching sessions.)
ScopedSessionsHaveContext ==
    \A s \in SessionIds : \A o \in Orgs :
        Live(s) /\ sessions[s].org = o =>
            /\ orgs[o] = "active"
            /\ users[sessions[s].user] = "active"
            /\ members[o][sessions[s].user].status = "active"
            /\ ClassFits(sessions[s].user, o)

\* refresh_sessions.current_refresh_token_id names the one unconsumed token of
\* the chain; every other stored token of the session has been consumed.
CurrentTokenIsUnspent ==
    /\ \A s \in SessionIds : Stored(s) =>
          /\ sessions[s].current \in TokenIds
          /\ tokens[sessions[s].current].state = "stored"
          /\ tokens[sessions[s].current].session = s
          /\ ~tokens[sessions[s].current].consumed
    /\ \A t \in TokenIds : tokens[t].state = "stored" =>
          /\ tokens[t].session \in SessionIds
          /\ Stored(tokens[t].session)
          /\ ~tokens[t].consumed => sessions[tokens[t].session].current = t

\* A refresh token is exchanged at most once: no two stored tokens were minted
\* from the same one, however presentations of it interleave.
OneSuccessor ==
    \A t1, t2 \in TokenIds :
        parent[t1] # None /\ parent[t1] = parent[t2] => t1 = t2

\* Rotation never extends a login: every token of a chain expires exactly when
\* its session was created to expire.
TokensExpireWithSession ==
    \A t \in TokenIds :
        tokens[t].state = "stored" =>
            tokens[t].expires = sessions[tokens[t].session].expires

\* 'refresh_token_replay' is only ever recorded against a chain one of whose
\* tokens really had been consumed: no order of logouts, lifecycle changes and
\* refreshes of the current token brands an honest session as replayed.
ReplayReasonHasEvidence ==
    \A s \in SessionIds :
        sessions[s].state = "revoked" /\ sessions[s].reason = "replay" =>
            \E t \in TokenIds : tokens[t].session = s /\ tokens[t].consumed

(* The inductive strengthening of the chain invariants *)

\* Rows are written whole: a row that does not exist yet has no field set, and a
\* row that does (or did) points to rows that exist (or existed).
RowsAreWhole ==
    /\ \A s \in SessionIds :
          IF sessions[s].state = "absent" THEN sessions[s] = NoSession
          ELSE /\ sessions[s].user \in Users
               /\ sessions[s].current \in TokenIds
               /\ tokens[sessions[s].current].state # "absent"
    /\ \A t \in TokenIds :
          IF tokens[t].state = "absent" THEN tokens[t] = NoToken
          ELSE /\ tokens[t].session \in SessionIds
               /\ sessions[tokens[t].session].state # "absent"

\* No chain stays open after one of its tokens was revoked.
RevokedTokenClosesChain ==
    \A t \in TokenIds : tokens[t].revoked => sessions[tokens[t].session].state # "open"

\* A token with a successor has been consumed.
ParentIsSpent ==
    \A t \in TokenIds : parent[t] # None => tokens[parent[t]].consumed

ChainInv ==
    /\ RowsAreWhole
    /\ CurrentTokenIsUnspent
    /\ TokensExpireWithSession
    /\ RevokedTokenClosesChain
    /\ ReplayReasonHasEvidence
    /\ ParentIsSpent
    /\ OneSuccessor

\* Revocation is final: a revoked session is never reopened, never rotated, and
\* keeps the reason of the writer that revoked it first.
FirstRevocationStands ==
    [][\A s \in SessionIds : sessions[s].state = "revoked" =>
          /\ sessions'[s].state \in {"revoked", "deleted"}
          /\ sessions'[s].reason = sessions[s].reason
          /\ sessions'[s].current = sessions[s].current]_vars

\* A tenant change revokes only what it must: a session that an organization or
\* membership step revokes was scoped, and it is its own organization or its own
\* membership that just stopped being active.
TenantRevocationIsTargeted ==
    [][\A s \in SessionIds :
          /\ sessions[s].state = "open" /\ sessions'[s].state = "revoked"
          /\ <<orgs, members>>' # <<orgs, members>>
          => \E o \in Orgs :
                /\ sessions[s].org = o
                /\ \/ orgs'[o] # "active"
                   \/ members'[o][sessions[s].user].status # "active"]_vars

\* The store implements the abstract family of one-time tokens: no order of
\* presentations, revocations and lifecycle changes exchanges a token twice,
\* exchanges one of a session that has ended, or gives a successor more time
\* than its login had.
Family == INSTANCE TokenFamily WITH
    family <- [s \in SessionIds |-> IF sessions[s].state = "absent" THEN "unborn"
                                    ELSE IF Live(s) THEN "live" ELSE "dead"],
    holder <- [s \in SessionIds |-> sessions[s].current],
    ends   <- [s \in SessionIds |-> IF sessions[s].current = None THEN 0
                                    ELSE tokens[sessions[s].current].expires],
    spent  <- {t \in TokenIds : tokens[t].consumed}

ImplementsTokenFamily == Family!FamilySpec
=============================================================================
