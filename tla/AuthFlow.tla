------------------------------ MODULE AuthFlow ------------------------------
(***************************************************************************)
(* The HTTP handlers that open and refresh sessions, composed with the     *)
(* refresh-session store.                                                  *)
(*                                                                         *)
(* A handler is a sequence of database statements and transactions with    *)
(* awaits in between; what it read earlier may be stale when it writes.    *)
(* A request slot runs one handler at a time, so the number of slots is    *)
(* the degree of concurrency: one slot serialises the whole server, two    *)
(* show every interleaving of two handlers.  A handler whose client        *)
(* disconnects is dropped at its next await (Cancel).                      *)
(***************************************************************************)
EXTENDS RefreshSession

CONSTANTS
    Requests,        \* request slots
    SingleSession,   \* SESSION_POLICY: TRUE for single_user_session
    AllowCancel,     \* whether clients may disconnect while a handler runs
    AccessLifetime,  \* config.token_expiry_seconds, in model time units
    MaxPassword      \* bound on the number of password changes

ASSUME FlowAssumption ==
    /\ SingleSession \in BOOLEAN
    /\ AllowCancel \in BOOLEAN
    /\ AccessLifetime \in Nat
    /\ MaxPassword \in Nat

VARIABLES
    req,         \* req[r]: the handler running in slot r and its local variables
    password,    \* password[u]: which password users.password_hash stores
    credential,  \* history: credential[s] is the password the login of s verified
    access,      \* history: access[u] is the latest exp of an access token of u
    delivered    \* history: the refresh tokens a response has carried to a client

flowVars == <<req, password, credential, access, delivered>>
allVars == <<vars, flowVars>>

Idle == [pc |-> "idle", user |-> None, org |-> None, force |-> FALSE,
         verified |-> None, iat |-> 0, seen |-> FALSE, token |-> None]

LoginSteps   == {"scope", "policy", "takeover", "create"}
RefreshSteps == {"revoke", "rotate", "principal", "claims"}
SyncSteps    == {"select", "upsert"}

Request ==
    [pc : {"idle"} \cup LoginSteps \cup RefreshSteps \cup SyncSteps,
     user : Users \cup {None}, org : OrgScopes, force : BOOLEAN,
     verified : Nat \cup {None}, iat : Nat, seen : BOOLEAN,
     token : TokenIds \cup {None}]

FlowTypeOK ==
    /\ TypeOK
    /\ req \in [Requests -> Request]
    /\ password \in [Users -> Nat]
    /\ credential \in [SessionIds -> Nat \cup {None}]
    /\ access \in [Users -> Nat]
    /\ delivered \subseteq TokenIds

FlowInit ==
    /\ Init
    /\ req = [r \in Requests |-> Idle]
    /\ password = [u \in Users |-> 0]
    /\ credential = [s \in SessionIds |-> None]
    /\ access = [u \in Users |-> 0]
    /\ delivered = {}

-----------------------------------------------------------------------------
(* Control *)

At(r, pc) == req[r].pc = pc
GoTo(r, pc) == req' = [req EXCEPT ![r].pc = pc]
Return(r) == req' = [req EXCEPT ![r] = Idle]

UnchangedStore == UNCHANGED vars
UnchangedCredentials == UNCHANGED <<password, credential, access, delivered>>

\* an access token for u is signed with iat as its issue time
IssueAccess(u, iat) ==
    access' = [access EXCEPT ![u] = IF iat + AccessLifetime > @
                                    THEN iat + AccessLifetime ELSE @]

-----------------------------------------------------------------------------
(* ensure_user_principal: SELECT active FROM users, then upsert_principal *)

\* Role assignment, authorization checks and identity linking start here.
StartSync(r) ==
    /\ At(r, "idle")
    /\ \E u \in Users : req' = [req EXCEPT ![r] = [Idle EXCEPT !.pc = "select", !.user = u]]
    /\ UnchangedStore /\ UnchangedCredentials

IsLogin(r) == req[r].verified # None

SelectUser(r) ==
    /\ At(r, "select")
    /\ users[req[r].user] # "deleted"
    /\ req' = [req EXCEPT ![r].pc = "upsert",
                          ![r].seen = users[req[r].user] = "active"]
    /\ UnchangedStore /\ UnchangedCredentials

\* No account row: a login answers with an access token that names no Principal,
\* which every protected route refuses, and stores no session.
SelectMissingUser(r) ==
    /\ At(r, "select")
    /\ users[req[r].user] = "deleted"
    /\ Return(r)
    /\ UnchangedStore /\ UnchangedCredentials

UpsertSeen(r) ==
    /\ At(r, "upsert")
    /\ SyncPrincipal(req[r].user, req[r].seen)
    /\ IF IsLogin(r) THEN GoTo(r, "scope") ELSE Return(r)
    /\ UnchangedCredentials

-----------------------------------------------------------------------------
(* auth_token: password login *)

\* get_user_by_username and verify succeed; the handler then reads the clock.
StartLogin(r) ==
    /\ At(r, "idle")
    /\ \E u \in Users, o \in OrgScopes, force \in BOOLEAN :
          /\ users[u] = "active"
          /\ force => SingleSession          \* force_login is ignored otherwise
          /\ req' = [req EXCEPT ![r] =
                [pc |-> "select", user |-> u, org |-> o, force |-> force,
                 verified |-> password[u], iat |-> now, seen |-> FALSE, token |-> None]]
    /\ UnchangedStore /\ UnchangedCredentials

\* resolve_requested_organization_session_scope
ResolveScope(r) ==
    /\ At(r, "scope")
    /\ IF req[r].org = None \/ ActiveMembership(req[r].user, req[r].org)
       THEN GoTo(r, "policy") ELSE Return(r)
    /\ UnchangedStore /\ UnchangedCredentials

\* fault: a forced login skips the takeover
PolicyWithoutTakeover(r) ==
    /\ At(r, "policy")
    /\ IF ~SingleSession \/ ~HasActiveSession(req[r].user) \/ req[r].force
       THEN GoTo(r, "create") ELSE Return(r)
    /\ UnchangedStore /\ UnchangedCredentials

\* enforce_refresh_session_policy up to its revocation
EnforcePolicy(r) ==
    /\ At(r, "policy")
    /\ IF ~SingleSession \/ ~HasActiveSession(req[r].user) THEN GoTo(r, "create")
       ELSE IF req[r].force THEN GoTo(r, "takeover") ELSE Return(r)
    /\ UnchangedStore /\ UnchangedCredentials

Takeover(r) ==
    /\ At(r, "takeover")
    /\ RevokePrincipalSessions(req[r].user)
    /\ GoTo(r, "create")
    /\ UnchangedCredentials

\* fault: the insert trusts the membership ResolveScope read earlier
CreateFromStaleScope(r) ==
    /\ At(r, "create")
    /\ \E c \in Clients, s \in SessionIds, t \in TokenIds :
          CreateWithoutContext(req[r].user, c, req[r].org, s, t, req[r].iat + Lifetime)
    /\ Return(r)
    /\ UnchangedCredentials

CreateSession(r) ==
    /\ At(r, "create")
    /\ \E c \in Clients, s \in SessionIds, t \in TokenIds :
          /\ CreateRefreshSession(req[r].user, c, req[r].org, s, t, req[r].iat + Lifetime)
          /\ credential' = [credential EXCEPT ![s] = req[r].verified]
          /\ delivered' = delivered \cup {t}
    /\ IssueAccess(req[r].user, req[r].iat)
    /\ Return(r)
    /\ UNCHANGED password

\* organization_session_context_inactive, or the foreign key on the Principal
CreateFails(r) ==
    /\ At(r, "create")
    /\ \/ principals[req[r].user] = "absent"
       \/ req[r].org # None /\ ~ActiveContext(req[r].user, req[r].org)
    /\ Return(r)
    /\ UnchangedStore /\ UnchangedCredentials

-----------------------------------------------------------------------------
(* auth_refresh.  The organization claim of a token is signed from the scope *)
(* its session was created with, and so is its Principal.                    *)

SessionOf(t) == sessions[tokens[t].session]

StartRefresh(r) ==
    /\ At(r, "idle")
    /\ \E t \in TokenIds :
          /\ tokens[t].state # "absent"
          /\ LET u == SessionOf(t).user  o == SessionOf(t).org
             IN  req' = [req EXCEPT ![r] =
                    [pc |-> IF o # None /\ ~ActiveMembership(u, o) THEN "revoke" ELSE "rotate",
                     user |-> u, org |-> o, force |-> FALSE, verified |-> None,
                     iat |-> now, seen |-> FALSE, token |-> t]]
    /\ UnchangedStore /\ UnchangedCredentials

RevokeOnRefresh(r) ==
    /\ At(r, "revoke")
    /\ IF tokens[req[r].token].state = "stored"
       THEN RevokeByToken(req[r].token, "context") ELSE UnchangedStore
    /\ Return(r)
    /\ UnchangedCredentials

\* consume_and_rotate_refresh_session answers Consumed
RotateConsumed(r) ==
    /\ At(r, "rotate")
    /\ \E new \in TokenIds :
          /\ RotateRefreshSession(req[r].token, req[r].org, new)
          /\ req' = [req EXCEPT ![r].pc = "principal", ![r].token = new]
    /\ UnchangedCredentials

\* ... or Replayed, OrganizationContextInactive or NotFound; a token of a human
\* session has no row in the legacy table either.
RotateRefused(r) ==
    /\ At(r, "rotate")
    /\ \/ DetectReplay(req[r].token, req[r].org)
       \/ RejectInactiveContext(req[r].token, req[r].org)
       \/ ConsumeResult(req[r].token, req[r].org) = "NotFound" /\ UnchangedStore
    /\ Return(r)
    /\ UnchangedCredentials

ReadPrincipal(r) ==
    /\ At(r, "principal")
    /\ IF principals[req[r].user] = "active" THEN GoTo(r, "claims") ELSE Return(r)
    /\ UnchangedStore /\ UnchangedCredentials

\* access_claims_for_principal recomputes the claims from the live account
IssueClaims(r) ==
    /\ At(r, "claims")
    /\ IF users[req[r].user] = "active"
       THEN /\ IssueAccess(req[r].user, req[r].iat)
            /\ delivered' = delivered \cup {req[r].token}
       ELSE UNCHANGED <<access, delivered>>
    /\ Return(r)
    /\ UnchangedStore /\ UNCHANGED <<password, credential>>

-----------------------------------------------------------------------------
(* Handlers that write once, and update_user *)

\* hash_password is salted: every stored password is a new one
StorePassword(u) ==
    /\ password[u] < MaxPassword
    /\ password' = [password EXCEPT ![u] = @ + 1]

\* fault: update_user does not carry the new status to the Principal
UpdateWithoutSync(r) ==
    /\ At(r, "idle")
    /\ \E u \in Users : DisableUser(u) \/ EnableUser(u, FALSE)
    /\ UNCHANGED flowVars

\* update_user: one transaction, then ensure_user_principal
UpdateUser(r) ==
    /\ At(r, "idle")
    /\ \E u \in Users :
          /\ \/ (DisableUser(u) \/ EnableUser(u, FALSE)) /\ UNCHANGED password
             \/ /\ DisableUser(u) \/ EnableUser(u, TRUE) \/ ChangePassword(u)
                /\ StorePassword(u)
          /\ req' = [req EXCEPT ![r] = [Idle EXCEPT !.pc = "select", !.user = u]]
    /\ UNCHANGED <<credential, access, delivered>>

\* reset_user_password, change_user_password, consume_password_reset_token
ReplacePassword(r) ==
    /\ At(r, "idle")
    /\ \E u \in Users :
          /\ ChangePassword(u)
          /\ StorePassword(u)
    /\ UNCHANGED <<req, credential, access, delivered>>

RemoveUser(r) ==
    /\ At(r, "idle")
    /\ \E u \in Users : DeleteUser(u)
    /\ UNCHANGED flowVars

RevokeSessions(r) ==
    /\ At(r, "idle")
    /\ \/ \E s \in SessionIds : RevokeRefreshSession(s)
       \/ \E u \in Users : RevokePrincipalSessions(u)
       \/ \E t \in TokenIds : RevokeByToken(t, "request")
    /\ UNCHANGED flowVars

ManageTenants(r) ==
    /\ At(r, "idle")
    /\ TenantNext
    /\ UNCHANGED flowVars

\* the client disconnects; the handler's future is dropped at an await
Cancel(r) ==
    /\ AllowCancel
    /\ ~At(r, "idle")
    /\ Return(r)
    /\ UnchangedStore /\ UnchangedCredentials

-----------------------------------------------------------------------------
Handler(r) ==
    \/ StartSync(r) \/ SelectUser(r) \/ SelectMissingUser(r) \/ UpsertSeen(r)
    \/ StartLogin(r) \/ ResolveScope(r) \/ EnforcePolicy(r) \/ Takeover(r)
    \/ CreateSession(r) \/ CreateFails(r)
    \/ StartRefresh(r) \/ RevokeOnRefresh(r) \/ RotateConsumed(r) \/ RotateRefused(r)
    \/ ReadPrincipal(r) \/ IssueClaims(r)
    \/ UpdateUser(r) \/ ReplacePassword(r) \/ RemoveUser(r) \/ RevokeSessions(r)
    \/ ManageTenants(r) \/ Cancel(r)

FlowNext == (\E r \in Requests : Handler(r)) \/ (Tick /\ UNCHANGED flowVars)

FlowSpec == FlowInit /\ [][FlowNext]_allVars

-----------------------------------------------------------------------------
(* Correctness *)

\* However handlers interleave or are dropped, each of their steps is a step of
\* the refresh-session store or leaves it alone.
ImplementsStore == Init /\ [][Next]_vars

\* A running handler works for a known user, has read a clock that is not ahead
\* of the database's, and refreshes a token that was signed.
HandlersWellFormed ==
    \A r \in Requests :
        /\ req[r].iat <= now
        /\ req[r].pc # "idle" => req[r].user \in Users
        /\ req[r].pc \in RefreshSteps => req[r].token \in TokenIds

FlowInv == FlowTypeOK /\ ChainInv /\ HandlersWellFormed

Quiet(u) == \A r \in Requests : req[r].user # u

\* auth_middleware admits u: a token not yet expired, and an active Principal
Admitted(u) == access[u] > now /\ principals[u] = "active"

\* SESSION_POLICY = single_user_session: "only one active refresh session is
\* allowed per user" (enforce_refresh_session_policy).
AtMostOneSession ==
    SingleSession =>
        \A s1, s2 \in SessionIds :
            Live(s1) /\ Live(s2) /\ sessions[s1].user = sessions[s2].user => s1 = s2

\* "Reject disabled Principals on every protected request so user disable takes
\* effect immediately": once the handlers working on u have returned, no access
\* token of a disabled or deleted account is admitted.
DisabledUserIsLockedOut ==
    \A u \in Users : users[u] # "active" /\ Quiet(u) => ~Admitted(u)

\* "Credential and status changes must invalidate every long-lived session
\* atomically": every usable session was opened with the password now stored.
SessionsMatchPassword ==
    \A s \in SessionIds :
        Live(s) => credential[s] = password[sessions[s].user]

\* A usable session is never stranded: when its handlers have returned, some
\* response has carried its current token to the client.
NoStrandedSession ==
    \A s \in SessionIds :
        Live(s) /\ Quiet(sessions[s].user) => sessions[s].current \in delivered
=============================================================================
