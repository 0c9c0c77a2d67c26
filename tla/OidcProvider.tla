---------------------------- MODULE OidcProvider ----------------------------
(***************************************************************************)
(* The OpenID provider: relying-party clients, browser sessions and        *)
(* authorization codes, with the account and tenant transactions that end  *)
(* them.                                                                   *)
(*                                                                         *)
(* login, consent and token await several statements; a request slot runs  *)
(* one of them, one committed statement per step, and the request may end  *)
(* between any two (an earlier check of the same handler refuses, or the   *)
(* peer goes away).  A registration is abstracted to the set of requests   *)
(* it allows: a Grant stands for a redirect URI with a scope.              *)
(***************************************************************************)
EXTENDS Directory

CONSTANTS
    Clients,       \* client ids
    ClientOrg,     \* ClientOrg[c]: the organization that owns c, None for the platform
    Confidential,  \* the clients with a secret
    Grants,        \* redirect URI and scope pairs a client may register
    Codes,         \* authorization codes
    Cookies,       \* browser sessions
    Slots,         \* concurrent requests
    OrgStatusArgs, \* the argument of an organization status change
    StatusArgs,    \* the status argument of a membership change
    RoleArgs,      \* the role argument of a membership change, None to keep the stored role
    MaxVersion,    \* bound on the secrets of a client and the passwords of a user
    CodeLife,      \* 300 seconds, in model time units
    CookieLife     \* 28800 seconds, in model time units

ASSUME OidcAssumption ==
    /\ ClientOrg \in [Clients -> Orgs \cup {None}]
    /\ None \notin Clients   \* NULL is no client
    /\ Confidential \subseteq Clients
    /\ OrgStatusArgs \subseteq OrgStatuses
    /\ StatusArgs \subseteq MemberStatuses
    /\ RoleArgs \subseteq ManagementRoles \cup {None}
    /\ MaxVersion \in Nat
    /\ CodeLife \in Nat \ {0} /\ CookieLife \in Nat \ {0}

VARIABLES
    clients,    \* clients[c]: the oidc_clients row; secrets are numbered
    passwords,  \* passwords[u]: number of the password in users.password_hash
    cookies,    \* cookies[b]: the oidc_browser_sessions row
    codes,      \* codes[k]: the oidc_authorization_codes row
    requests,   \* requests[r]: the handler that runs in slot r
    tokens      \* history: tokens[k]: token responses sent for code k

oidcVars == <<now, clients, passwords, cookies, codes, requests, tokens>>

\* overtaken: a client or account change committed between the statement the
\* row was computed from and its insertion.
\* missed: a tenant change committed while the request's INSERT, which had read
\* its SELECT already, was waiting to commit.
\* kept: a change ended the code's tenant and left the code, because a manager's
\* change leaves all of them or because it missed this one.
\* The columns of a deleted or consumed code and of a revoked session are never
\* read again.
NoClient == [status |-> "absent", grants |-> {}, secret |-> 0]
NoCookie == [state |-> "unused", user |-> None, password |-> 0, expires |-> 0,
             overtaken |-> FALSE]
RevokedCookie == [NoCookie EXCEPT !.state = "revoked"]
NoCode == [state |-> "unused", client |-> None, user |-> None, grant |-> None,
           expires |-> 0, overtaken |-> FALSE, kept |-> FALSE]
Idle == [step |-> "idle", client |-> None, user |-> None, grant |-> None,
         code |-> None, version |-> 0, overtaken |-> FALSE, missed |-> FALSE]

OidcInit ==
    /\ DirectoryInit
    /\ now = 0
    /\ clients = [c \in Clients |-> NoClient]
    /\ passwords = [u \in Users |-> 0]
    /\ cookies = [b \in Cookies |-> NoCookie]
    /\ codes = [k \in Codes |-> NoCode]
    /\ requests = [r \in Slots |-> Idle]
    /\ tokens = [k \in Codes |-> 0]

-----------------------------------------------------------------------------
(* Predicates the queries evaluate *)

Pending(k) == codes[k].state = "pending"

\* oidc_client_user_context_is_active; also the condition inside the statements
\* that insert and consume a code
ContextIsActive(c, u) ==
    /\ clients[c].status = "active"
    /\ users[u] = "active"
    /\ principals[u] = "active"
    /\ ClientOrg[c] # None =>
          /\ orgs[ClientOrg[c]] = "active"
          /\ members[ClientOrg[c]][u].status = "active"

\* validate_authorization_request
Allows(c, g) == clients[c].status = "active" /\ g \in clients[c].grants

\* resolve_browser_session
Resolves(b) ==
    /\ cookies[b].state = "open"
    /\ cookies[b].expires > now
    /\ users[cookies[b].user] = "active"

\* the platform administers its own clients, a live manager those of a tenant
MayAdminister(c) ==
    ClientOrg[c] = None \/ \E actor \in Users : ManagerContext(ClientOrg[c], actor, actor)

\* DELETE FROM oidc_authorization_codes ... AND consumed_at IS NULL
CodesWithout(ks) ==
    [k \in Codes |-> IF k \in ks /\ Pending(k) THEN [NoCode EXCEPT !.state = "deleted"]
                                               ELSE codes[k]]
CodesOfClient(c) == {k \in Codes : codes[k].client = c}

\* UPDATE oidc_browser_sessions SET revoked_at ...
CookiesRevoked(u) ==
    [b \in Cookies |-> IF cookies[b].state = "open" /\ cookies[b].user = u
                       THEN RevokedCookie ELSE cookies[b]]

\* history
Overtake(rs) ==
    [r \in Slots |-> [requests[r] EXCEPT !.overtaken = @ \/ r \in rs]]
Miss(rs) ==
    [r \in Slots |-> [requests[r] EXCEPT !.missed = @ \/ r \in rs]]
LoginsOf(u) == {r \in Slots : requests[r].step \in {"checkLogin", "open"} /\ requests[r].user = u}
ConsentsFor(c) == {r \in Slots : requests[r].step \in {"checkConsent", "insert", "commit"} /\ requests[r].client = c}
InsertsFor(o) ==
    {r \in Slots : requests[r].step = "commit" /\ ClientOrg[requests[r].client] = o}
InsertsOfMember(o, u) == {r \in InsertsFor(o) : requests[r].user = u}

-----------------------------------------------------------------------------
(* Clients *)

CreateClient(c, grants) ==
    /\ clients[c].status = "absent"
    /\ MayAdminister(c)
    /\ clients' = [clients EXCEPT ![c] = [status |-> "active", grants |-> grants, secret |-> 0]]
    /\ UNCHANGED <<directoryVars, now, passwords, cookies, codes, requests, tokens>>

\* fault: only disabling a client discards its codes
UpdateKeepingCodes(c, status, grants) ==
    /\ clients[c].status # "absent"
    /\ MayAdminister(c)
    /\ clients' = [clients EXCEPT ![c].status = status, ![c].grants = grants]
    /\ codes' = IF clients[c].status = "active" /\ status = "disabled"
                THEN CodesWithout(CodesOfClient(c)) ELSE codes
    /\ requests' = Overtake(ConsentsFor(c))
    /\ UNCHANGED <<directoryVars, now, passwords, cookies, tokens>>

\* update_oidc_client_scoped
UpdateClient(c, status, grants) ==
    /\ clients[c].status # "absent"
    /\ MayAdminister(c)
    /\ clients' = [clients EXCEPT ![c].status = status, ![c].grants = grants]
    /\ codes' = IF /\ clients[c].status = "active"
                   /\ status = "disabled" \/ grants # clients[c].grants
                THEN CodesWithout(CodesOfClient(c)) ELSE codes
    /\ requests' = Overtake(ConsentsFor(c))
    /\ UNCHANGED <<directoryVars, now, passwords, cookies, tokens>>

\* fault: pending codes outlive the secret
RotateKeepingCodes(c) ==
    /\ c \in Confidential
    /\ clients[c].status = "active" /\ clients[c].secret < MaxVersion
    /\ MayAdminister(c)
    /\ clients' = [clients EXCEPT ![c].secret = @ + 1]
    /\ UNCHANGED <<directoryVars, now, passwords, cookies, codes, requests, tokens>>

\* rotate_oidc_client_secret_scoped
RotateSecret(c) ==
    /\ c \in Confidential
    /\ clients[c].status = "active" /\ clients[c].secret < MaxVersion
    /\ MayAdminister(c)
    /\ clients' = [clients EXCEPT ![c].secret = @ + 1]
    /\ codes' = CodesWithout(CodesOfClient(c))
    /\ UNCHANGED <<directoryVars, now, passwords, cookies, requests, tokens>>

-----------------------------------------------------------------------------
\* the statement oidc_client_user_context_is_active, in both handlers
CheckContext(r) ==
    /\ requests[r].step \in {"checkLogin", "checkConsent"}
    /\ ContextIsActive(requests[r].client, requests[r].user)
    /\ requests' = [requests EXCEPT ![r].step =
          IF @ = "checkLogin" THEN "open" ELSE "insert"]
    /\ UNCHANGED <<directoryVars, now, clients, passwords, cookies, codes, tokens>>

-----------------------------------------------------------------------------
(* login: verify the password, check the context, open a browser session *)

\* validated_authorization_client, get_user_by_username and verify
StartLogin(r, c, u) ==
    /\ requests[r] = Idle
    /\ clients[c].status = "active"
    /\ users[u] = "active"
    /\ requests' = [requests EXCEPT ![r] =
          [Idle EXCEPT !.step = "checkLogin", !.client = c, !.user = u, !.version = passwords[u]]]
    /\ UNCHANGED <<directoryVars, now, clients, passwords, cookies, codes, tokens>>

\* create_browser_session, which tests nothing
OpenBrowserSession(r, b) ==
    /\ requests[r].step = "open"
    /\ users[requests[r].user] # "deleted"   \* foreign key
    /\ cookies[b].state = "unused"
    /\ cookies' = [cookies EXCEPT ![b] =
          [state |-> "open", user |-> requests[r].user, password |-> requests[r].version,
           expires |-> now + CookieLife, overtaken |-> requests[r].overtaken]]
    /\ requests' = [requests EXCEPT ![r] = Idle]
    /\ UNCHANGED <<directoryVars, now, clients, passwords, codes, tokens>>

Logout(b) ==
    /\ cookies[b].state = "open"
    /\ cookies' = [cookies EXCEPT ![b] = RevokedCookie]
    /\ UNCHANGED <<directoryVars, now, clients, passwords, codes, requests, tokens>>

-----------------------------------------------------------------------------
(* consent: resolve the cookie, validate the request, check the context, insert *)
(* a code.  The checks consent makes before authorize_for_user repeats them can *)
(* only end the request.                                                        *)

StartConsent(r, b, c) ==
    /\ requests[r] = Idle
    /\ Resolves(b)
    /\ requests' = [requests EXCEPT ![r] =
          [Idle EXCEPT !.step = "validate", !.client = c, !.user = cookies[b].user]]
    /\ UNCHANGED <<directoryVars, now, clients, passwords, cookies, codes, tokens>>

\* authorize_for_user: the last read of the client
ValidateRequest(r, g) ==
    /\ requests[r].step = "validate"
    /\ Allows(requests[r].client, g)
    /\ requests' = [requests EXCEPT ![r].step = "checkConsent", ![r].grant = g]
    /\ UNCHANGED <<directoryVars, now, clients, passwords, cookies, codes, tokens>>

\* fault: the statement trusts the context that was checked before it
SelectUnchecked(r) ==
    /\ requests[r].step = "insert"
    /\ clients[requests[r].client].status = "active"
    /\ users[requests[r].user] = "active"
    /\ requests' = [requests EXCEPT ![r].step = "commit"]
    /\ UNCHANGED <<directoryVars, now, clients, passwords, cookies, codes, tokens>>

\* create_authorization_code, one INSERT ... SELECT that locks no row of the
\* context: the SELECT reads its snapshot
SelectContext(r) ==
    /\ requests[r].step = "insert"
    /\ ContextIsActive(requests[r].client, requests[r].user)
    /\ requests' = [requests EXCEPT ![r].step = "commit"]
    /\ UNCHANGED <<directoryVars, now, clients, passwords, cookies, codes, tokens>>

\* the foreign keys wait for the transactions that hold the rows they refer to,
\* and the code is there
InsertCode(r, k) ==
    /\ requests[r].step = "commit"
    /\ users[requests[r].user] # "deleted"   \* foreign key
    /\ codes[k].state = "unused"
    /\ codes' = [codes EXCEPT ![k] =
          [state |-> "pending", client |-> requests[r].client, user |-> requests[r].user,
           grant |-> requests[r].grant, expires |-> now + CodeLife,
           overtaken |-> requests[r].overtaken, kept |-> requests[r].missed]]
    /\ requests' = [requests EXCEPT ![r] = Idle]
    /\ UNCHANGED <<directoryVars, now, clients, passwords, cookies, tokens>>

-----------------------------------------------------------------------------
(* token: authenticate the client, look the code up, consume it, read the user *)

\* get_oidc_client_secret_hash.  The caller holds a code that was sent out.
StartToken(r, c, k) ==
    /\ requests[r] = Idle
    /\ codes[k].state # "unused"
    /\ clients[c].status = "active"
    /\ requests' = [requests EXCEPT ![r] =
          [Idle EXCEPT !.step = "lookup", !.client = c, !.code = k, !.version = clients[c].secret]]
    /\ UNCHANGED <<directoryVars, now, clients, passwords, cookies, codes, tokens>>

\* get_active_authorization_code; the row's client, redirect URI and challenge
\* match the request
LookUpCode(r) ==
    /\ requests[r].step = "lookup"
    /\ LET k == requests[r].code IN
          /\ Pending(k) /\ codes[k].expires > now
          /\ codes[k].client = requests[r].client
          /\ requests' = [requests EXCEPT ![r].step = "consume", ![r].user = codes[k].user]
    /\ UNCHANGED <<directoryVars, now, clients, passwords, cookies, codes, tokens>>

\* fault: the row that was looked up is marked, consumed or not
ConsumeLookedUp(r) ==
    /\ requests[r].step = "consume"
    /\ LET k == requests[r].code IN
          /\ codes[k].state \in {"pending", "consumed"} /\ codes[k].expires > now
          /\ ContextIsActive(codes[k].client, codes[k].user)
          /\ codes' = [codes EXCEPT ![k].state = "consumed"]
    /\ requests' = [requests EXCEPT ![r].step = "issue"]
    /\ UNCHANGED <<directoryVars, now, clients, passwords, cookies, tokens>>

\* consume_authorization_code_for_client
ConsumeCode(r) ==
    /\ requests[r].step = "consume"
    /\ LET k == requests[r].code IN
          /\ Pending(k) /\ codes[k].expires > now
          /\ ContextIsActive(codes[k].client, codes[k].user)
          /\ codes' = [codes EXCEPT ![k] = [NoCode EXCEPT !.state = "consumed"]]
    /\ requests' = [requests EXCEPT ![r].step = "issue"]
    /\ UNCHANGED <<directoryVars, now, clients, passwords, cookies, tokens>>

\* get_user_by_id and the two signatures
IssueTokens(r) ==
    /\ requests[r].step = "issue"
    /\ users[requests[r].user] = "active"
    /\ tokens' = [tokens EXCEPT ![requests[r].code] = @ + 1]
    /\ requests' = [requests EXCEPT ![r] = Idle]
    /\ UNCHANGED <<directoryVars, now, clients, passwords, cookies, codes>>

\* a check refuses, or the peer goes away
EndRequest(r) ==
    /\ requests[r] # Idle
    /\ requests' = [requests EXCEPT ![r] = Idle]
    /\ UNCHANGED <<directoryVars, now, clients, passwords, cookies, codes, tokens>>

-----------------------------------------------------------------------------
(* Account and tenant transactions, with their effect on cookies and codes *)

\* set_user_active, update_user
SetAccountActive(u, a) ==
    /\ WriteUserActive(u, a)
    /\ cookies' = IF a THEN cookies ELSE CookiesRevoked(u)
    /\ requests' = Overtake(LoginsOf(u))
    /\ UNCHANGED <<now, clients, passwords, codes, tokens>>

\* fault: a new password leaves the browser signed in
ReplaceKeepingCookies(u) ==
    /\ users[u] # "deleted" /\ passwords[u] < MaxVersion
    /\ passwords' = [passwords EXCEPT ![u] = @ + 1]
    /\ requests' = Overtake(LoginsOf(u))
    /\ UNCHANGED <<directoryVars, now, clients, cookies, codes, tokens>>

\* reset_user_password, change_user_password, update_user, a consumed reset
ReplacePassword(u) ==
    /\ users[u] # "deleted" /\ passwords[u] < MaxVersion
    /\ passwords' = [passwords EXCEPT ![u] = @ + 1]
    /\ cookies' = CookiesRevoked(u)
    /\ requests' = Overtake(LoginsOf(u))
    /\ UNCHANGED <<directoryVars, now, clients, codes, tokens>>

\* delete_user; codes cascade from users
DeleteAccount(u) ==
    /\ DeleteUserRows(u)
    /\ cookies' = CookiesRevoked(u)
    /\ codes' = CodesWithout({k \in Codes : codes[k].user = u})
    /\ requests' = Overtake(LoginsOf(u))
    /\ UNCHANGED <<now, clients, passwords, tokens>>

\* ensure_user_principal, after the transactions above
SynchronisePrincipal(u) ==
    /\ users[u] # "deleted"
    /\ UpsertPrincipal(u, users[u] = "active")
    /\ UNCHANGED oidcVars

SetOrganizationStatus(o, st) ==
    /\ WriteOrgStatus(o, st)
    /\ codes' = IF orgs[o] = "active" /\ st # "active"
                THEN CodesWithout({k \in Codes : codes[k].client # None /\ ClientOrg[codes[k].client] = o})
                ELSE codes
    /\ requests' = IF st = "active" THEN requests ELSE Miss(InsertsFor(o))
    /\ UNCHANGED <<now, clients, passwords, cookies, tokens>>

CodesOfMember(o, u) ==
    {k \in Codes : codes[k].user = u /\ ClientOrg[codes[k].client] = o}

\* upsert_organization_membership
PutMembership(o, u, st, role) ==
    /\ PlatformPutMembership(o, u, st, role)
    /\ codes' = IF st = "active" THEN codes ELSE CodesWithout(CodesOfMember(o, u))
    /\ requests' = IF st = "active" THEN requests ELSE Miss(InsertsOfMember(o, u))
    /\ UNCHANGED <<now, clients, passwords, cookies, tokens>>

\* upsert_organization_membership_as_manager leaves the codes
PutMembershipAsManager(o, actor, u, st, role) ==
    /\ ManagerPutMembership(o, actor, u, st, role)
    /\ codes' = [k \in Codes |->
          IF st # "active" /\ Pending(k) /\ k \in CodesOfMember(o, u)
          THEN [codes[k] EXCEPT !.kept = TRUE] ELSE codes[k]]
    /\ requests' = IF st = "active" THEN requests ELSE Miss(InsertsOfMember(o, u))
    /\ UNCHANGED <<now, clients, passwords, cookies, tokens>>

AcceptInvitation(o, u) == JoinOrganization(o, u) /\ UNCHANGED oidcVars

OidcTick ==
    /\ now < MaxTime
    /\ now' = now + 1
    /\ UNCHANGED <<directoryVars, clients, passwords, cookies, codes, requests, tokens>>

-----------------------------------------------------------------------------
ClientNext ==
    \E c \in Clients :
        \/ \E grants \in SUBSET Grants \ {{}} :
              \/ CreateClient(c, grants)
              \/ \E status \in {"active", "disabled"} : UpdateClient(c, status, grants)
        \/ RotateSecret(c)

RequestNext ==
    \E r \in Slots :
        \/ \E c \in Clients :
              \/ \E u \in Users : StartLogin(r, c, u)
              \/ \E b \in Cookies : StartConsent(r, b, c)
              \/ \E k \in Codes : StartToken(r, c, k)
        \/ \E b \in Cookies : OpenBrowserSession(r, b)
        \/ \E g \in Grants : ValidateRequest(r, g)
        \/ \E k \in Codes : InsertCode(r, k)
        \/ CheckContext(r) \/ SelectContext(r) \/ LookUpCode(r) \/ ConsumeCode(r) \/ IssueTokens(r) \/ EndRequest(r)

AccountNext ==
    \E u \in Users :
        \/ \E a \in BOOLEAN : SetAccountActive(u, a)
        \/ ReplacePassword(u) \/ DeleteAccount(u) \/ SynchronisePrincipal(u)

TenantNext ==
    \E o \in Orgs :
        \/ \E st \in OrgStatusArgs : SetOrganizationStatus(o, st)
        \/ \E u \in Users :
              \/ \E st \in StatusArgs, role \in RoleArgs :
                    \/ PutMembership(o, u, st, role)
                    \/ \E actor \in Users : PutMembershipAsManager(o, actor, u, st, role)
              \/ AcceptInvitation(o, u)

OidcNext ==
    \/ ClientNext \/ RequestNext \/ AccountNext \/ TenantNext
    \/ \E b \in Cookies : Logout(b)
    \/ OidcTick

OidcSpec == OidcInit /\ [][OidcNext]_<<directoryVars, oidcVars>>

-----------------------------------------------------------------------------
(* Correctness *)

\* "Exchange one authorization code exactly once": however many token requests
\* present a code at the same time, at most one gets tokens.
CodeRedeemedOnce == \A k \in Codes : tokens[k] <= 1

\* "invalidate pending codes" when a secret is replaced: no request that proved
\* an old secret redeems a code, not even one that read the old hash before.
RedeemedWithCurrentSecret ==
    [][\A k \in Codes :
          Pending(k) /\ codes'[k].state = "consumed" =>
              \E r \in Slots :
                  /\ requests[r].step = "consume" /\ requests[r].code = k
                  /\ requests[r].client = codes[k].client
                  /\ requests[r].version = clients[codes[k].client].secret]_<<directoryVars, oidcVars>>

\* "an old code cannot survive a disabled client or a changed redirect/scope/grant
\* policy": a pending code is for something its client may ask for now, unless
\* the change overtook the request that was issuing the code.
CodesMatchRegistration ==
    \A k \in Codes :
        Pending(k) /\ ~codes[k].overtaken => Allows(codes[k].client, codes[k].grant)

\* A pending code of a tenant's client belongs to an active member of an active
\* organization, whatever was checked before its INSERT, unless a manager ended
\* the membership or the change committed while the INSERT itself was running.
PendingCodesHaveTenant ==
    \A k \in Codes : Pending(k) /\ ClientOrg[codes[k].client] # None /\ ~codes[k].kept =>
        /\ orgs[ClientOrg[codes[k].client]] = "active"
        /\ members[ClientOrg[codes[k].client]][codes[k].user].status = "active"

\* "Credential and status changes must invalidate every long-lived session":
\* an open browser session belongs to an active account and was opened with its
\* present password, unless the change overtook the login.
CookiesMatchAccount ==
    \A b \in Cookies : cookies[b].state = "open" /\ ~cookies[b].overtaken =>
        /\ users[cookies[b].user] = "active"
        /\ cookies[b].password = passwords[cookies[b].user]
=============================================================================
