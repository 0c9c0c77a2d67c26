--------------------------- MODULE AuthFlowProofs ---------------------------
(***************************************************************************)
(* The login, refresh and administration handlers implement the            *)
(* refresh-session store, for any number of concurrent requests and with   *)
(* clients disconnecting at any await.  What RefreshSessionProofs shows of *)
(* the store therefore holds while handlers interleave.                    *)
(*                                                                         *)
(* A server that runs one handler at a time keeps four promises that       *)
(* interleaved handlers break: one session per user, sessions that match   *)
(* the stored password, disabled accounts that are refused, and tokens     *)
(* that reach their clients.                                               *)
(***************************************************************************)
EXTENDS AuthFlow, RefreshSessionProofs

\* what the store sees of a handler's step
StoreSees == Next \/ UNCHANGED vars

\* The steps that leave the store alone.
LEMMA QuietSteps ==
    ASSUME NEW r,
           \/ StartSync(r) \/ SelectUser(r) \/ SelectMissingUser(r) \/ StartLogin(r)
           \/ ResolveScope(r) \/ EnforcePolicy(r) \/ CreateFails(r) \/ StartRefresh(r)
           \/ ReadPrincipal(r) \/ IssueClaims(r) \/ Cancel(r)
    PROVE  UNCHANGED vars
<1> USE DEF UnchangedStore
<1>1. CASE StartSync(r) \/ SelectUser(r) \/ SelectMissingUser(r) \/ StartLogin(r)
  BY <1>1 DEF StartSync, SelectUser, SelectMissingUser, StartLogin
<1>2. CASE ResolveScope(r) \/ EnforcePolicy(r) \/ CreateFails(r) \/ StartRefresh(r)
  BY <1>2 DEF ResolveScope, EnforcePolicy, CreateFails, StartRefresh
<1>3. CASE ReadPrincipal(r) \/ IssueClaims(r) \/ Cancel(r)
  BY <1>3 DEF ReadPrincipal, IssueClaims, Cancel
<1> QED BY <1>1, <1>2, <1>3

LEMMA StoreActions ==
    /\ \A u \in Users, c \in Clients, o \in OrgScopes, s \in SessionIds, t \in TokenIds,
          e \in Lifetime .. (now + Lifetime) : CreateRefreshSession(u, c, o, s, t, e) => Next
    /\ \A t \in TokenIds, o \in OrgScopes, new \in TokenIds : RotateRefreshSession(t, o, new) => Next
    /\ \A t \in TokenIds, o \in OrgScopes : DetectReplay(t, o) \/ RejectInactiveContext(t, o) => Next
    /\ \A s \in SessionIds : RevokeRefreshSession(s) => Next
    /\ \A t \in TokenIds, why \in {"request", "context"} : RevokeByToken(t, why) => Next
    /\ \A u \in Users : RevokePrincipalSessions(u) => Next
    /\ \A u \in Users : DisableUser(u) \/ ChangePassword(u) \/ DeleteUser(u) => Next
    /\ \A u \in Users, pw \in BOOLEAN : EnableUser(u, pw) => Next
    /\ \A u \in Users, a \in BOOLEAN : SyncPrincipal(u, a) => Next
<1>1. TokenNext \/ AccountNext => Next
  BY DEF Next
<1>2. \A t \in TokenIds, o \in OrgScopes : RejectInactiveContext(t, o) => o \in Orgs
  BY DEF RejectInactiveContext, ConsumeResult, OrgScopes
<1> QED BY <1>1, <1>2, Zenon DEF TokenNext, AccountNext

\* Every step of a handler is a transaction of the store or invisible to it.
LEMMA HandlerStep ==
    ASSUME FlowInv, NEW r \in Requests, Handler(r)
    PROVE  StoreSees
<1>1. /\ now \in Nat /\ req[r] \in Request /\ req[r].iat <= now
      /\ req[r].pc # "idle" => req[r].user \in Users
      /\ req[r].pc \in RefreshSteps => req[r].token \in TokenIds
  BY DEF FlowInv, FlowTypeOK, TypeOK, HandlersWellFormed
<1>2. req[r].iat \in Nat /\ req[r].org \in OrgScopes /\ req[r].seen \in BOOLEAN
  BY <1>1 DEF Request
<1>3. CASE UpsertSeen(r)
  BY <1>1, <1>2, <1>3, StoreActions DEF UpsertSeen, At, StoreSees
<1>4. CASE Takeover(r)
  BY <1>1, <1>4, StoreActions DEF Takeover, At, StoreSees
<1>5. CASE CreateSession(r)
  <2>1. PICK c \in Clients, s \in SessionIds, t \in TokenIds :
           CreateRefreshSession(req[r].user, c, req[r].org, s, t, req[r].iat + Lifetime)
    BY <1>5, Zenon DEF CreateSession
  <2>2. req[r].iat + Lifetime \in Lifetime .. (now + Lifetime)
    BY <1>1, <1>2, SessionAssumption
  <2>3. req[r].user \in Users
    BY <1>1, <1>5 DEF CreateSession, At
  <2> QED BY <1>2, <2>1, <2>2, <2>3, StoreActions, Zenon DEF StoreSees
<1>6. CASE RevokeOnRefresh(r)
  <2>1. req[r].token \in TokenIds
    BY <1>1, <1>6 DEF RevokeOnRefresh, At, RefreshSteps
  <2>2. RevokeByToken(req[r].token, "context") \/ UNCHANGED vars
    BY <1>6, Zenon DEF RevokeOnRefresh, UnchangedStore
  <2> QED BY <2>1, <2>2, StoreActions DEF StoreSees
<1>7. CASE RotateConsumed(r)
  <2>1. req[r].token \in TokenIds
    BY <1>1, <1>7 DEF RotateConsumed, At, RefreshSteps
  <2>2. PICK new \in TokenIds : RotateRefreshSession(req[r].token, req[r].org, new)
    BY <1>7, Zenon DEF RotateConsumed
  <2> QED BY <1>2, <2>1, <2>2, StoreActions, Zenon DEF StoreSees
<1>8. CASE RotateRefused(r)
  <2>1. req[r].token \in TokenIds
    BY <1>1, <1>8 DEF RotateRefused, At, RefreshSteps
  <2>2. \/ DetectReplay(req[r].token, req[r].org)
        \/ RejectInactiveContext(req[r].token, req[r].org)
        \/ UNCHANGED vars
    BY <1>8, Zenon DEF RotateRefused, UnchangedStore
  <2> QED BY <1>2, <2>1, <2>2, StoreActions, Zenon DEF StoreSees
<1>9. CASE UpdateUser(r)
  <2>1. \E u \in Users : DisableUser(u) \/ (\E pw \in BOOLEAN : EnableUser(u, pw)) \/ ChangePassword(u)
    BY <1>9, Zenon DEF UpdateUser
  <2> QED BY <2>1, StoreActions, Zenon DEF StoreSees
<1>10. CASE ReplacePassword(r) \/ RemoveUser(r)
  <2>1. \E u \in Users : ChangePassword(u) \/ DeleteUser(u)
    BY <1>10, Zenon DEF ReplacePassword, RemoveUser
  <2> QED BY <2>1, StoreActions, Zenon DEF StoreSees
<1>11. CASE RevokeSessions(r)
  <2>1. \/ \E s \in SessionIds : RevokeRefreshSession(s)
        \/ \E u \in Users : RevokePrincipalSessions(u)
        \/ \E t \in TokenIds : RevokeByToken(t, "request")
    BY <1>11 DEF RevokeSessions
  <2> QED BY <2>1, StoreActions DEF StoreSees
<1>12. CASE ManageTenants(r)
  BY <1>12 DEF ManageTenants, Next, StoreSees
<1> QED BY <1>3, <1>4, <1>5, <1>6, <1>7, <1>8, <1>9, <1>10, <1>11, <1>12, QuietSteps
        DEF Handler, StoreSees

-----------------------------------------------------------------------------
(* Handlers stay well formed *)

RowOK(row) ==
    /\ row \in Request
    /\ row.iat <= now
    /\ row.pc # "idle" => row.user \in Users
    /\ row.pc \in RefreshSteps => row.token \in TokenIds

LEMMA IdleRow ==
    ASSUME now \in Nat
    PROVE  RowOK(Idle)
BY DEF RowOK, Idle, Request, OrgScopes, RefreshSteps

\* A handler that moves on keeps its local variables.
LEMMA MovedRow ==
    ASSUME NEW row, RowOK(row), row.pc # "idle",
           NEW pc \in LoginSteps \cup RefreshSteps \cup SyncSteps,
           pc \in RefreshSteps => row.pc \in RefreshSteps
    PROVE  RowOK([row EXCEPT !.pc = pc])
BY DEF RowOK, Request

LEMMA HandlerRow ==
    ASSUME FlowInv, NEW r \in Requests, Handler(r)
    PROVE  \E row : RowOK(row) /\ req' = [req EXCEPT ![r] = row]
<1>1. now \in Nat /\ RowOK(req[r]) /\ RowOK(Idle) /\ req \in [Requests -> Request]
  BY IdleRow DEF FlowInv, FlowTypeOK, TypeOK, HandlersWellFormed, RowOK
<1>2. CASE Return(r)
  BY <1>1, <1>2 DEF Return
<1>3. CASE UNCHANGED req
  BY <1>1, <1>3
<1>4. ASSUME NEW pc \in LoginSteps \cup RefreshSteps \cup SyncSteps, req[r].pc # "idle",
             pc \in RefreshSteps => req[r].pc \in RefreshSteps, GoTo(r, pc)
      PROVE  \E row : RowOK(row) /\ req' = [req EXCEPT ![r] = row]
  <2>1. RowOK([req[r] EXCEPT !.pc = pc])
    BY <1>1, <1>4, MovedRow
  <2>2. req' = [req EXCEPT ![r] = [req[r] EXCEPT !.pc = pc]]
    BY <1>4 DEF GoTo
  <2> QED BY <2>1, <2>2
<1>5. CASE StartSync(r) \/ UpdateUser(r)
  <2>1. PICK u \in Users : req' = [req EXCEPT ![r] = [Idle EXCEPT !.pc = "select", !.user = u]]
    BY <1>5 DEF StartSync, UpdateUser
  <2>2. RowOK([Idle EXCEPT !.pc = "select", !.user = u])
    BY <1>1 DEF RowOK, Idle, Request, RefreshSteps, SyncSteps
  <2> QED BY <2>1, <2>2
<1>6. CASE StartLogin(r)
  <2>1. PICK u \in Users, o \in OrgScopes, force \in BOOLEAN :
           req' = [req EXCEPT ![r] =
              [pc |-> "select", user |-> u, org |-> o, force |-> force,
               verified |-> password[u], iat |-> now, seen |-> FALSE, token |-> None]]
    BY <1>6 DEF StartLogin
  <2>2. password[u] \in Nat
    BY DEF FlowInv, FlowTypeOK
  <2>3. RowOK([pc |-> "select", user |-> u, org |-> o, force |-> force,
               verified |-> password[u], iat |-> now, seen |-> FALSE, token |-> None])
    BY <1>1, <2>2 DEF RowOK, Request, RefreshSteps, SyncSteps
  <2> QED BY <2>1, <2>3
<1>7. CASE SelectUser(r)
  <2>1. req' = [req EXCEPT ![r] =
           [req[r] EXCEPT !.pc = "upsert", !.seen = users[req[r].user] = "active"]]
    BY <1>1, <1>7 DEF SelectUser
  <2>2. req[r].pc = "select"
    BY <1>7 DEF SelectUser, At
  <2>3. RowOK([req[r] EXCEPT !.pc = "upsert", !.seen = users[req[r].user] = "active"])
    BY <1>1, <2>2 DEF RowOK, Request, RefreshSteps, SyncSteps
  <2> QED BY <2>1, <2>3
<1>8. CASE StartRefresh(r)
  <2>1. PICK t \in TokenIds, pc \in {"revoke", "rotate"} :
           /\ tokens[t].state # "absent"
           /\ req' = [req EXCEPT ![r] =
                 [pc |-> pc, user |-> SessionOf(t).user, org |-> SessionOf(t).org,
                  force |-> FALSE, verified |-> None, iat |-> now, seen |-> FALSE, token |-> t]]
    BY <1>8 DEF StartRefresh
  <2>2. SessionOf(t).user \in Users /\ SessionOf(t).org \in OrgScopes
    BY <2>1 DEF FlowInv, FlowTypeOK, TypeOK, ChainInv, RowsAreWhole, SessionOf, SessionRow,
       OrgScopes
  <2>3. RowOK([pc |-> pc, user |-> SessionOf(t).user, org |-> SessionOf(t).org,
               force |-> FALSE, verified |-> None, iat |-> now, seen |-> FALSE, token |-> t])
    BY <1>1, <2>2 DEF RowOK, Request, RefreshSteps
  <2> QED BY <2>1, <2>3
<1>9. CASE RotateConsumed(r)
  <2>1. PICK new \in TokenIds :
           req' = [req EXCEPT ![r].pc = "principal", ![r].token = new]
    BY <1>9, Zenon DEF RotateConsumed
  <2>2. req' = [req EXCEPT ![r] = [req[r] EXCEPT !.pc = "principal", !.token = new]]
    BY <1>1, <2>1
  <2>3. req[r].pc = "rotate"
    BY <1>9 DEF RotateConsumed, At
  <2>4. RowOK([req[r] EXCEPT !.pc = "principal", !.token = new])
    BY <1>1, <2>3 DEF RowOK, Request, RefreshSteps
  <2> QED BY <2>2, <2>4
<1>10. CASE UpsertSeen(r) \/ ResolveScope(r) \/ EnforcePolicy(r) \/ Takeover(r)
  <2>1. req[r].pc \in {"upsert", "scope", "policy", "takeover"}
    BY <1>10 DEF UpsertSeen, ResolveScope, EnforcePolicy, Takeover, At
  <2>2. Return(r) \/ \E pc \in LoginSteps : GoTo(r, pc)
    BY <1>10 DEF UpsertSeen, ResolveScope, EnforcePolicy, Takeover, LoginSteps
  <2> QED BY <1>2, <1>4, <2>1, <2>2 DEF LoginSteps, RefreshSteps
<1>11. CASE ReadPrincipal(r)
  <2>1. req[r].pc = "principal" /\ (Return(r) \/ GoTo(r, "claims"))
    BY <1>11 DEF ReadPrincipal, At
  <2> QED BY <1>2, <1>4, <2>1 DEF RefreshSteps
<1>12. CASE \/ SelectMissingUser(r) \/ CreateSession(r) \/ CreateFails(r) \/ RevokeOnRefresh(r)
            \/ RotateRefused(r) \/ IssueClaims(r) \/ Cancel(r)
  <2>1. Return(r)
    BY <1>12, Zenon DEF SelectMissingUser, CreateSession, CreateFails, RevokeOnRefresh,
       RotateRefused, IssueClaims, Cancel
  <2> QED BY <1>2, <2>1
<1>13. CASE ReplacePassword(r) \/ RemoveUser(r) \/ RevokeSessions(r) \/ ManageTenants(r)
  <2>1. UNCHANGED req
    BY <1>13 DEF ReplacePassword, RemoveUser, RevokeSessions, ManageTenants, flowVars
  <2> QED BY <1>3, <2>1
<1> QED BY <1>5, <1>6, <1>7, <1>8, <1>9, <1>10, <1>11, <1>12, <1>13, Zenon DEF Handler

\* The history and password variables keep their types.
LEMMA HandlerTypes ==
    ASSUME FlowInv, NEW r \in Requests, Handler(r)
    PROVE  /\ password' \in [Users -> Nat]
           /\ credential' \in [SessionIds -> Nat \cup {None}]
           /\ access' \in [Users -> Nat]
           /\ delivered' \subseteq TokenIds
<1> USE DEF UnchangedCredentials, flowVars
<1>1. /\ password \in [Users -> Nat] /\ credential \in [SessionIds -> Nat \cup {None}]
      /\ access \in [Users -> Nat] /\ delivered \subseteq TokenIds
      /\ now \in Nat /\ req[r] \in Request
      /\ req[r].pc \in RefreshSteps => req[r].token \in TokenIds
  BY DEF FlowInv, FlowTypeOK, TypeOK, HandlersWellFormed
<1>2. req[r].iat \in Nat /\ req[r].verified \in Nat \cup {None}
  BY <1>1 DEF Request
<1>3. CASE UNCHANGED <<password, credential, access, delivered>>
  BY <1>1, <1>3
<1>4. ASSUME NEW u, IssueAccess(u, req[r].iat)
      PROVE  access' \in [Users -> Nat]
  <2> DEFINE exp == IF req[r].iat + AccessLifetime > access[u]
                    THEN req[r].iat + AccessLifetime ELSE access[u]
  <2>1. access' = [access EXCEPT ![u] = exp]
    BY <1>4 DEF IssueAccess
  <2>2. u \in Users => exp \in Nat
    BY <1>1, <1>2, FlowAssumption
  <2> HIDE DEF exp
  <2> QED BY <1>1, <2>1, <2>2
<1>5. CASE CreateSession(r)
  <2>1. PICK s \in SessionIds, t \in TokenIds :
           /\ credential' = [credential EXCEPT ![s] = req[r].verified]
           /\ delivered' = delivered \cup {t}
    BY <1>5, Zenon DEF CreateSession
  <2>2. IssueAccess(req[r].user, req[r].iat) /\ password' = password
    BY <1>5, Zenon DEF CreateSession
  <2> QED BY <1>1, <1>2, <1>4, <2>1, <2>2
<1>6. CASE IssueClaims(r)
  <2>1. req[r].token \in TokenIds
    BY <1>1, <1>6 DEF IssueClaims, At, RefreshSteps
  <2>2. /\ IssueAccess(req[r].user, req[r].iat) \/ access' = access
        /\ delivered' = delivered \cup {req[r].token} \/ delivered' = delivered
        /\ password' = password /\ credential' = credential
    BY <1>6 DEF IssueClaims
  <2> QED BY <1>1, <1>4, <2>1, <2>2
<1>7. CASE UpdateUser(r) \/ ReplacePassword(r)
  <2>1. /\ password' = password \/ \E u \in Users : password' = [password EXCEPT ![u] = @ + 1]
        /\ UNCHANGED <<credential, access, delivered>>
    BY <1>7 DEF UpdateUser, ReplacePassword, StorePassword
  <2> QED BY <1>1, <2>1
<1>8. CASE StartSync(r) \/ SelectUser(r) \/ SelectMissingUser(r) \/ UpsertSeen(r) \/ StartLogin(r)
  BY <1>3, <1>8 DEF StartSync, SelectUser, SelectMissingUser, UpsertSeen, StartLogin
<1>9. CASE ResolveScope(r) \/ EnforcePolicy(r) \/ Takeover(r) \/ CreateFails(r)
  BY <1>3, <1>9 DEF ResolveScope, EnforcePolicy, Takeover, CreateFails
<1>10. CASE StartRefresh(r) \/ RevokeOnRefresh(r) \/ RotateConsumed(r) \/ RotateRefused(r)
  BY <1>3, <1>10, Zenon DEF StartRefresh, RevokeOnRefresh, RotateConsumed, RotateRefused
<1>11. CASE ReadPrincipal(r) \/ Cancel(r) \/ RemoveUser(r) \/ RevokeSessions(r) \/ ManageTenants(r)
  BY <1>3, <1>11 DEF ReadPrincipal, Cancel, RemoveUser, RevokeSessions, ManageTenants
<1> QED BY <1>5, <1>6, <1>7, <1>8, <1>9, <1>10, <1>11, Zenon DEF Handler

\* FlowInv is preserved, and the step is one the store allows.
LEMMA FlowStep ==
    ASSUME FlowInv, [FlowNext]_allVars
    PROVE  FlowInv' /\ [Next]_vars
<1>1. CASE UNCHANGED allVars
  <2> USE <1>1 DEF allVars, flowVars, vars
  <2>1. [Next]_vars
    OBVIOUS
  <2>2. TypeOK' /\ ChainInv'
    BY <2>1, StoreStep DEF FlowInv, FlowTypeOK
  <2> QED BY <2>1, <2>2 DEF FlowInv, FlowTypeOK, HandlersWellFormed
<1>2. CASE Tick /\ UNCHANGED flowVars
  <2>1. [Next]_vars
    BY <1>2 DEF Next
  <2>2. TypeOK' /\ ChainInv'
    BY <2>1, StoreStep DEF FlowInv, FlowTypeOK
  <2>3. now \in Nat /\ now' = now + 1
    BY <1>2 DEF Tick, FlowInv, FlowTypeOK, TypeOK
  <2>4. HandlersWellFormed'
    <3>1. \A r \in Requests : req[r].iat \in Nat
      BY DEF FlowInv, FlowTypeOK, Request
    <3> QED BY <1>2, <2>3, <3>1 DEF FlowInv, HandlersWellFormed, flowVars
  <2> QED BY <1>2, <2>1, <2>2, <2>4 DEF FlowInv, FlowTypeOK, flowVars
<1>3. ASSUME NEW r \in Requests, Handler(r)
      PROVE  FlowInv' /\ [Next]_vars
  <2>1. [Next]_vars
    BY <1>3, HandlerStep DEF StoreSees
  <2>2. TypeOK' /\ ChainInv'
    BY <2>1, StoreStep DEF FlowInv, FlowTypeOK
  <2>3. PICK row : RowOK(row) /\ req' = [req EXCEPT ![r] = row]
    BY <1>3, HandlerRow
  <2>4. now \in Nat /\ now' \in Nat /\ now <= now'
    <3>1. TypeOK
      BY DEF FlowInv, FlowTypeOK
    <3> QED BY <2>1, <3>1, ClockStep DEF vars, TypeOK
  <2>5. req' \in [Requests -> Request]
    BY <2>3 DEF FlowInv, FlowTypeOK, RowOK
  <2>6. HandlersWellFormed'
    <3>1. \A x \in Requests : req'[x].iat \in Nat /\ req'[x].iat <= now
      BY <2>3, <2>5 DEF FlowInv, FlowTypeOK, HandlersWellFormed, RowOK, Request
    <3>2. \A x \in Requests :
            /\ req'[x].pc # "idle" => req'[x].user \in Users
            /\ req'[x].pc \in RefreshSteps => req'[x].token \in TokenIds
      BY <2>3 DEF FlowInv, FlowTypeOK, HandlersWellFormed, RowOK
    <3> QED BY <2>4, <3>1, <3>2 DEF HandlersWellFormed
  <2> QED BY <1>3, <2>1, <2>2, <2>5, <2>6, HandlerTypes DEF FlowInv, FlowTypeOK
<1> QED BY <1>1, <1>2, <1>3 DEF FlowNext

-----------------------------------------------------------------------------
\* The server starts without handlers, and with an empty store.
LEMMA FlowStarts ==
    ASSUME FlowInit
    PROVE  FlowInv
<1>1. TypeOK /\ ChainInv
  BY StoreInit DEF FlowInit
<1>2. now \in Nat
  BY <1>1 DEF TypeOK
<1>3. RowOK(Idle) /\ Idle.pc = "idle"
  BY <1>2, IdleRow DEF Idle
<1> QED BY <1>1, <1>3 DEF FlowInit, FlowInv, FlowTypeOK, HandlersWellFormed, RowOK

\* FlowInv is an inductive invariant of the composed system.
THEOREM FlowCorrect == FlowSpec => []FlowInv
<1>1. FlowInit => FlowInv
  BY FlowStarts
<1>2. FlowInv /\ [FlowNext]_allVars => FlowInv'
  BY FlowStep
<1> QED BY <1>1, <1>2, PTL DEF FlowSpec

\* The composed system's variables keep their types.
THEOREM FlowTypeCorrect == FlowSpec => []FlowTypeOK
<1>1. FlowInv => FlowTypeOK
  BY DEF FlowInv
<1> QED BY <1>1, FlowCorrect, PTL

\* However logins, refreshes and account changes interleave, and wherever a
\* dropped request stops, the store only ever takes steps of RefreshSession.
THEOREM HandlersImplementStore == FlowSpec => ImplementsStore
<1>1. FlowInit => Init
  BY DEF FlowInit
<1>2. FlowInv /\ [FlowNext]_allVars => [Next]_vars
  BY FlowStep
<1> QED BY <1>1, <1>2, FlowCorrect, PTL DEF FlowSpec, ImplementsStore

\* Hence interleaved handlers keep what the store's transactions keep: a scoped
\* session stays usable only with an active account, membership and organization,
\* although ResolveScope and StartRefresh read them in an earlier statement.
THEOREM FlowScopedContext == FlowSpec => []ScopedSessionsHaveContext
<1>1. ImplementsStore => Spec
  BY PTL DEF ImplementsStore, Spec
<1> QED BY <1>1, HandlersImplementStore, ScopedContext, PTL

\* ... and a refresh token presented by two racing requests is exchanged once.
THEOREM FlowExchangedOnce == FlowSpec => []OneSuccessor
<1>1. ImplementsStore => Spec
  BY PTL DEF ImplementsStore, Spec
<1> QED BY <1>1, HandlersImplementStore, ExchangedOnce, PTL


-----------------------------------------------------------------------------
(* One request at a time *)

\* one slot: the handlers run one after the other
Serial == \E r : Requests = {r}

\* What a handler read is still so when it uses it.
RowIsCurrent(row) ==
    /\ row.verified # None => users[row.user] = "active" /\ row.verified = password[row.user]
    /\ row.pc \in LoginSteps => row.verified # None
    /\ row.pc = "idle" => row.verified = None
    /\ row.pc = "upsert" => row.seen = (users[row.user] = "active")
    /\ row.pc = "rotate" => row.user = SessionOf(row.token).user
    /\ row.pc = "create" /\ SingleSession => \A s \in SessionIds : Live(s) => sessions[s].user # row.user

\* A usable session has an active account and was opened with its password.
LiveIsCurrent ==
    /\ AtMostOneSession
    /\ \A s \in SessionIds : Live(s) =>
          users[sessions[s].user] = "active" /\ credential[s] = password[sessions[s].user]

\* The Principal follows the account, or a handler is about to make it follow.
PrincipalsFollow(row) ==
    \A u \in Users :
        /\ (principals[u] = "active" <=> users[u] = "active") \/ (row.pc \in SyncSteps /\ row.user = u)
        /\ users[u] = "deleted" => principals[u] # "active"

\* The current token of a usable session was delivered, or a handler is about to.
Delivers(row) ==
    \A s \in SessionIds : Live(s) =>
        \/ sessions[s].current \in delivered
        \/ row.pc \in {"principal", "claims"} /\ row.token = sessions[s].current /\ row.user = sessions[s].user

\* The last two need handlers that are not dropped.
GoodRow(row) == RowIsCurrent(row) /\ (~AllowCancel => PrincipalsFollow(row) /\ Delivers(row))

SerialInv ==
    /\ FlowInv /\ LiveIsCurrent
    /\ \A r \in Requests : GoodRow(req[r])

\* The row of slot r after the step is good, and so are the usable sessions.
StepIsGood(r) == LiveIsCurrent' /\ \E row : row = req'[r] /\ GoodRow(row)'

\* What the invariant says of one slot.
LEMMA SlotFacts ==
    ASSUME SerialInv, NEW r \in Requests
    PROVE  /\ TypeOK /\ ChainInv /\ LiveIsCurrent /\ GoodRow(req[r]) /\ req[r] \in Request /\ req \in [Requests -> Request]
           /\ req[r].pc # "idle" => req[r].user \in Users
           /\ req[r].pc \in RefreshSteps => req[r].token \in TokenIds
BY DEF SerialInv, FlowInv, FlowTypeOK, HandlersWellFormed

\* A handler without a verified password, at a step that relies on nothing read.
LEMMA PlainRow ==
    ASSUME NEW row, row.verified = None, row.pc \notin LoginSteps \cup {"upsert", "rotate"}
    PROVE  RowIsCurrent(row)'
BY DEF RowIsCurrent, LoginSteps

\* An empty slot has verified nothing.
LEMMA IdleIsPlain ==
    /\ Idle.verified = None /\ Idle.pc = "idle" /\ Idle.pc \notin LoginSteps \cup RefreshSteps \cup SyncSteps
BY DEF Idle, LoginSteps, RefreshSteps, SyncSteps

\* A handler that returns leaves an empty slot.
LEMMA Returned ==
    ASSUME SerialInv, NEW r \in Requests, Return(r)
    PROVE  req'[r] = Idle
BY SlotFacts DEF Return

\* A handler that moves keeps what it read.
LEMMA WentTo ==
    ASSUME SerialInv, NEW r \in Requests, NEW pc, GoTo(r, pc)
    PROVE  \E row : /\ row = req'[r] /\ row.pc = pc /\ row.user = req[r].user /\ row.verified = req[r].verified
                    /\ row.token = req[r].token /\ row.seen = req[r].seen
<1>1. req[r] \in Request /\ req \in [Requests -> Request]
  BY SlotFacts
<1>2. req'[r] = [req[r] EXCEPT !.pc = pc]
  BY <1>1 DEF GoTo
<1>3. PICK row : row = req'[r]
  OBVIOUS
<1>4. /\ row.pc = pc /\ row.user = req[r].user /\ row.verified = req[r].verified
      /\ row.token = req[r].token /\ row.seen = req[r].seen
  BY <1>1, <1>2, <1>3 DEF Request
<1> QED BY <1>3, <1>4

-----------------------------------------------------------------------------
(* Usable sessions *)

\* Every usable session was usable, and its row is the same.
Stays == \A s \in SessionIds : Live(s)' => Live(s) /\ sessions'[s] = sessions[s]

\* ... and no session of u is usable.
Ends(u) == Stays /\ \A s \in SessionIds : Live(s)' => sessions[s].user # u

\* A revocation leaves the sessions it does not name.
LEMMA RevokedStays ==
    ASSUME TypeOK, NEW S, NEW why, sessions' = Revoked(S, why), UNCHANGED now
    PROVE  Stays
<1> SUFFICES ASSUME NEW s \in SessionIds, Live(s)'
             PROVE  Live(s) /\ sessions'[s] = sessions[s]
  BY DEF Stays
<1>1. s \notin S
  BY RevokedNotLive
<1>2. sessions'[s] = sessions[s]
  BY <1>1 DEF Revoked
<1> QED BY <1>2 DEF Live

\* Revoking the sessions of an account leaves it without a usable one.
LEMMA RevokedEnds ==
    ASSUME TypeOK, NEW u, NEW why, sessions' = Revoked(SessionsOf(u), why), UNCHANGED now
    PROVE  Ends(u)
<1>1. Stays
  BY RevokedStays
<1>2. ASSUME NEW s \in SessionIds, Live(s)'
      PROVE  sessions[s].user # u
  <2>1. s \notin SessionsOf(u)
    BY <1>2, RevokedNotLive
  <2>2. Live(s)
    BY <1>1, <1>2 DEF Stays
  <2> QED BY <2>1, <2>2 DEF SessionsOf, Stored, Live
<1> QED BY <1>1, <1>2 DEF Ends

\* Usable sessions stay current while their accounts and passwords stay.
LEMMA LiveFrame ==
    ASSUME LiveIsCurrent, UNCHANGED credential,
           \A s \in SessionIds : Live(s)' =>
               /\ Live(s) /\ sessions'[s].user = sessions[s].user
               /\ users'[sessions[s].user] = "active" /\ password'[sessions[s].user] = password[sessions[s].user]
    PROVE  LiveIsCurrent'
<1>1. AtMostOneSession'
  BY DEF LiveIsCurrent, AtMostOneSession
<1>2. \A s \in SessionIds : Live(s)' =>
          users'[sessions'[s].user] = "active" /\ credential'[s] = password'[sessions'[s].user]
  BY DEF LiveIsCurrent
<1> QED BY <1>1, <1>2 DEF LiveIsCurrent

\* The same, where neither accounts nor passwords change.
LEMMA StaysCurrent ==
    ASSUME LiveIsCurrent, Stays, UNCHANGED <<users, password, credential>>
    PROVE  LiveIsCurrent'
BY LiveFrame DEF Stays, LiveIsCurrent

\* The promises about Principals and delivered tokens, when neither accounts nor
\* Principals change and usable sessions stay.
LEMMA GoodFrame ==
    ASSUME NEW old, GoodRow(old), Stays, UNCHANGED <<users, principals>>, delivered \subseteq delivered',
           NEW row, RowIsCurrent(row)',
           old.pc \in SyncSteps => row.pc \in SyncSteps /\ row.user = old.user,
           old.pc \in {"principal", "claims"} =>
               row.pc \in {"principal", "claims"} /\ row.user = old.user /\ row.token = old.token
    PROVE  GoodRow(row)'
<1>1. ASSUME ~AllowCancel
      PROVE  PrincipalsFollow(row)'
  BY <1>1 DEF GoodRow, PrincipalsFollow
<1>2. ASSUME ~AllowCancel
      PROVE  Delivers(row)'
  <2>1. Delivers(old)
    BY <1>2 DEF GoodRow
  <2> QED BY <2>1 DEF Delivers, Stays
<1> QED BY <1>1, <1>2 DEF GoodRow

\* A step that leaves the store alone leaves its parts alone.
LEMMA NothingMoves ==
    ASSUME UNCHANGED vars
    PROVE  Stays /\ UNCHANGED <<users, principals, orgs, members, now, sessions, tokens>>
BY DEF vars, directoryVars, sessionVars, Stays, Live

\* A step that only moves the handler.
LEMMA QuietMove ==
    ASSUME SerialInv, NEW r \in Requests, UNCHANGED <<vars, password, credential>>, delivered \subseteq delivered',
           NEW row, row = req'[r], RowIsCurrent(row)',
           req[r].pc \in SyncSteps => row.pc \in SyncSteps /\ row.user = req[r].user,
           req[r].pc \in {"principal", "claims"} =>
               row.pc \in {"principal", "claims"} /\ row.user = req[r].user /\ row.token = req[r].token
    PROVE  StepIsGood(r)
<1>1. GoodRow(row)'
  BY SlotFacts, NothingMoves, GoodFrame
<1>2. LiveIsCurrent'
  BY SlotFacts, NothingMoves, StaysCurrent
<1> QED BY <1>1, <1>2 DEF StepIsGood

-----------------------------------------------------------------------------
(* Handlers that read *)

\* A handler starts from what holds now.
LEMMA StartsAreGood ==
    ASSUME SerialInv, NEW r \in Requests, StartSync(r) \/ StartLogin(r) \/ StartRefresh(r)
    PROVE  StepIsGood(r)
<1>1. UNCHANGED <<vars, password, credential, delivered>> /\ req[r].pc = "idle"
  BY DEF StartSync, StartLogin, StartRefresh, UnchangedStore, UnchangedCredentials, At
<1>2. UNCHANGED <<users, sessions, tokens>>
  BY <1>1, NothingMoves
<1>3. PICK row : row = req'[r]
  OBVIOUS
<1>4. RowIsCurrent(row)'
  <2>1. CASE StartSync(r)
    <3>1. row.pc = "select" /\ row.verified = None
      BY <1>3, <2>1, SlotFacts DEF StartSync, Idle
    <3> QED BY <3>1, PlainRow DEF LoginSteps
  <2>2. CASE StartLogin(r)
    <3>1. row.pc = "select" /\ users[row.user] = "active" /\ row.verified = password[row.user]
      BY <1>3, <2>2, SlotFacts DEF StartLogin
    <3> QED BY <1>1, <1>2, <3>1 DEF RowIsCurrent, LoginSteps
  <2>3. CASE StartRefresh(r)
    <3>1. row.pc \in {"revoke", "rotate"} /\ row.verified = None /\ row.user = SessionOf(row.token).user
      BY <1>3, <2>3, SlotFacts DEF StartRefresh
    <3> QED BY <1>2, <3>1 DEF RowIsCurrent, LoginSteps, SessionOf
  <2> QED BY <2>1, <2>2, <2>3
<1> QED BY <1>1, <1>3, <1>4, QuietMove DEF SyncSteps

\* ensure_user_principal reads the flag it will write.
LEMMA SelectUserIsGood ==
    ASSUME SerialInv, NEW r \in Requests, SelectUser(r)
    PROVE  StepIsGood(r)
<1>1. UNCHANGED <<vars, password, credential, delivered>> /\ req[r].pc = "select"
  BY DEF SelectUser, UnchangedStore, UnchangedCredentials, At
<1>2. UNCHANGED users
  BY <1>1, NothingMoves
<1>3. PICK row : row = req'[r]
  OBVIOUS
<1>4. /\ row.pc = "upsert" /\ row.user = req[r].user /\ row.verified = req[r].verified
      /\ row.seen = (users[req[r].user] = "active")
  BY <1>3, SlotFacts DEF SelectUser, Request
<1>5. RowIsCurrent(row)'
  BY <1>1, <1>2, <1>4, SlotFacts DEF RowIsCurrent, GoodRow, LoginSteps
<1> QED BY <1>1, <1>3, <1>4, <1>5, QuietMove DEF SyncSteps

\* The account is gone, and with it its Principal.
LEMMA SelectMissingUserIsGood ==
    ASSUME SerialInv, NEW r \in Requests, SelectMissingUser(r)
    PROVE  StepIsGood(r)
<1>1. UNCHANGED <<vars, password, credential, delivered>> /\ req[r].pc = "select" /\ users[req[r].user] = "deleted"
  BY DEF SelectMissingUser, UnchangedStore, UnchangedCredentials, At
<1>2. UNCHANGED <<users, principals>> /\ Stays
  BY <1>1, NothingMoves
<1>3. req'[r] = Idle
  BY Returned DEF SelectMissingUser
<1>4. RowIsCurrent(Idle)'
  BY PlainRow, IdleIsPlain
<1>5. ASSUME ~AllowCancel
      PROVE  PrincipalsFollow(Idle)' /\ Delivers(Idle)'
  <2>1. PrincipalsFollow(req[r]) /\ Delivers(req[r])
    BY <1>5, SlotFacts DEF GoodRow
  <2>2. PrincipalsFollow(Idle)'
    BY <1>1, <1>2, <2>1 DEF PrincipalsFollow
  <2>3. Delivers(Idle)'
    BY <1>1, <1>2, <2>1 DEF Delivers, Stays
  <2> QED BY <2>2, <2>3
<1>6. LiveIsCurrent'
  BY <1>1, <1>2, SlotFacts, StaysCurrent
<1> QED BY <1>3, <1>4, <1>5, <1>6 DEF StepIsGood, GoodRow

\* A login that has not yet come to its insert moves on or gives up.
LEMMA LoginMovesAreGood ==
    ASSUME SerialInv, NEW r \in Requests, ResolveScope(r) \/ EnforcePolicy(r) \/ CreateFails(r)
    PROVE  StepIsGood(r)
<1>1. UNCHANGED <<vars, password, credential, delivered>> /\ req[r].pc \in {"scope", "policy", "create"}
  BY DEF ResolveScope, EnforcePolicy, CreateFails, UnchangedStore, UnchangedCredentials, At
<1>2. UNCHANGED <<users, sessions, now>>
  BY <1>1, NothingMoves
<1>3. /\ req[r].verified # None /\ users[req[r].user] = "active" /\ req[r].verified = password[req[r].user]
      /\ req[r].pc \notin SyncSteps \cup {"principal", "claims"}
  BY <1>1, SlotFacts DEF GoodRow, RowIsCurrent, LoginSteps, SyncSteps
<1>4. CASE Return(r)
  <2>1. req'[r] = Idle /\ RowIsCurrent(Idle)'
    BY <1>4, Returned, PlainRow, IdleIsPlain
  <2> QED BY <1>1, <1>3, <2>1, QuietMove
<1>5. ASSUME NEW pc \in {"policy", "takeover", "create"}, GoTo(r, pc),
             pc = "create" /\ SingleSession => \A s \in SessionIds : Live(s) => sessions[s].user # req[r].user
      PROVE  StepIsGood(r)
  <2>1. PICK row : row = req'[r] /\ row.pc = pc /\ row.user = req[r].user /\ row.verified = req[r].verified
    BY <1>5, WentTo
  <2>2. RowIsCurrent(row)'
    BY <1>1, <1>2, <1>3, <1>5, <2>1 DEF RowIsCurrent, Live
  <2> QED BY <1>1, <1>3, <2>1, <2>2, QuietMove
<1>6. CASE ResolveScope(r) \/ CreateFails(r)
  BY <1>4, <1>5, <1>6 DEF ResolveScope, CreateFails
<1>7. CASE EnforcePolicy(r)
  <2>1. ~HasActiveSession(req[r].user) => \A s \in SessionIds : Live(s) => sessions[s].user # req[r].user
    BY DEF HasActiveSession, SessionsOf, Stored, Live
  <2> QED BY <1>4, <1>5, <1>7, <2>1 DEF EnforcePolicy
<1> QED BY <1>6, <1>7

\* A refresh ends without an answer only when its user has no usable session.
LEMMA RefreshEndsAreGood ==
    ASSUME SerialInv, NEW r \in Requests, ReadPrincipal(r) \/ IssueClaims(r)
    PROVE  StepIsGood(r)
<1>1. /\ UNCHANGED <<vars, password, credential>> /\ delivered \subseteq delivered'
      /\ req[r].pc \in {"principal", "claims"} /\ req[r].user \in Users
  <2>1. /\ UNCHANGED <<vars, password, credential>> /\ delivered \subseteq delivered'
        /\ req[r].pc \in {"principal", "claims"}
    BY DEF ReadPrincipal, IssueClaims, UnchangedStore, UnchangedCredentials, At
  <2> QED BY <2>1, SlotFacts
<1>2. UNCHANGED <<users, principals, sessions, now>> /\ Stays
  BY <1>1, NothingMoves
<1>3. CASE ReadPrincipal(r) /\ principals[req[r].user] = "active"
  <2>1. GoTo(r, "claims")
    BY <1>3 DEF ReadPrincipal
  <2>2. PICK row : /\ row = req'[r] /\ row.pc = "claims" /\ row.user = req[r].user
                   /\ row.verified = req[r].verified /\ row.token = req[r].token
    BY <2>1, WentTo
  <2>3. RowIsCurrent(row)'
    BY <1>1, <1>2, <2>2, SlotFacts DEF RowIsCurrent, GoodRow, LoginSteps
  <2> QED BY <1>1, <2>2, <2>3, QuietMove DEF SyncSteps
<1>4. ASSUME Return(r),
             ~AllowCancel => \A s \in SessionIds :
                 Live(s) /\ sessions[s].user = req[r].user => sessions[s].current # req[r].token \/ req[r].token \in delivered'
      PROVE  StepIsGood(r)
  <2>1. req'[r] = Idle /\ RowIsCurrent(Idle)'
    BY <1>4, Returned, PlainRow, IdleIsPlain
  <2>2. ASSUME ~AllowCancel
        PROVE  PrincipalsFollow(Idle)' /\ Delivers(Idle)'
    <3>1. PrincipalsFollow(req[r]) /\ Delivers(req[r])
      BY <2>2, SlotFacts DEF GoodRow
    <3>2. PrincipalsFollow(Idle)'
      BY <1>1, <1>2, <3>1 DEF PrincipalsFollow, SyncSteps
    <3>3. Delivers(Idle)'
      BY <1>1, <1>2, <1>4, <2>2, <3>1 DEF Delivers, Stays
    <3> QED BY <3>2, <3>3
  <2>3. LiveIsCurrent'
    BY <1>1, <1>2, SlotFacts, StaysCurrent
  <2> QED BY <2>1, <2>2, <2>3 DEF StepIsGood, GoodRow
<1>5. ASSUME ~AllowCancel, users[req[r].user] # "active"
      PROVE  \A s \in SessionIds : Live(s) => sessions[s].user # req[r].user
  BY <1>5, SlotFacts DEF LiveIsCurrent
<1>6. CASE ReadPrincipal(r) /\ principals[req[r].user] # "active"
  <2>1. Return(r)
    BY <1>6 DEF ReadPrincipal
  <2>2. ASSUME ~AllowCancel
        PROVE  users[req[r].user] # "active"
    <3>1. PrincipalsFollow(req[r])
      BY <2>2, SlotFacts DEF GoodRow
    <3> QED BY <1>1, <1>6, <3>1 DEF PrincipalsFollow, SyncSteps
  <2> QED BY <1>4, <1>5, <2>1, <2>2
<1>7. CASE IssueClaims(r)
  <2>1. Return(r) /\ (users[req[r].user] = "active" => req[r].token \in delivered')
    BY <1>7 DEF IssueClaims
  <2> QED BY <1>4, <1>5, <2>1
<1> QED BY <1>3, <1>6, <1>7

\* A dropped handler leaves the sessions as they are.
LEMMA CancelIsGood ==
    ASSUME SerialInv, NEW r \in Requests, Cancel(r)
    PROVE  StepIsGood(r)
<1>1. UNCHANGED <<vars, password, credential>> /\ AllowCancel
  BY DEF Cancel, UnchangedStore, UnchangedCredentials
<1>2. req'[r] = Idle /\ RowIsCurrent(Idle)'
  BY Returned, PlainRow, IdleIsPlain DEF Cancel
<1>3. LiveIsCurrent'
  BY <1>1, NothingMoves, SlotFacts, StaysCurrent
<1> QED BY <1>1, <1>2, <1>3 DEF StepIsGood, GoodRow

-----------------------------------------------------------------------------
(* Handlers that write *)

\* The Principal gets the flag the account has.
LEMMA UpsertSeenIsGood ==
    ASSUME SerialInv, NEW r \in Requests, UpsertSeen(r)
    PROVE  StepIsGood(r)
<1>1. /\ principals' = [principals EXCEPT ![req[r].user] = IF req[r].seen THEN "active" ELSE "inactive"]
      /\ UNCHANGED <<users, now, sessions, tokens, password, credential, delivered>>
      /\ req[r].pc = "upsert"
  BY DEF UpsertSeen, SyncPrincipal, UpsertPrincipal, sessionVars, UnchangedCredentials, At
<1>2. Stays
  BY <1>1 DEF Stays, Live
<1>3. req[r].user \in Users /\ req[r].seen = (users[req[r].user] = "active")
  BY <1>1, SlotFacts DEF GoodRow, RowIsCurrent
<1>4. \E row : row = req'[r] /\ RowIsCurrent(row)' /\ row.pc \notin {"principal", "claims"}
  <2>1. CASE IsLogin(r)
    <3>1. GoTo(r, "scope") /\ req[r].verified # None
      BY <2>1 DEF UpsertSeen, IsLogin
    <3>2. PICK row : row = req'[r] /\ row.pc = "scope" /\ row.user = req[r].user /\ row.verified = req[r].verified
      BY <3>1, WentTo
    <3>3. RowIsCurrent(row)'
      BY <1>1, <3>1, <3>2, SlotFacts DEF RowIsCurrent, GoodRow
    <3> QED BY <3>2, <3>3
  <2>2. CASE ~IsLogin(r)
    <3>1. req'[r] = Idle
      BY <2>2, Returned DEF UpsertSeen
    <3> QED BY <3>1, PlainRow, IdleIsPlain
  <2> QED BY <2>1, <2>2
<1>5. PICK row : row = req'[r] /\ RowIsCurrent(row)' /\ row.pc \notin {"principal", "claims"}
  BY <1>4
<1>6. ASSUME ~AllowCancel
      PROVE  PrincipalsFollow(row)' /\ Delivers(row)'
  <2>1. PrincipalsFollow(req[r]) /\ Delivers(req[r])
    BY <1>6, SlotFacts DEF GoodRow
  <2>2. principals \in [Users -> PrincipalStates]
    BY SlotFacts DEF TypeOK, DirectoryTypeOK
  <2>3. principals'[req[r].user] = "active" <=> users[req[r].user] = "active"
    BY <1>1, <1>3, <2>2
  <2>4. \A u \in Users \ {req[r].user} : principals'[u] = principals[u]
    BY <1>1, <2>2
  <2>5. PrincipalsFollow(row)'
    BY <1>1, <2>1, <2>3, <2>4 DEF PrincipalsFollow
  <2>6. Delivers(row)'
    BY <1>1, <1>2, <2>1 DEF Delivers, Stays
  <2> QED BY <2>5, <2>6
<1>7. LiveIsCurrent'
  BY <1>1, <1>2, SlotFacts, StaysCurrent
<1> QED BY <1>5, <1>6, <1>7 DEF StepIsGood, GoodRow

\* The user's sessions are ended before the new one is opened.
LEMMA TakeoverIsGood ==
    ASSUME SerialInv, NEW r \in Requests, Takeover(r)
    PROVE  StepIsGood(r)
<1>1. /\ sessions' = Revoked(SessionsOf(req[r].user), "request") /\ GoTo(r, "create") /\ req[r].pc = "takeover"
      /\ UNCHANGED <<users, principals, now, tokens, password, credential, delivered>>
  BY DEF Takeover, RevokePrincipalSessions, directoryVars, UnchangedCredentials, At
<1>2. Ends(req[r].user)
  BY <1>1, SlotFacts, RevokedEnds
<1>3. PICK row : row = req'[r] /\ row.pc = "create" /\ row.user = req[r].user /\ row.verified = req[r].verified
  BY <1>1, WentTo
<1>4. RowIsCurrent(row)'
  <2>1. req[r].verified # None /\ users[req[r].user] = "active" /\ req[r].verified = password[req[r].user]
    BY <1>1, SlotFacts DEF GoodRow, RowIsCurrent, LoginSteps
  <2>2. \A s \in SessionIds : Live(s)' => sessions'[s].user # row.user
    BY <1>2, <1>3 DEF Ends, Stays
  <2> QED BY <1>1, <1>3, <2>1, <2>2 DEF RowIsCurrent
<1>5. GoodRow(row)'
  BY <1>1, <1>2, <1>4, SlotFacts, GoodFrame DEF Ends, SyncSteps
<1>6. LiveIsCurrent'
  BY <1>1, <1>2, SlotFacts, StaysCurrent DEF Ends
<1> QED BY <1>3, <1>5, <1>6 DEF StepIsGood

\* The new session has the present password of an active account, is the only one
\* where there may be one, and its token is in the answer.
LEMMA CreateSessionIsGood ==
    ASSUME SerialInv, NEW r \in Requests, CreateSession(r)
    PROVE  StepIsGood(r)
<1>1. PICK c \in Clients, n \in SessionIds, t \in TokenIds :
         /\ CreateRefreshSession(req[r].user, c, req[r].org, n, t, req[r].iat + Lifetime)
         /\ credential' = [credential EXCEPT ![n] = req[r].verified]
         /\ delivered' = delivered \cup {t}
  BY Zenon DEF CreateSession
<1>2. req[r].pc = "create" /\ Return(r) /\ UNCHANGED password
  BY DEF CreateSession, At
<1>3. UNCHANGED <<users, principals, now>>
  BY <1>1 DEF CreateRefreshSession, directoryVars
<1>4. /\ sessions'[n].user = req[r].user /\ sessions'[n].current = t
      /\ \A s \in SessionIds \ {n} : sessions'[s] = sessions[s]
  BY <1>1, SlotFacts DEF CreateRefreshSession, TypeOK
<1>5. /\ users[req[r].user] = "active" /\ req[r].verified = password[req[r].user]
      /\ SingleSession => \A s \in SessionIds : Live(s) => sessions[s].user # req[r].user
  BY <1>2, SlotFacts DEF GoodRow, RowIsCurrent, LoginSteps
<1>6. \A s \in SessionIds \ {n} : Live(s)' => Live(s)
  BY <1>3, <1>4 DEF Live
<1>7. LiveIsCurrent'
  <2>1. credential \in [SessionIds -> Nat \cup {None}]
    BY DEF SerialInv, FlowInv, FlowTypeOK
  <2>2. credential'[n] = req[r].verified /\ \A s \in SessionIds \ {n} : credential'[s] = credential[s]
    BY <1>1, <2>1
  <2>3. \A s \in SessionIds : Live(s)' =>
            users'[sessions'[s].user] = "active" /\ credential'[s] = password'[sessions'[s].user]
    BY <1>2, <1>3, <1>4, <1>5, <1>6, <2>2, SlotFacts DEF LiveIsCurrent
  <2>4. AtMostOneSession'
    BY <1>4, <1>5, <1>6, SlotFacts DEF LiveIsCurrent, AtMostOneSession
  <2> QED BY <2>3, <2>4 DEF LiveIsCurrent
<1>8. req'[r] = Idle /\ RowIsCurrent(Idle)'
  BY <1>2, Returned, PlainRow, IdleIsPlain
<1>9. ASSUME ~AllowCancel
      PROVE  PrincipalsFollow(Idle)' /\ Delivers(Idle)'
  <2>1. PrincipalsFollow(req[r]) /\ Delivers(req[r])
    BY <1>9, SlotFacts DEF GoodRow
  <2>2. PrincipalsFollow(Idle)'
    BY <1>2, <1>3, <2>1 DEF PrincipalsFollow, SyncSteps
  <2>3. Delivers(Idle)'
    BY <1>1, <1>2, <1>4, <1>6, <2>1 DEF Delivers
  <2> QED BY <2>2, <2>3
<1> QED BY <1>7, <1>8, <1>9 DEF StepIsGood, GoodRow

\* Sessions are ended and the request is over, or was not begun.
LEMMA RevocationsAreGood ==
    ASSUME SerialInv, NEW r \in Requests, UNCHANGED <<users, principals, password, credential, delivered>>, Stays,
           req[r].pc \in {"idle", "revoke", "rotate"}, req'[r] = Idle \/ (req[r].pc = "idle" /\ req'[r] = req[r])
    PROVE  StepIsGood(r)
<1>1. PICK row : row = req'[r]
  OBVIOUS
<1>2. row.verified = None /\ row.pc = "idle"
  BY <1>1, SlotFacts, IdleIsPlain DEF GoodRow, RowIsCurrent
<1>3. RowIsCurrent(row)'
  BY <1>2, PlainRow DEF LoginSteps
<1>4. GoodRow(row)'
  BY <1>3, SlotFacts, GoodFrame DEF SyncSteps
<1>5. LiveIsCurrent'
  BY SlotFacts, StaysCurrent
<1> QED BY <1>1, <1>4, <1>5 DEF StepIsGood

\* A refused refresh.
LEMMA RefusalsAreGood ==
    ASSUME SerialInv, NEW r \in Requests, RevokeOnRefresh(r) \/ RotateRefused(r)
    PROVE  StepIsGood(r)
<1>1. req'[r] = Idle /\ req[r].pc \in {"revoke", "rotate"} /\ UNCHANGED <<password, credential, delivered>>
  <2>1. Return(r) /\ req[r].pc \in {"revoke", "rotate"} /\ UNCHANGED <<password, credential, delivered>>
    BY Zenon DEF RevokeOnRefresh, RotateRefused, UnchangedCredentials, At
  <2> QED BY <2>1, Returned
<1>2. \/ \E S, why : sessions' = Revoked(S, why) /\ UNCHANGED <<directoryVars, now>>
      \/ UNCHANGED vars
  BY DEF RevokeOnRefresh, RotateRefused, UnchangedStore, RevokeByToken, DetectReplay, RejectInactiveContext
<1>3. Stays /\ UNCHANGED <<users, principals>>
  BY <1>2, SlotFacts, RevokedStays, NothingMoves DEF directoryVars
<1> QED BY <1>1, <1>3, RevocationsAreGood

\* Logouts.
LEMMA RevokeSessionsIsGood ==
    ASSUME SerialInv, NEW r \in Requests, RevokeSessions(r)
    PROVE  StepIsGood(r)
<1>1. req[r].pc = "idle" /\ UNCHANGED <<req, password, credential, delivered>>
  BY DEF RevokeSessions, flowVars, At
<1>2. \E S, why : sessions' = Revoked(S, why) /\ UNCHANGED <<directoryVars, now>>
  BY DEF RevokeSessions, RevokeRefreshSession, RevokePrincipalSessions, RevokeByToken
<1>3. Stays /\ UNCHANGED <<users, principals>>
  BY <1>2, SlotFacts, RevokedStays DEF directoryVars
<1> QED BY <1>1, <1>3, RevocationsAreGood

\* Organization and membership writes only revoke.
LEMMA ManageTenantsIsGood ==
    ASSUME SerialInv, NEW r \in Requests, ManageTenants(r)
    PROVE  StepIsGood(r)
<1>1. req[r].pc = "idle" /\ UNCHANGED <<req, password, credential, delivered>> /\ TenantNext
  BY DEF ManageTenants, flowVars, At
<1>2. UNCHANGED <<users, principals, now>> /\ ((\E S, why : sessions' = Revoked(S, why)) \/ UNCHANGED sessions)
  <2>1. ASSUME NEW o, NEW st, SetOrganizationStatus(o, st)
        PROVE  UNCHANGED <<users, principals, now>> /\ ((\E S, why : sessions' = Revoked(S, why)) \/ UNCHANGED sessions)
    BY <2>1 DEF SetOrganizationStatus, WriteOrgStatus
  <2>2. ASSUME NEW o, NEW u, NEW st, NEW role,
               UpsertMembership(o, u, st, role) \/ \E actor \in Users : UpsertMembershipAsManager(o, actor, u, st, role)
        PROVE  UNCHANGED <<users, principals, now>> /\ ((\E S, why : sessions' = Revoked(S, why)) \/ UNCHANGED sessions)
    BY <2>2 DEF UpsertMembership, UpsertMembershipAsManager, RevokeForMembership, PlatformPutMembership, ManagerPutMembership
  <2>3. ASSUME NEW o, NEW u, JoinMembership(o, u)
        PROVE  UNCHANGED <<users, principals, now>> /\ ((\E S, why : sessions' = Revoked(S, why)) \/ UNCHANGED sessions)
    BY <2>3 DEF JoinMembership, JoinOrganization, sessionVars
  <2> QED BY <1>1, <2>1, <2>2, <2>3, Zenon DEF TenantNext
<1>3. Stays
  <2>1. CASE UNCHANGED sessions
    BY <1>2, <2>1 DEF Stays, Live
  <2> QED BY <1>2, <2>1, SlotFacts, RevokedStays
<1> QED BY <1>1, <1>2, <1>3, RevocationsAreGood

\* The session of the token is the caller's, and the caller holds its new token.
LEMMA RotateConsumedIsGood ==
    ASSUME SerialInv, NEW r \in Requests, RotateConsumed(r)
    PROVE  StepIsGood(r)
<1>1. PICK new \in TokenIds : /\ RotateRefreshSession(req[r].token, req[r].org, new)
                              /\ req' = [req EXCEPT ![r].pc = "principal", ![r].token = new]
  BY Zenon DEF RotateConsumed
<1>2. req[r].pc = "rotate" /\ UNCHANGED <<password, credential, delivered>> /\ req[r].token \in TokenIds
  <2>1. req[r].pc = "rotate" /\ UNCHANGED <<password, credential, delivered>>
    BY DEF RotateConsumed, At, UnchangedCredentials
  <2> QED BY <2>1, SlotFacts DEF RefreshSteps
<1>3. req[r].org \in OrgScopes
  BY SlotFacts DEF Request
<1>4. RotateShape
  BY <1>1, <1>2, <1>3 DEF RotateShape
<1>5. PICK n : n = tokens[req[r].token].session
  OBVIOUS
<1>6. /\ UNCHANGED <<users, principals, now>> /\ sessions' = [sessions EXCEPT ![n].current = new]
      /\ tokens[req[r].token].state # "absent"
  BY <1>1, <1>5 DEF RotateRefreshSession, directoryVars, ConsumeResult
<1>7. n \in SessionIds
  BY <1>2, <1>5, <1>6, SlotFacts DEF ChainInv, RowsAreWhole
<1>8. /\ sessions'[n].current = new /\ sessions'[n].user = sessions[n].user
      /\ \A s \in SessionIds \ {n} : sessions'[s] = sessions[s]
  BY <1>6, <1>7, SlotFacts DEF TypeOK, SessionRow
<1>9. LiveShrinks
  BY <1>4, SlotFacts, ShapesShrinkLive
<1>10. LiveIsCurrent'
  BY <1>2, <1>6, <1>9, SlotFacts, LiveFrame DEF LiveShrinks, LiveIsCurrent
<1>11. PICK row : row = req'[r]
  OBVIOUS
<1>12. row.pc = "principal" /\ row.token = new /\ row.user = req[r].user /\ row.verified = req[r].verified
  BY <1>1, <1>11, SlotFacts DEF Request
<1>13. RowIsCurrent(row)'
  BY <1>2, <1>6, <1>12, SlotFacts DEF GoodRow, RowIsCurrent, LoginSteps
<1>14. req[r].user = sessions[n].user
  BY <1>2, <1>5, SlotFacts DEF GoodRow, RowIsCurrent, SessionOf
<1>15. ASSUME ~AllowCancel
       PROVE  PrincipalsFollow(row)' /\ Delivers(row)'
  <2>1. PrincipalsFollow(req[r]) /\ Delivers(req[r])
    BY <1>15, SlotFacts DEF GoodRow
  <2>2. PrincipalsFollow(row)'
    BY <1>2, <1>6, <2>1 DEF PrincipalsFollow, SyncSteps
  <2>3. \A s \in SessionIds : Live(s)' =>
            \/ sessions'[s].current \in delivered'
            \/ row.pc \in {"principal", "claims"} /\ row.token = sessions'[s].current /\ row.user = sessions'[s].user
    BY <1>2, <1>8, <1>9, <1>12, <1>14, <2>1 DEF Delivers, LiveShrinks
  <2> QED BY <2>2, <2>3 DEF Delivers
<1> QED BY <1>10, <1>11, <1>13, <1>15 DEF StepIsGood, GoodRow

-----------------------------------------------------------------------------
(* Handlers that write an account *)

\* Only the account u and its password are written, and its sessions have ended,
\* or the account is active and keeps its password.
LEMMA AccountLive ==
    ASSUME SerialInv, NEW r \in Requests, NEW u \in Users, UNCHANGED credential,
           \A v \in Users \ {u} : users'[v] = users[v] /\ password'[v] = password[v],
           Ends(u) \/ (Stays /\ users'[u] = "active" /\ password'[u] = password[u])
    PROVE  LiveIsCurrent' /\ Stays
<1>1. Stays
  BY DEF Ends
<1>2. ASSUME NEW s \in SessionIds, Live(s)'
      PROVE  /\ Live(s) /\ sessions'[s].user = sessions[s].user
             /\ users'[sessions[s].user] = "active" /\ password'[sessions[s].user] = password[sessions[s].user]
  <2>1. Live(s) /\ sessions'[s] = sessions[s]
    BY <1>1, <1>2 DEF Stays
  <2>2. sessions[s].user \in Users /\ users[sessions[s].user] = "active"
    BY <2>1, SlotFacts DEF LiveIsCurrent, ChainInv, RowsAreWhole, Live
  <2> QED BY <1>2, <2>1, <2>2 DEF Ends
<1> QED BY <1>1, <1>2, SlotFacts, LiveFrame

\* The flag of one account is written; its Principal is left to the sync that follows.
LEMMA WroteUser ==
    ASSUME SerialInv, NEW r \in Requests, NEW u \in Users, NEW a \in BOOLEAN, WriteUserActive(u, a)
    PROVE  /\ users[u] # "deleted" /\ users'[u] = (IF a THEN "active" ELSE "disabled")
           /\ \A v \in Users \ {u} : users'[v] = users[v]
           /\ UNCHANGED principals
BY SlotFacts DEF WriteUserActive, TypeOK, DirectoryTypeOK

\* One password is replaced.
LEMMA StoredPassword ==
    ASSUME SerialInv, NEW u \in Users, StorePassword(u)
    PROVE  \A v \in Users \ {u} : password'[v] = password[v]
BY DEF StorePassword, SerialInv, FlowInv, FlowTypeOK

\* The status or the password of the account u, with what it does to the sessions.
LEMMA UpdateShape ==
    ASSUME SerialInv, NEW r \in Requests, NEW u \in Users,
           \/ (DisableUser(u) \/ EnableUser(u, FALSE)) /\ UNCHANGED password
           \/ (DisableUser(u) \/ EnableUser(u, TRUE) \/ ChangePassword(u)) /\ StorePassword(u)
    PROVE  /\ users'[u] # "deleted" /\ UNCHANGED <<now, principals>>
           /\ \A v \in Users \ {u} : users'[v] = users[v] /\ password'[v] = password[v]
           /\ Ends(u) \/ (Stays /\ users'[u] = "active" /\ password'[u] = password[u])
<1>1. \A v \in Users \ {u} : password'[v] = password[v]
  BY StoredPassword
<1>2. CASE DisableUser(u)
  <2>1. WriteUserActive(u, FALSE) /\ sessions' = Revoked(SessionsOf(u), "lifecycle") /\ UNCHANGED now
    BY <1>2 DEF DisableUser
  <2> QED BY <1>1, <2>1, WroteUser, SlotFacts, RevokedEnds
<1>3. CASE EnableUser(u, FALSE) /\ UNCHANGED password
  <2>1. WriteUserActive(u, TRUE) /\ UNCHANGED <<sessions, now>>
    BY <1>3 DEF EnableUser
  <2>2. Stays
    BY <2>1 DEF Stays, Live
  <2> QED BY <1>1, <1>3, <2>1, <2>2, WroteUser
<1>4. CASE EnableUser(u, TRUE)
  <2>1. WriteUserActive(u, TRUE) /\ sessions' = Revoked(SessionsOf(u), "lifecycle") /\ UNCHANGED now
    BY <1>4 DEF EnableUser
  <2> QED BY <1>1, <2>1, WroteUser, SlotFacts, RevokedEnds
<1>5. CASE ChangePassword(u)
  <2>1. users[u] # "deleted" /\ sessions' = Revoked(SessionsOf(u), "lifecycle") /\ UNCHANGED <<users, principals, now>>
    BY <1>5 DEF ChangePassword, directoryVars
  <2> QED BY <1>1, <2>1, SlotFacts, RevokedEnds
<1> QED BY <1>2, <1>3, <1>4, <1>5

\* The sync that update_user runs is now under way.
LEMMA UpdateUserIsGood ==
    ASSUME SerialInv, NEW r \in Requests, UpdateUser(r)
    PROVE  StepIsGood(r)
<1>1. PICK u \in Users :
         /\ \/ (DisableUser(u) \/ EnableUser(u, FALSE)) /\ UNCHANGED password
            \/ (DisableUser(u) \/ EnableUser(u, TRUE) \/ ChangePassword(u)) /\ StorePassword(u)
         /\ req' = [req EXCEPT ![r] = [Idle EXCEPT !.pc = "select", !.user = u]]
  BY Zenon DEF UpdateUser
<1>2. req[r].pc = "idle" /\ UNCHANGED <<credential, delivered>>
  BY DEF UpdateUser, At
<1>3. /\ users'[u] # "deleted" /\ UNCHANGED <<now, principals>>
      /\ \A v \in Users \ {u} : users'[v] = users[v] /\ password'[v] = password[v]
      /\ Ends(u) \/ (Stays /\ users'[u] = "active" /\ password'[u] = password[u])
  BY <1>1, UpdateShape
<1>4. LiveIsCurrent' /\ Stays
  BY <1>2, <1>3, AccountLive
<1>5. PICK row : row = req'[r]
  OBVIOUS
<1>6. row.pc = "select" /\ row.user = u /\ row.verified = None
  BY <1>1, <1>5, SlotFacts DEF Idle
<1>7. RowIsCurrent(row)'
  BY <1>6, PlainRow DEF LoginSteps
<1>8. ASSUME ~AllowCancel
      PROVE  PrincipalsFollow(row)' /\ Delivers(row)'
  <2>1. PrincipalsFollow(req[r]) /\ Delivers(req[r])
    BY <1>8, SlotFacts DEF GoodRow
  <2>2. PrincipalsFollow(row)'
    BY <1>2, <1>3, <1>6, <2>1 DEF PrincipalsFollow, SyncSteps
  <2>3. Delivers(row)'
    BY <1>2, <1>4, <2>1 DEF Delivers, Stays
  <2> QED BY <2>2, <2>3
<1> QED BY <1>4, <1>5, <1>7, <1>8 DEF StepIsGood, GoodRow

\* An idle slot stays idle while an account or the clock moves.
LEMMA IdleStays ==
    ASSUME SerialInv, NEW r \in Requests, req[r].pc = "idle", UNCHANGED <<req, delivered>>,
           LiveIsCurrent', Stays,
           \A v \in Users : \/ users'[v] = users[v] /\ principals'[v] = principals[v]
                            \/ users'[v] = "deleted" /\ principals'[v] = "absent"
    PROVE  StepIsGood(r)
<1>1. PICK row : row = req[r] /\ row = req'[r]
  OBVIOUS
<1>2. row.pc = "idle" /\ row.verified = None
  BY <1>1, SlotFacts DEF GoodRow, RowIsCurrent
<1>3. RowIsCurrent(row)'
  BY <1>2, PlainRow DEF LoginSteps
<1>4. ASSUME ~AllowCancel
      PROVE  PrincipalsFollow(row)' /\ Delivers(row)'
  <2>1. PrincipalsFollow(row) /\ Delivers(row)
    BY <1>1, <1>4, SlotFacts DEF GoodRow
  <2>2. PrincipalsFollow(row)'
    BY <1>2, <2>1 DEF PrincipalsFollow, SyncSteps
  <2>3. Delivers(row)'
    BY <1>2, <2>1 DEF Delivers, Stays
  <2> QED BY <2>2, <2>3
<1> QED BY <1>1, <1>3, <1>4 DEF StepIsGood, GoodRow

\* A password is replaced and its sessions end in one transaction.
LEMMA ReplacePasswordIsGood ==
    ASSUME SerialInv, NEW r \in Requests, ReplacePassword(r)
    PROVE  StepIsGood(r)
<1>1. PICK u \in Users : ChangePassword(u) /\ StorePassword(u)
  BY DEF ReplacePassword
<1>2. req[r].pc = "idle" /\ UNCHANGED <<req, credential, delivered>>
  BY DEF ReplacePassword, At
<1>3. UNCHANGED <<users, principals>>
  BY <1>1 DEF ChangePassword, directoryVars
<1>4. LiveIsCurrent' /\ Stays
  BY <1>1, <1>2, UpdateShape, AccountLive
<1> QED BY <1>2, <1>3, <1>4, IdleStays

\* The sessions of a deleted account are gone with it.
LEMMA RemoveUserIsGood ==
    ASSUME SerialInv, NEW r \in Requests, RemoveUser(r)
    PROVE  StepIsGood(r)
<1>1. PICK u \in Users : DeleteUser(u)
  BY DEF RemoveUser
<1>2. req[r].pc = "idle" /\ UNCHANGED <<req, password, credential, delivered>>
  BY DEF RemoveUser, At, flowVars
<1>3. /\ users'[u] = "deleted" /\ principals'[u] = "absent"
      /\ \A v \in Users \ {u} : users'[v] = users[v] /\ principals'[v] = principals[v]
  BY <1>1, SlotFacts DEF DeleteUser, DeleteUserRows, TypeOK, DirectoryTypeOK
<1>4. Ends(u)
  <2>1. \A s \in SessionIds : IF s \in SessionsOf(u) THEN sessions'[s].state = "deleted" ELSE sessions'[s] = sessions[s]
    BY <1>1, SlotFacts DEF DeleteUser, TypeOK, SessionRow
  <2>2. UNCHANGED now
    BY <1>1 DEF DeleteUser
  <2>3. \A s \in SessionIds : Live(s)' => s \notin SessionsOf(u) /\ sessions'[s] = sessions[s] /\ Live(s)
    BY <2>1, <2>2 DEF Live
  <2>4. \A s \in SessionIds : s \notin SessionsOf(u) /\ Live(s) => sessions[s].user # u
    BY DEF SessionsOf, Live, Stored
  <2> QED BY <2>3, <2>4 DEF Ends, Stays
<1>5. LiveIsCurrent' /\ Stays
  BY <1>2, <1>3, <1>4, AccountLive
<1> QED BY <1>2, <1>3, <1>5, IdleStays

\* The clock only ends sessions.
LEMMA TickIsGood ==
    ASSUME SerialInv, NEW r \in Requests, Tick, UNCHANGED flowVars
    PROVE  StepIsGood(r)
<1>1. now \in Nat /\ now' = now + 1 /\ UNCHANGED <<users, principals, sessions, tokens>>
  BY SlotFacts DEF Tick, TypeOK, directoryVars, sessionVars
<1>2. UNCHANGED <<req, password, credential, delivered>>
  BY DEF flowVars
<1>3. Stays
  <2>1. \A s \in SessionIds : sessions[s].expires \in Nat
    BY SlotFacts DEF TypeOK, SessionRow
  <2> QED BY <1>1, <2>1 DEF Stays, Live
<1>4. PICK row : row = req[r] /\ row = req'[r]
  BY <1>2
<1>5. RowIsCurrent(row)'
  <2>1. RowIsCurrent(row)
    BY <1>4, SlotFacts DEF GoodRow
  <2> QED BY <1>1, <1>2, <1>3, <2>1 DEF RowIsCurrent, Stays, SessionOf
<1>6. GoodRow(row)'
  BY <1>1, <1>2, <1>3, <1>4, <1>5, SlotFacts, GoodFrame
<1>7. LiveIsCurrent'
  BY <1>1, <1>2, <1>3, SlotFacts, StaysCurrent
<1> QED BY <1>4, <1>6, <1>7 DEF StepIsGood

-----------------------------------------------------------------------------
(* The serial server *)

\* Every step of the serial server keeps the invariant.
LEMMA SerialStep ==
    ASSUME Serial, SerialInv, [FlowNext]_allVars
    PROVE  SerialInv'
<1>1. FlowInv'
  BY FlowStep DEF SerialInv
<1>2. PICK r : Requests = {r}
  BY DEF Serial
<1>3. r \in Requests
  BY <1>2
<1>4. CASE UNCHANGED allVars
  <2>1. UNCHANGED <<vars, req, password, credential, delivered>>
    BY <1>4 DEF allVars, flowVars
  <2>2. UNCHANGED <<users, principals, sessions, tokens, now>> /\ Stays
    BY <2>1, NothingMoves
  <2>3. PICK row : row = req[r] /\ row = req'[r]
    BY <2>1
  <2>4. RowIsCurrent(row)'
    BY <1>3, <2>1, <2>2, <2>3, SlotFacts DEF GoodRow, RowIsCurrent, Live, SessionOf
  <2>5. StepIsGood(r)
    BY <1>3, <2>1, <2>3, <2>4, QuietMove
  <2> QED BY <1>1, <1>2, <2>5 DEF SerialInv, StepIsGood
<1>5. CASE FlowNext
  <2>1. ASSUME Handler(r)
        PROVE  StepIsGood(r)
    BY <1>3, <2>1, StartsAreGood, SelectUserIsGood, SelectMissingUserIsGood, LoginMovesAreGood, RefreshEndsAreGood,
       CancelIsGood, UpsertSeenIsGood, TakeoverIsGood, CreateSessionIsGood, RefusalsAreGood, RevokeSessionsIsGood,
       ManageTenantsIsGood, RotateConsumedIsGood, UpdateUserIsGood, ReplacePasswordIsGood, RemoveUserIsGood, Zenon
    DEF Handler
  <2>2. StepIsGood(r)
    BY <1>2, <1>3, <1>5, <2>1, TickIsGood DEF FlowNext
  <2> QED BY <1>1, <1>2, <2>2 DEF SerialInv, StepIsGood
<1> QED BY <1>4, <1>5

\* The invariant holds before the first request.
LEMMA SerialStart ==
    ASSUME FlowInit
    PROVE  SerialInv
<1>1. FlowInv
  BY FlowStarts
<1>2. /\ \A s \in SessionIds : ~Live(s)
      /\ \A u \in Users : (principals[u] = "active" <=> users[u] = "active") /\ users[u] # "deleted"
  BY DEF FlowInit, Init, DirectoryInit, NoSession, Live
<1>3. LiveIsCurrent
  BY <1>2 DEF LiveIsCurrent, AtMostOneSession
<1>4. ASSUME NEW r \in Requests
      PROVE  GoodRow(req[r])
  <2>1. req[r] = Idle
    BY DEF FlowInit
  <2>2. RowIsCurrent(Idle)
    BY IdleIsPlain DEF RowIsCurrent
  <2>3. PrincipalsFollow(Idle) /\ Delivers(Idle)
    BY <1>2 DEF PrincipalsFollow, Delivers
  <2> QED BY <2>1, <2>2, <2>3 DEF GoodRow
<1> QED BY <1>1, <1>3, <1>4 DEF SerialInv

\* One handler at a time: what it read stays true until it has written.
THEOREM SerialCorrect ==
    ASSUME Serial
    PROVE  FlowSpec => []SerialInv
<1>1. FlowInit => SerialInv
  BY SerialStart
<1>2. SerialInv /\ [FlowNext]_allVars => SerialInv'
  BY SerialStep
<1> QED BY <1>1, <1>2, PTL DEF FlowSpec

\* With one handler at a time, single_user_session means one usable session per
\* user, whether or not handlers are dropped (enforce_refresh_session_policy).
THEOREM SerialPolicy ==
    ASSUME Serial
    PROVE  FlowSpec => []AtMostOneSession
<1>1. SerialInv => AtMostOneSession
  BY DEF SerialInv, LiveIsCurrent
<1> QED BY <1>1, SerialCorrect, PTL

\* With one handler at a time, every usable session was opened with the password
\* now stored: a login cannot outlive the password change it raced with.
THEOREM SerialPasswords ==
    ASSUME Serial
    PROVE  FlowSpec => []SessionsMatchPassword
<1>1. SerialInv => SessionsMatchPassword
  BY DEF SerialInv, LiveIsCurrent, SessionsMatchPassword
<1> QED BY <1>1, SerialCorrect, PTL

\* With one handler at a time and none dropped, a disabled or deleted account is
\* refused as soon as the handlers working on it have returned (auth_middleware).
THEOREM SerialLockOut ==
    ASSUME Serial, ~AllowCancel
    PROVE  FlowSpec => []DisabledUserIsLockedOut
<1>1. SerialInv => DisabledUserIsLockedOut
  <2> SUFFICES ASSUME SerialInv, NEW u \in Users, users[u] # "active", Quiet(u)
               PROVE  principals[u] # "active"
    BY DEF DisabledUserIsLockedOut, Admitted
  <2>1. PICK r \in Requests : TRUE
    BY DEF Serial
  <2>2. PrincipalsFollow(req[r]) /\ req[r].user # u
    BY <2>1, SlotFacts DEF GoodRow, Quiet
  <2> QED BY <2>2 DEF PrincipalsFollow
<1> QED BY <1>1, SerialCorrect, PTL

\* With one handler at a time and none dropped, the current token of every usable
\* session reached its client (auth_token, auth_refresh).
THEOREM SerialDelivery ==
    ASSUME Serial, ~AllowCancel
    PROVE  FlowSpec => []NoStrandedSession
<1>1. SerialInv => NoStrandedSession
  <2> SUFFICES ASSUME SerialInv, NEW s \in SessionIds, Live(s), Quiet(sessions[s].user)
               PROVE  sessions[s].current \in delivered
    BY DEF NoStrandedSession
  <2>1. PICK r \in Requests : TRUE
    BY DEF Serial
  <2>2. Delivers(req[r]) /\ req[r].user # sessions[s].user
    BY <2>1, SlotFacts DEF GoodRow, Quiet
  <2> QED BY <2>2 DEF Delivers
<1> QED BY <1>1, SerialCorrect, PTL
=============================================================================
