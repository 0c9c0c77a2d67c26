------------------------ MODULE RefreshSessionProofs ------------------------
(***************************************************************************)
(* Proofs about the refresh-session store, for every set of users,         *)
(* organizations, clients, sessions and tokens and for every lifetime.     *)
(*                                                                         *)
(* The store's many transactions act on a chain in only four ways, so the  *)
(* proofs about chains first reduce Next to four shapes (StepShapes) and   *)
(* then argue shape by shape; the proof about tenants goes action by       *)
(* action.                                                                 *)
(***************************************************************************)
EXTENDS RefreshSession, TLAPS

(* The four ways a transaction acts on chains *)

CreateShape ==
    \E u \in Users, c \in Clients, o \in OrgScopes, s \in SessionIds,
       t \in TokenIds, e \in Nat : CreateRefreshSession(u, c, o, s, t, e)

RotateShape ==
    \E t \in TokenIds, o \in OrgScopes, new \in TokenIds :
        RotateRefreshSession(t, o, new)

DeleteShape == \E u \in Users : DeleteUser(u)

\* a token row whose revoked_at has been set
Marked(row) == [row EXCEPT !.revoked = TRUE]

\* some sessions (perhaps none) are revoked, some stored tokens are marked
\* revoked together with their session, and the clock may advance
RevokeShape ==
    /\ \E S \in SUBSET SessionIds, why \in Reasons :
          /\ sessions' = Revoked(S, why)
          /\ why = "replay" => \A s \in S :
                sessions[s].state = "open" =>
                    \E t \in TokenIds : /\ tokens[t].session = s
                                        /\ tokens[t].consumed \/ tokens[t].revoked
    /\ \E T \in SUBSET TokenIds :
          /\ \A t \in T : /\ tokens[t].state = "stored"
                          /\ tokens[t].session \in SessionIds =>
                                sessions'[tokens[t].session].state # "open"
          /\ tokens' = [t \in TokenIds |->
                IF t \in T THEN Marked(tokens[t]) ELSE tokens[t]]
    /\ now' \in Nat /\ now <= now'
    /\ UNCHANGED parent

-----------------------------------------------------------------------------
\* Revoking nothing leaves the table alone, and revocation keeps its type.
LEMMA RevokedNothing ==
    ASSUME TypeOK, NEW why
    PROVE  sessions = Revoked({}, why)
BY DEF Revoked, TypeOK

LEMMA RevokedType ==
    ASSUME TypeOK, NEW S, NEW why \in Reasons
    PROVE  Revoked(S, why) \in [SessionIds -> SessionRow]
BY DEF Revoked, TypeOK, SessionRow

\* Marking no token leaves the token table alone.
LEMMA MarkNothing ==
    ASSUME TypeOK
    PROVE  tokens = [t \in TokenIds |->
               IF t \in {} THEN Marked(tokens[t]) ELSE tokens[t]]
BY DEF TypeOK

\* A transaction that revokes the sessions S and touches no token has the
\* revoking shape.
LEMMA OnlyRevokes ==
    ASSUME TypeOK, NEW S \in SUBSET SessionIds, NEW why \in Reasons \ {"replay"},
           sessions' = Revoked(S, why), UNCHANGED <<tokens, parent>>,
           now' \in Nat, now <= now'
    PROVE  RevokeShape
<1>1. \E T \in SUBSET TokenIds :
          /\ \A t \in T : /\ tokens[t].state = "stored"
                          /\ tokens[t].session \in SessionIds =>
                                sessions'[tokens[t].session].state # "open"
          /\ tokens' = [t \in TokenIds |->
                IF t \in T THEN Marked(tokens[t]) ELSE tokens[t]]
  <2>1. tokens' = [t \in TokenIds |->
          IF t \in {} THEN Marked(tokens[t]) ELSE tokens[t]]
    BY MarkNothing
  <2> WITNESS {} \in SUBSET TokenIds
  <2> QED BY <2>1
<1>2. \E S1 \in SUBSET SessionIds, why1 \in Reasons :
          /\ sessions' = Revoked(S1, why1)
          /\ why1 # "replay"
  BY Zenon
<1> QED BY <1>1, <1>2, Zenon DEF RevokeShape

LEMMA StutterRevokes ==
    ASSUME TypeOK, UNCHANGED sessionVars, now' \in Nat, now <= now'
    PROVE  RevokeShape
<1>1. sessions' = Revoked({}, "request")
  BY RevokedNothing DEF sessionVars
<1>2. "request" \in Reasons \ {"replay"}
  BY DEF Reasons
<1> QED BY <1>1, <1>2, OnlyRevokes DEF sessionVars

\* Every transaction acts on chains in one of the four ways.
LEMMA StepShapes ==
    ASSUME TypeOK, Next, now' \in Nat, now <= now'
    PROVE  CreateShape \/ RotateShape \/ DeleteShape \/ RevokeShape
<1> USE DEF Reasons
<1>1. CASE \E u \in Users, c \in Clients, o \in OrgScopes, s \in SessionIds,
              t \in TokenIds, e \in Lifetime .. (now + Lifetime) :
              CreateRefreshSession(u, c, o, s, t, e)
  <2>1. Lifetime .. (now + Lifetime) \subseteq Nat
    BY SessionAssumption DEF TypeOK
  <2> QED BY <1>1, <2>1, Zenon DEF CreateShape
<1>2. ASSUME NEW t \in TokenIds, NEW o \in OrgScopes, NEW new \in TokenIds,
             RotateRefreshSession(t, o, new)
      PROVE  RotateShape
  BY <1>2, Zenon DEF RotateShape
<1>3. ASSUME NEW t \in TokenIds, NEW o \in OrgScopes, DetectReplay(t, o)
      PROVE  RevokeShape
  <2> DEFINE s == tokens[t].session
  <2>1. sessions' = Revoked({s} \cap SessionIds, "replay")
    BY <1>3 DEF DetectReplay, Revoked
  <2>2. tokens[t].consumed \/ tokens[t].revoked \/ sessions[s].state # "open"
    BY <1>3 DEF DetectReplay, ConsumeResult
  <2>3. \A x \in {s} \cap SessionIds : sessions[x].state = "open" =>
           \E y \in TokenIds : /\ tokens[y].session = x
                               /\ tokens[y].consumed \/ tokens[y].revoked
    BY <2>2
  <2>4. \E S \in SUBSET SessionIds, why \in Reasons :
          /\ sessions' = Revoked(S, why)
          /\ why = "replay" => \A x \in S : sessions[x].state = "open" =>
                \E y \in TokenIds : /\ tokens[y].session = x
                                    /\ tokens[y].consumed \/ tokens[y].revoked
    <3> WITNESS {s} \cap SessionIds \in SUBSET SessionIds, "replay" \in Reasons
    <3> QED BY <2>1, <2>3
  <2>5. \E T \in SUBSET TokenIds :
          /\ \A y \in T : /\ tokens[y].state = "stored"
                          /\ tokens[y].session \in SessionIds =>
                                sessions'[tokens[y].session].state # "open"
          /\ tokens' = [y \in TokenIds |->
                IF y \in T THEN Marked(tokens[y]) ELSE tokens[y]]
    <3>1. tokens' = [y \in TokenIds |->
            IF y \in {} THEN Marked(tokens[y]) ELSE tokens[y]]
      BY <1>3, MarkNothing DEF DetectReplay
    <3> WITNESS {} \in SUBSET TokenIds
    <3> QED BY <3>1
  <2> QED BY <1>3, <2>4, <2>5, Zenon DEF RevokeShape, DetectReplay
<1>4. ASSUME NEW t \in TokenIds, NEW o \in Orgs, RejectInactiveContext(t, o)
      PROVE  RevokeShape
  <2>1. sessions' = Revoked({tokens[t].session} \cap SessionIds, "context")
    BY <1>4 DEF RejectInactiveContext, Revoked
  <2> QED BY <1>4, <2>1, OnlyRevokes DEF RejectInactiveContext
<1>5. ASSUME NEW s \in SessionIds, RevokeRefreshSession(s)
      PROVE  RevokeShape
  BY <1>5, OnlyRevokes DEF RevokeRefreshSession
<1>6. ASSUME NEW t \in TokenIds, NEW why \in {"request", "context"}, RevokeByToken(t, why)
      PROVE  RevokeShape
  <2>1. sessions' = Revoked({tokens[t].session} \cap SessionIds, why)
    BY <1>6 DEF RevokeByToken, Revoked
  <2>2. tokens' = [y \in TokenIds |->
          IF y \in {t} THEN Marked(tokens[y]) ELSE tokens[y]]
    BY <1>6 DEF RevokeByToken, TypeOK, Marked
  <2>3. \E T \in SUBSET TokenIds :
          /\ \A y \in T : /\ tokens[y].state = "stored"
                          /\ tokens[y].session \in SessionIds =>
                                sessions'[tokens[y].session].state # "open"
          /\ tokens' = [y \in TokenIds |->
                IF y \in T THEN Marked(tokens[y]) ELSE tokens[y]]
    <3>1. tokens[t].session \in SessionIds => sessions'[tokens[t].session].state # "open"
      BY <1>6 DEF RevokeByToken, Revoked, TypeOK, SessionRow
    <3>2. tokens[t].state = "stored"
      BY <1>6 DEF RevokeByToken
    <3> WITNESS {t} \in SUBSET TokenIds
    <3> QED BY <2>2, <3>1, <3>2
  <2>4. \E S \in SUBSET SessionIds, why1 \in Reasons :
          sessions' = Revoked(S, why1) /\ why1 # "replay"
    BY <2>1
  <2> QED BY <1>6, <2>3, <2>4, Zenon DEF RevokeShape, RevokeByToken
<1>7. ASSUME NEW u \in Users, RevokePrincipalSessions(u)
      PROVE  RevokeShape
  BY <1>7, OnlyRevokes DEF RevokePrincipalSessions, SessionsOf
<1>8. ASSUME NEW c \in Clients, RevokeClientSessions(c)
      PROVE  RevokeShape
  BY <1>8, OnlyRevokes DEF RevokeClientSessions
<1>9. ASSUME NEW u \in Users, NEW c \in Clients, RevokePrincipalClientSessions(u, c)
      PROVE  RevokeShape
  BY <1>9, OnlyRevokes DEF RevokePrincipalClientSessions, SessionsOf
<1>10. CASE TokenNext
  BY <1>1, <1>2, <1>3, <1>4, <1>5, <1>6, <1>7, <1>8, <1>9, <1>10, Zenon DEF TokenNext
<1>11. CASE AccountNext
  <2>1. ASSUME NEW u \in Users, DisableUser(u) \/ ChangePassword(u)
        PROVE  RevokeShape
    BY <2>1, OnlyRevokes DEF DisableUser, ChangePassword, SessionsOf
  <2>2. ASSUME NEW u \in Users, NEW a \in BOOLEAN, SyncPrincipal(u, a)
        PROVE  RevokeShape
    BY <2>2, StutterRevokes DEF SyncPrincipal
  <2>3. ASSUME NEW u \in Users, NEW pw \in BOOLEAN, EnableUser(u, pw)
        PROVE  RevokeShape
    <3>1. sessions' = Revoked(SessionsOf(u), "lifecycle") \/ UNCHANGED sessions
      BY <2>3 DEF EnableUser
    <3>2. UNCHANGED <<tokens, parent>> /\ SessionsOf(u) \in SUBSET SessionIds
      BY <2>3 DEF EnableUser, SessionsOf
    <3> QED BY <3>1, <3>2, OnlyRevokes, StutterRevokes DEF sessionVars
  <2> QED BY <1>11, <2>1, <2>2, <2>3, Zenon DEF AccountNext, DeleteShape
<1>12. CASE TenantNext
  <2>1. ASSUME NEW o \in Orgs, NEW st, SetOrganizationStatus(o, st)
        PROVE  RevokeShape
    <3>1. ScopedTo(o) \in SUBSET SessionIds
      BY DEF ScopedTo
    <3>2. sessions' = Revoked(ScopedTo(o), "lifecycle") \/ UNCHANGED sessions
      BY <2>1 DEF SetOrganizationStatus
    <3>3. UNCHANGED <<tokens, parent>>
      BY <2>1 DEF SetOrganizationStatus
    <3> QED BY <3>1, <3>2, <3>3, OnlyRevokes, StutterRevokes DEF sessionVars
  <2>2. ASSUME NEW o \in Orgs, NEW u \in Users, NEW st, RevokeForMembership(o, u, st)
        PROVE  RevokeShape
    <3>1. ScopedFor(o, u) \in SUBSET SessionIds
      BY DEF ScopedFor, ScopedTo
    <3>2. sessions' = Revoked(ScopedFor(o, u), "lifecycle") \/ UNCHANGED sessions
      BY <2>2 DEF RevokeForMembership
    <3>3. UNCHANGED <<tokens, parent>>
      BY <2>2 DEF RevokeForMembership
    <3> QED BY <3>1, <3>2, <3>3, OnlyRevokes, StutterRevokes DEF sessionVars
  <2>3. ASSUME NEW o \in Orgs, NEW u \in Users, JoinMembership(o, u)
        PROVE  RevokeShape
    BY <2>3, StutterRevokes DEF JoinMembership
  <2> QED BY <1>12, <2>1, <2>2, <2>3, Zenon
          DEF TenantNext, UpsertMembership, UpsertMembershipAsManager
<1>13. CASE Tick
  BY <1>13, StutterRevokes DEF Tick
<1> QED BY <1>10, <1>11, <1>12, <1>13 DEF Next

-----------------------------------------------------------------------------
(* What the two shapes that touch many rows do to one row *)

LEMMA RevokeRows ==
    ASSUME TypeOK, RevokeShape
    PROVE  /\ sessions' \in [SessionIds -> SessionRow]
           /\ tokens' \in [TokenIds -> TokenRow]
           /\ \A s \in SessionIds :
                 /\ sessions'[s].user = sessions[s].user
                 /\ sessions'[s].client = sessions[s].client
                 /\ sessions'[s].org = sessions[s].org
                 /\ sessions'[s].expires = sessions[s].expires
                 /\ sessions'[s].current = sessions[s].current
                 /\ sessions'[s] = sessions[s] \/
                      (sessions[s].state = "open" /\ sessions'[s].state = "revoked")
           /\ \A t \in TokenIds :
                 /\ tokens'[t].state = tokens[t].state
                 /\ tokens'[t].session = tokens[t].session
                 /\ tokens'[t].consumed = tokens[t].consumed
                 /\ tokens'[t].expires = tokens[t].expires
                 /\ tokens'[t] = tokens[t] \/
                      /\ tokens[t].state = "stored"
                      /\ tokens[t].session \in SessionIds =>
                            sessions'[tokens[t].session].state # "open"
<1>1. PICK S \in SUBSET SessionIds, why \in Reasons : sessions' = Revoked(S, why)
  BY DEF RevokeShape
<1>2. PICK T \in SUBSET TokenIds :
          /\ \A t \in T : /\ tokens[t].state = "stored"
                          /\ tokens[t].session \in SessionIds =>
                                sessions'[tokens[t].session].state # "open"
          /\ tokens' = [t \in TokenIds |->
                IF t \in T THEN Marked(tokens[t]) ELSE tokens[t]]
  BY DEF RevokeShape
<1>3. sessions' \in [SessionIds -> SessionRow]
  BY <1>1, RevokedType
<1>4. tokens' \in [TokenIds -> TokenRow]
  <2>1. ASSUME NEW t \in TokenIds
        PROVE  (IF t \in T THEN Marked(tokens[t]) ELSE tokens[t]) \in TokenRow
    <3>1. tokens[t] \in TokenRow
      BY DEF TypeOK
    <3>2. Marked(tokens[t]) \in TokenRow
      BY <3>1 DEF TokenRow, Marked
    <3> QED BY <3>1, <3>2
  <2>2. tokens' = [t \in TokenIds |-> IF t \in T THEN Marked(tokens[t]) ELSE tokens[t]]
    BY <1>2
  <2> QED BY <2>1, <2>2
<1>5. ASSUME NEW s \in SessionIds
      PROVE  /\ sessions'[s].user = sessions[s].user
             /\ sessions'[s].client = sessions[s].client
             /\ sessions'[s].org = sessions[s].org
             /\ sessions'[s].expires = sessions[s].expires
             /\ sessions'[s].current = sessions[s].current
             /\ sessions'[s] = sessions[s] \/
                  (sessions[s].state = "open" /\ sessions'[s].state = "revoked")
  BY <1>1 DEF Revoked, TypeOK, SessionRow
<1>6. ASSUME NEW t \in TokenIds
      PROVE  /\ tokens'[t].state = tokens[t].state
             /\ tokens'[t].session = tokens[t].session
             /\ tokens'[t].consumed = tokens[t].consumed
             /\ tokens'[t].expires = tokens[t].expires
             /\ tokens'[t] = tokens[t] \/
                  /\ tokens[t].state = "stored"
                  /\ tokens[t].session \in SessionIds =>
                        sessions'[tokens[t].session].state # "open"
  <2>1. CASE t \in T
    <3>1. tokens'[t] = Marked(tokens[t])
      BY <1>2, <2>1
    <3>2. tokens[t] \in TokenRow
      BY DEF TypeOK
    <3>3. /\ tokens[t].state = "stored"
          /\ tokens[t].session \in SessionIds =>
                sessions'[tokens[t].session].state # "open"
      BY <1>2, <2>1
    <3> QED BY <3>1, <3>2, <3>3 DEF TokenRow, Marked
  <2>2. CASE t \notin T
    BY <1>2, <2>2
  <2> QED BY <2>1, <2>2
<1> QED BY <1>3, <1>4, <1>5, <1>6

LEMMA DeleteRows ==
    ASSUME TypeOK, NEW u \in Users, DeleteUser(u)
    PROVE  /\ sessions' \in [SessionIds -> SessionRow]
           /\ tokens' \in [TokenIds -> TokenRow]
           /\ \A s \in SessionIds :
                 /\ sessions'[s].user = sessions[s].user
                 /\ sessions'[s].org = sessions[s].org
                 /\ sessions'[s].expires = sessions[s].expires
                 /\ sessions'[s].current = sessions[s].current
                 /\ sessions'[s].reason = sessions[s].reason
                 /\ s \in SessionsOf(u) => sessions'[s].state = "deleted"
                 /\ s \notin SessionsOf(u) => sessions'[s] = sessions[s]
           /\ \A t \in TokenIds :
                 /\ tokens'[t].session = tokens[t].session
                 /\ tokens'[t].consumed = tokens[t].consumed
                 /\ tokens'[t].revoked = tokens[t].revoked
                 /\ tokens'[t].expires = tokens[t].expires
                 /\ IF tokens[t].state = "stored" /\ tokens[t].session \in SessionsOf(u)
                    THEN tokens'[t].state = "deleted" ELSE tokens'[t] = tokens[t]
<1>1. sessions' \in [SessionIds -> SessionRow]
  BY DEF DeleteUser, TypeOK, SessionRow
<1>2. tokens' \in [TokenIds -> TokenRow]
  BY DEF DeleteUser, TypeOK, TokenRow
<1>3. ASSUME NEW s \in SessionIds
      PROVE  /\ sessions'[s].user = sessions[s].user
             /\ sessions'[s].org = sessions[s].org
             /\ sessions'[s].expires = sessions[s].expires
             /\ sessions'[s].current = sessions[s].current
             /\ sessions'[s].reason = sessions[s].reason
             /\ s \in SessionsOf(u) => sessions'[s].state = "deleted"
             /\ s \notin SessionsOf(u) => sessions'[s] = sessions[s]
  BY DEF DeleteUser, TypeOK, SessionRow
<1>4. ASSUME NEW t \in TokenIds
      PROVE  /\ tokens'[t].session = tokens[t].session
             /\ tokens'[t].consumed = tokens[t].consumed
             /\ tokens'[t].revoked = tokens[t].revoked
             /\ tokens'[t].expires = tokens[t].expires
             /\ IF tokens[t].state = "stored" /\ tokens[t].session \in SessionsOf(u)
                THEN tokens'[t].state = "deleted" ELSE tokens'[t] = tokens[t]
  BY DEF DeleteUser, TypeOK, TokenRow
<1> QED BY <1>1, <1>2, <1>3, <1>4

-----------------------------------------------------------------------------
(* Type correctness *)

\* A transaction of the token tables touches neither the directory nor the clock.
LEMMA TokenFrame ==
    ASSUME TokenNext
    PROVE  UNCHANGED <<directoryVars, now>>
<1>1. ASSUME NEW u, NEW c, NEW o, NEW s, NEW t, NEW e, CreateRefreshSession(u, c, o, s, t, e)
      PROVE  UNCHANGED <<directoryVars, now>>
  BY <1>1 DEF CreateRefreshSession
<1>2. ASSUME NEW t, NEW o, NEW new, RotateRefreshSession(t, o, new)
      PROVE  UNCHANGED <<directoryVars, now>>
  BY <1>2 DEF RotateRefreshSession
<1>3. ASSUME NEW t, NEW o, DetectReplay(t, o) \/ RejectInactiveContext(t, o)
      PROVE  UNCHANGED <<directoryVars, now>>
  BY <1>3 DEF DetectReplay, RejectInactiveContext
<1>4. ASSUME NEW s, RevokeRefreshSession(s)
      PROVE  UNCHANGED <<directoryVars, now>>
  BY <1>4 DEF RevokeRefreshSession
<1>5. ASSUME NEW t, NEW why, RevokeByToken(t, why)
      PROVE  UNCHANGED <<directoryVars, now>>
  BY <1>5 DEF RevokeByToken
<1>6. ASSUME NEW u, NEW c,
             \/ RevokePrincipalSessions(u)
             \/ RevokeClientSessions(c)
             \/ RevokePrincipalClientSessions(u, c)
      PROVE  UNCHANGED <<directoryVars, now>>
  BY <1>6 DEF RevokePrincipalSessions, RevokeClientSessions, RevokePrincipalClientSessions
<1> QED BY <1>1, <1>2, <1>3, <1>4, <1>5, <1>6, Zenon DEF TokenNext

\* An account or tenant transaction does not touch the clock.
LEMMA ChangeFrame ==
    ASSUME AccountNext \/ TenantNext
    PROVE  UNCHANGED now
<1>1. ASSUME NEW u, \/ DisableUser(u) \/ (\E pw \in BOOLEAN : EnableUser(u, pw)) \/ ChangePassword(u)
                    \/ DeleteUser(u) \/ \E a \in BOOLEAN : SyncPrincipal(u, a)
      PROVE  UNCHANGED now
  BY <1>1 DEF DisableUser, EnableUser, ChangePassword, DeleteUser, SyncPrincipal
<1>2. ASSUME NEW o, NEW u, NEW st,
             \/ SetOrganizationStatus(o, st)
             \/ RevokeForMembership(o, u, st)
             \/ JoinMembership(o, u)
      PROVE  UNCHANGED now
  BY <1>2 DEF SetOrganizationStatus, RevokeForMembership, JoinMembership
<1> QED BY <1>1, <1>2, Zenon
        DEF AccountNext, TenantNext, UpsertMembership, UpsertMembershipAsManager

\* The clock never runs backwards.
LEMMA ClockStep ==
    ASSUME TypeOK, Next
    PROVE  now' \in Nat /\ now <= now'
<1>1. now \in Nat
  BY DEF TypeOK
<1>2. CASE UNCHANGED now
  BY <1>1, <1>2
<1>3. CASE Tick
  BY <1>1, <1>3 DEF Tick
<1> QED BY <1>2, <1>3, TokenFrame, ChangeFrame DEF Next

\* A membership write stores a status and a role of the schema's enumerations.
LEMMA WriteMembershipType ==
    ASSUME DirectoryTypeOK, NEW o \in Orgs, NEW u \in Users, NEW st \in MemberStatuses,
           NEW role \in RoleArgs, WriteMembership(o, u, st, role)
    PROVE  members' \in [Orgs -> [Users -> Membership]]
<1>1. role \in ManagementRoles \cup {None}
  BY SessionAssumption
<1>2. members[o] \in [Users -> Membership]
  BY DEF DirectoryTypeOK
<1>3. members[o][u] \in Membership
  BY <1>2
<1> DEFINE row == [status |-> st, role |-> IF role = None THEN members[o][u].role ELSE role]
<1>4. row \in Membership
  BY <1>1, <1>3 DEF Membership
<1>5. members' = [members EXCEPT ![o] = [members[o] EXCEPT ![u] = row]]
  BY DEF WriteMembership
<1> HIDE DEF row
<1> QED BY <1>2, <1>4, <1>5 DEF DirectoryTypeOK

LEMMA DirectoryTypeStep ==
    ASSUME TypeOK, Next
    PROVE  DirectoryTypeOK'
<1> USE DEF directoryVars
<1>0. DirectoryTypeOK
  BY DEF TypeOK
<1>1. CASE UNCHANGED directoryVars
  BY <1>0, <1>1 DEF DirectoryTypeOK
<1>2. CASE TokenNext
  BY <1>1, <1>2, TokenFrame
<1>3. ASSUME NEW u \in Users, NEW a \in BOOLEAN, WriteUserActive(u, a)
      PROVE  DirectoryTypeOK'
  BY <1>0, <1>3 DEF WriteUserActive, DirectoryTypeOK, UserStates
<1>4. ASSUME NEW u \in Users, NEW a \in BOOLEAN, UpsertPrincipal(u, a)
      PROVE  DirectoryTypeOK'
  BY <1>0, <1>4 DEF UpsertPrincipal, DirectoryTypeOK, PrincipalStates
<1>5. ASSUME NEW u \in Users, DeleteUserRows(u)
      PROVE  DirectoryTypeOK'
  <2>1. NoMembership \in Membership
    BY DEF NoMembership, Membership, ManagementRoles
  <2> QED BY <1>0, <1>5, <2>1
          DEF DeleteUserRows, DirectoryTypeOK, UserStates, PrincipalStates
<1>6. CASE AccountNext
  <2>1. ASSUME NEW u \in Users,
               \/ DisableUser(u) \/ (\E pw \in BOOLEAN : EnableUser(u, pw)) \/ ChangePassword(u) \/ DeleteUser(u)
               \/ \E a \in BOOLEAN : SyncPrincipal(u, a)
        PROVE  DirectoryTypeOK'
    <3>1. \/ WriteUserActive(u, FALSE) \/ WriteUserActive(u, TRUE)
          \/ UNCHANGED directoryVars \/ DeleteUserRows(u)
          \/ \E a \in BOOLEAN : UpsertPrincipal(u, a)
      BY <2>1, Zenon DEF DisableUser, EnableUser, ChangePassword, DeleteUser, SyncPrincipal
    <3> QED BY <3>1, <1>1, <1>3, <1>4, <1>5
  <2> QED BY <1>6, <2>1, Zenon DEF AccountNext
<1>7. ASSUME NEW o \in Orgs, NEW st \in OrgStatuses, SetOrganizationStatus(o, st)
      PROVE  DirectoryTypeOK'
  BY <1>0, <1>7 DEF SetOrganizationStatus, WriteOrgStatus, DirectoryTypeOK, OrgStatuses
<1>8. ASSUME NEW o \in Orgs, NEW u \in Users, NEW st \in MemberStatuses,
             NEW role \in RoleArgs, WriteMembership(o, u, st, role),
             UNCHANGED <<users, principals, orgs>>
      PROVE  DirectoryTypeOK'
  BY <1>0, <1>8, WriteMembershipType DEF DirectoryTypeOK
<1>9. ASSUME NEW o \in Orgs, NEW u \in Users, JoinMembership(o, u)
      PROVE  DirectoryTypeOK'
  <2>1. members[o] \in [Users -> Membership] /\ members[o][u] \in Membership
    BY <1>0 DEF DirectoryTypeOK
  <2>2. [members[o][u] EXCEPT !.status = "active"] \in Membership
    BY <2>1 DEF Membership, MemberStatuses
  <2>3. members' = [members EXCEPT ![o] = [members[o] EXCEPT ![u] =
                       [members[o][u] EXCEPT !.status = "active"]]]
    BY <1>9 DEF JoinMembership, JoinOrganization
  <2>4. members' \in [Orgs -> [Users -> Membership]]
    BY <1>0, <2>1, <2>2, <2>3 DEF DirectoryTypeOK
  <2> QED BY <1>0, <1>9, <2>4 DEF JoinMembership, JoinOrganization, DirectoryTypeOK
<1>10. CASE TenantNext
  <2>1. ASSUME NEW o \in Orgs, NEW u \in Users, NEW st \in MemberStatuses,
               NEW role \in RoleArgs,
               \/ UpsertMembership(o, u, st, role)
               \/ \E actor \in Users : UpsertMembershipAsManager(o, actor, u, st, role)
        PROVE  DirectoryTypeOK'
    <3>1. WriteMembership(o, u, st, role) /\ UNCHANGED <<users, principals, orgs>>
      BY <2>1, Zenon DEF UpsertMembership, UpsertMembershipAsManager,
         PlatformPutMembership, ManagerPutMembership
    <3> QED BY <3>1, <1>8
  <2> QED BY <1>7, <1>9, <1>10, <2>1, Zenon DEF TenantNext
<1>11. CASE Tick
  BY <1>1, <1>11 DEF Tick
<1> QED BY <1>2, <1>6, <1>10, <1>11 DEF Next

LEMMA TypeStep ==
    ASSUME TypeOK, RowsAreWhole, Next
    PROVE  TypeOK'
<1>1. DirectoryTypeOK' /\ now' \in Nat /\ now <= now'
  BY DirectoryTypeStep, ClockStep
<1>2. ASSUME CreateShape
      PROVE  /\ sessions' \in [SessionIds -> SessionRow]
             /\ tokens' \in [TokenIds -> TokenRow]
             /\ parent' \in [TokenIds -> TokenIds \cup {None}]
  <2>1. PICK u \in Users, c \in Clients, o \in OrgScopes, s \in SessionIds,
             t \in TokenIds, e \in Nat : CreateRefreshSession(u, c, o, s, t, e)
    BY <1>2, Zenon DEF CreateShape
  <2>2. parent' = parent
    BY <2>1 DEF CreateRefreshSession
  <2>3. sessions' \in [SessionIds -> SessionRow]
    BY <2>1 DEF CreateRefreshSession, TypeOK, SessionRow, OrgScopes
  <2>4. tokens' \in [TokenIds -> TokenRow]
    BY <2>1 DEF CreateRefreshSession, TypeOK, TokenRow
  <2> QED BY <2>2, <2>3, <2>4 DEF TypeOK
<1>3. ASSUME RotateShape
      PROVE  /\ sessions' \in [SessionIds -> SessionRow]
             /\ tokens' \in [TokenIds -> TokenRow]
             /\ parent' \in [TokenIds -> TokenIds \cup {None}]
  <2>1. PICK t \in TokenIds, o \in OrgScopes, new \in TokenIds :
             RotateRefreshSession(t, o, new)
    BY <1>3, Zenon DEF RotateShape
  <2>2. parent' \in [TokenIds -> TokenIds \cup {None}]
    BY <2>1 DEF RotateRefreshSession, TypeOK
  <2>3. sessions' \in [SessionIds -> SessionRow]
    BY <2>1 DEF RotateRefreshSession, TypeOK, SessionRow
  <2>4. tokens[t].state = "stored"
    BY <2>1 DEF RotateRefreshSession, ConsumeResult
  <2>5. tokens[t].session \in SessionIds
    BY <2>4 DEF RowsAreWhole
  <2>6. sessions[tokens[t].session].expires \in Nat
    BY <2>5 DEF TypeOK, SessionRow
  <2> DEFINE successor == [state |-> "stored", session |-> tokens[t].session,
                           consumed |-> FALSE, revoked |-> FALSE,
                           expires |-> sessions[tokens[t].session].expires]
             spent == [tokens[t] EXCEPT !.consumed = TRUE]
  <2>7. successor \in TokenRow
    BY <2>5, <2>6 DEF TokenRow
  <2>8. spent \in TokenRow
    BY DEF TypeOK, TokenRow
  <2>9. tokens' = [tokens EXCEPT ![t] = spent, ![new] = successor]
    BY <2>1 DEF RotateRefreshSession
  <2> HIDE DEF successor, spent
  <2>10. tokens' \in [TokenIds -> TokenRow]
    BY <2>7, <2>8, <2>9 DEF TypeOK
  <2> QED BY <2>2, <2>3, <2>10
<1>4. ASSUME DeleteShape \/ RevokeShape
      PROVE  /\ sessions' \in [SessionIds -> SessionRow]
             /\ tokens' \in [TokenIds -> TokenRow]
             /\ parent' \in [TokenIds -> TokenIds \cup {None}]
  <2>1. parent' = parent
    BY <1>4 DEF DeleteShape, DeleteUser, RevokeShape
  <2> QED BY <1>4, <2>1, DeleteRows, RevokeRows DEF DeleteShape, TypeOK
<1> QED BY <1>1, <1>2, <1>3, <1>4, StepShapes DEF TypeOK

-----------------------------------------------------------------------------
(* The chain invariant *)

LEMMA ChainCreate ==
    ASSUME TypeOK, TypeOK', ChainInv, CreateShape
    PROVE  ChainInv'
<1>1. PICK u \in Users, c \in Clients, o \in OrgScopes, s \in SessionIds,
           t \in TokenIds, e \in Nat : CreateRefreshSession(u, c, o, s, t, e)
  BY Zenon DEF CreateShape
<1>2. /\ sessions[s].state = "absent" /\ sessions'[s].state = "open"
      /\ sessions'[s].user = u /\ sessions'[s].current = t /\ sessions'[s].expires = e
      /\ \A x \in SessionIds \ {s} : sessions'[x] = sessions[x]
  BY <1>1 DEF CreateRefreshSession, TypeOK
<1>3. /\ tokens[t].state = "absent" /\ tokens'[t].state = "stored"
      /\ tokens'[t].session = s /\ tokens'[t].expires = e
      /\ tokens'[t].consumed = FALSE /\ tokens'[t].revoked = FALSE
      /\ \A y \in TokenIds \ {t} : tokens'[y] = tokens[y]
  BY <1>1 DEF CreateRefreshSession, TypeOK
<1>4. parent' = parent
  BY <1>1 DEF CreateRefreshSession
<1>5. tokens[t].session = None /\ tokens[t].consumed = FALSE
  BY <1>3 DEF ChainInv, RowsAreWhole, NoToken
<1>6. \A y \in TokenIds : tokens[y].session # s
  BY <1>2, SessionAssumption DEF ChainInv, RowsAreWhole, NoToken
<1>7. RowsAreWhole'
  BY <1>2, <1>3 DEF ChainInv, RowsAreWhole
<1>8. CurrentTokenIsUnspent'
  BY <1>2, <1>3, <1>6 DEF ChainInv, RowsAreWhole, CurrentTokenIsUnspent, Stored
<1>9. TokensExpireWithSession'
  BY <1>2, <1>3, <1>6 DEF ChainInv, RowsAreWhole, TokensExpireWithSession
<1>10. RevokedTokenClosesChain'
  BY <1>2, <1>3, <1>6 DEF ChainInv, RowsAreWhole, RevokedTokenClosesChain, TypeOK, NoToken
<1>11. ReplayReasonHasEvidence'
  BY <1>2, <1>3, <1>5, SessionAssumption DEF ChainInv, RowsAreWhole, ReplayReasonHasEvidence
<1>12. ParentIsSpent' /\ OneSuccessor'
  BY <1>3, <1>4, <1>5 DEF ChainInv, ParentIsSpent, OneSuccessor, TypeOK
<1> QED BY <1>7, <1>8, <1>9, <1>10, <1>11, <1>12 DEF ChainInv

\* What a rotation of t into new finds (an open, unexpired session s whose
\* current token is t) and what it writes
RotatedRows(t, new, s) ==
    /\ s \in SessionIds /\ s = tokens[t].session /\ t # new
    /\ tokens[t].state = "stored" /\ ~tokens[t].consumed /\ ~tokens[t].revoked
    /\ tokens[new] = NoToken
    /\ sessions[s].state = "open" /\ sessions[s].current = t
    /\ sessions[s].expires > now
    /\ sessions'[s].state = "open" /\ sessions'[s].user = sessions[s].user
    /\ sessions'[s].org = sessions[s].org /\ sessions'[s].current = new
    /\ sessions'[s].expires = sessions[s].expires
    /\ \A x \in SessionIds \ {s} : sessions'[x] = sessions[x]
    /\ tokens'[t].state = "stored" /\ tokens'[t].session = s
    /\ tokens'[t].expires = tokens[t].expires
    /\ tokens'[t].consumed = TRUE /\ tokens'[t].revoked = FALSE
    /\ tokens'[new].state = "stored" /\ tokens'[new].session = s
    /\ tokens'[new].consumed = FALSE /\ tokens'[new].revoked = FALSE
    /\ tokens'[new].expires = sessions[s].expires
    /\ \A y \in TokenIds \ {t, new} : tokens'[y] = tokens[y]
    /\ parent' = [parent EXCEPT ![new] = t]

LEMMA RotateRows ==
    ASSUME TypeOK, ChainInv, RotateShape
    PROVE  /\ UNCHANGED <<directoryVars, now>>
           /\ \E t \in TokenIds, new \in TokenIds, s \in SessionIds : RotatedRows(t, new, s)
<1>a. PICK t \in TokenIds, o \in OrgScopes, new \in TokenIds : RotateRefreshSession(t, o, new)
  BY Zenon DEF RotateShape
<1>b. PICK s : s = tokens[t].session
  OBVIOUS
<1>1. ConsumeResult(t, o) = "Consumed" /\ tokens[new].state = "absent"
  BY <1>a DEF RotateRefreshSession
<1>2. /\ tokens[t].state = "stored" /\ ~tokens[t].consumed /\ ~tokens[t].revoked
      /\ sessions[s].state # "revoked"
      /\ ~(sessions[s].expires <= now)
  BY <1>1, <1>b DEF ConsumeResult
<1>3. s \in SessionIds /\ Stored(s) /\ sessions[s].current = t /\ tokens[new] = NoToken
  BY <1>1, <1>2, <1>b DEF ChainInv, RowsAreWhole, CurrentTokenIsUnspent
<1>4. sessions[s].state = "open" /\ sessions[s].expires > now
  BY <1>2, <1>3 DEF Stored, TypeOK, SessionRow
<1>5. t # new
  BY <1>1, <1>2
<1>6. /\ sessions'[s] = [sessions[s] EXCEPT !.current = new]
      /\ \A x \in SessionIds \ {s} : sessions'[x] = sessions[x]
  BY <1>3, <1>a, <1>b DEF RotateRefreshSession, TypeOK
<1>7. sessions[s] \in SessionRow
  BY <1>3 DEF TypeOK
<1>8. /\ sessions'[s].state = "open" /\ sessions'[s].user = sessions[s].user
      /\ sessions'[s].org = sessions[s].org /\ sessions'[s].current = new
      /\ sessions'[s].expires = sessions[s].expires
  BY <1>4, <1>6, <1>7 DEF SessionRow
<1>9. /\ tokens'[t] = [tokens[t] EXCEPT !.consumed = TRUE]
      /\ tokens'[new] = [state |-> "stored", session |-> s, consumed |-> FALSE,
                         revoked |-> FALSE, expires |-> sessions[s].expires]
      /\ \A y \in TokenIds \ {t, new} : tokens'[y] = tokens[y]
  BY <1>5, <1>a, <1>b DEF RotateRefreshSession, TypeOK
<1>10. tokens[t] \in TokenRow
  BY DEF TypeOK
<1>11. /\ tokens'[t].state = "stored" /\ tokens'[t].session = s
       /\ tokens'[t].expires = tokens[t].expires
       /\ tokens'[t].consumed = TRUE /\ tokens'[t].revoked = FALSE
  BY <1>2, <1>9, <1>10, <1>b DEF TokenRow
<1>12. /\ tokens'[new].state = "stored" /\ tokens'[new].session = s
       /\ tokens'[new].consumed = FALSE /\ tokens'[new].revoked = FALSE
       /\ tokens'[new].expires = sessions[s].expires
  BY <1>9
<1>13. \A y \in TokenIds \ {t, new} : tokens'[y] = tokens[y]
  BY <1>9, Zenon
<1>14. parent' = [parent EXCEPT ![new] = t]
  BY <1>a DEF RotateRefreshSession
<1>15. RotatedRows(t, new, s)
  BY <1>2, <1>3, <1>4, <1>5, <1>6, <1>8, <1>11, <1>12, <1>13, <1>14, <1>b DEF RotatedRows
<1>16. UNCHANGED <<directoryVars, now>>
  BY <1>a DEF RotateRefreshSession
<1> QED BY <1>3, <1>15, <1>16

LEMMA ChainRotate ==
    ASSUME TypeOK, TypeOK', ChainInv, RotateShape
    PROVE  ChainInv'
<1>1. PICK t \in TokenIds, new \in TokenIds, s \in SessionIds : RotatedRows(t, new, s)
  BY RotateRows
<1>2. s = tokens[t].session
  BY <1>1 DEF RotatedRows
<1>3. /\ s \in SessionIds /\ t # new
      /\ tokens[t].state = "stored" /\ ~tokens[t].consumed /\ ~tokens[t].revoked
      /\ tokens[new] = NoToken
      /\ sessions[s].state = "open" /\ sessions[s].current = t
      /\ parent' = [parent EXCEPT ![new] = t]
  BY <1>1 DEF RotatedRows
<1>4. /\ sessions'[s].state = "open" /\ sessions'[s].user = sessions[s].user
      /\ sessions'[s].expires = sessions[s].expires /\ sessions'[s].current = new
      /\ \A x \in SessionIds \ {s} : sessions'[x] = sessions[x]
  BY <1>1 DEF RotatedRows
<1>5. /\ tokens'[t].state = "stored" /\ tokens'[t].session = s
      /\ tokens'[t].expires = tokens[t].expires
      /\ tokens'[t].consumed = TRUE /\ tokens'[t].revoked = FALSE
      /\ tokens'[new].state = "stored" /\ tokens'[new].session = s
      /\ tokens'[new].consumed = FALSE /\ tokens'[new].revoked = FALSE
      /\ tokens'[new].expires = sessions[s].expires
      /\ \A y \in TokenIds \ {t, new} : tokens'[y] = tokens[y]
  BY <1>1 DEF RotatedRows
<1>6. tokens[new].state = "absent" /\ tokens[new].session = None /\ tokens[new].consumed = FALSE
  BY <1>3 DEF NoToken
<1>7. RowsAreWhole'
  <2>1. ASSUME NEW x \in SessionIds
        PROVE  (IF sessions[x].state = "absent" THEN sessions[x] = NoSession
                ELSE /\ sessions[x].user \in Users
                     /\ sessions[x].current \in TokenIds
                     /\ tokens[sessions[x].current].state # "absent")'
    BY <1>3, <1>4, <1>5, <1>6 DEF ChainInv, RowsAreWhole
  <2>2. ASSUME NEW y \in TokenIds
        PROVE  (IF tokens[y].state = "absent" THEN tokens[y] = NoToken
                ELSE /\ tokens[y].session \in SessionIds
                     /\ sessions[tokens[y].session].state # "absent")'
    BY <1>3, <1>4, <1>5 DEF ChainInv, RowsAreWhole
  <2> QED BY <2>1, <2>2 DEF RowsAreWhole
<1>8. CurrentTokenIsUnspent'
  <2>1. ASSUME NEW x \in SessionIds, Stored(x)'
        PROVE  (/\ sessions[x].current \in TokenIds
                /\ tokens[sessions[x].current].state = "stored"
                /\ tokens[sessions[x].current].session = x
                /\ ~tokens[sessions[x].current].consumed)'
    BY <1>2, <1>3, <1>4, <1>5, <1>6, <2>1 DEF ChainInv, CurrentTokenIsUnspent, Stored
  <2>2. ASSUME NEW y \in TokenIds, (tokens[y].state = "stored")'
        PROVE  (/\ tokens[y].session \in SessionIds
                /\ Stored(tokens[y].session)
                /\ ~tokens[y].consumed => sessions[tokens[y].session].current = y)'
    BY <1>2, <1>3, <1>4, <1>5, <2>2 DEF ChainInv, CurrentTokenIsUnspent, Stored
  <2> QED BY <2>1, <2>2 DEF CurrentTokenIsUnspent
<1>9. TokensExpireWithSession'
  BY <1>2, <1>3, <1>4, <1>5 DEF ChainInv, RowsAreWhole, TokensExpireWithSession
<1>10. RevokedTokenClosesChain'
  BY <1>2, <1>3, <1>4, <1>5 DEF ChainInv, RowsAreWhole, RevokedTokenClosesChain, NoToken
<1>11. ReplayReasonHasEvidence'
  BY <1>2, <1>3, <1>4, <1>5, <1>6 DEF ChainInv, ReplayReasonHasEvidence
<1>12. ParentIsSpent'
  BY <1>3, <1>5, <1>6 DEF ChainInv, ParentIsSpent, TypeOK
<1>13. OneSuccessor'
  BY <1>3 DEF ChainInv, ParentIsSpent, OneSuccessor, TypeOK
<1> QED BY <1>7, <1>8, <1>9, <1>10, <1>11, <1>12, <1>13 DEF ChainInv

LEMMA ChainDelete ==
    ASSUME TypeOK, TypeOK', ChainInv, DeleteShape
    PROVE  ChainInv'
<1>1. PICK u \in Users : DeleteUser(u)
  BY DEF DeleteShape
<1>2. \A s \in SessionIds :
         /\ sessions'[s].user = sessions[s].user
         /\ sessions'[s].expires = sessions[s].expires
         /\ sessions'[s].current = sessions[s].current
         /\ sessions'[s].reason = sessions[s].reason
         /\ s \in SessionsOf(u) => sessions'[s].state = "deleted"
         /\ s \notin SessionsOf(u) => sessions'[s] = sessions[s]
  BY <1>1, DeleteRows
<1>3. \A t \in TokenIds :
         /\ tokens'[t].session = tokens[t].session
         /\ tokens'[t].consumed = tokens[t].consumed
         /\ tokens'[t].revoked = tokens[t].revoked
         /\ tokens'[t].expires = tokens[t].expires
         /\ IF tokens[t].state = "stored" /\ tokens[t].session \in SessionsOf(u)
            THEN tokens'[t].state = "deleted" ELSE tokens'[t] = tokens[t]
  BY <1>1, DeleteRows
<1>4. parent' = parent
  BY <1>1 DEF DeleteUser
<1>5. RowsAreWhole'
  BY <1>2, <1>3 DEF ChainInv, RowsAreWhole, SessionsOf, Stored
<1>6. CurrentTokenIsUnspent'
  BY <1>2, <1>3 DEF ChainInv, RowsAreWhole, CurrentTokenIsUnspent, SessionsOf, Stored
<1>7. TokensExpireWithSession'
  BY <1>2, <1>3 DEF ChainInv, RowsAreWhole, TokensExpireWithSession
<1>8. RevokedTokenClosesChain'
  BY <1>2, <1>3 DEF ChainInv, RowsAreWhole, RevokedTokenClosesChain, NoToken
<1>9. ReplayReasonHasEvidence'
  BY <1>2, <1>3 DEF ChainInv, ReplayReasonHasEvidence
<1>10. ParentIsSpent' /\ OneSuccessor'
  BY <1>3, <1>4 DEF ChainInv, ParentIsSpent, OneSuccessor, TypeOK
<1> QED BY <1>5, <1>6, <1>7, <1>8, <1>9, <1>10 DEF ChainInv

LEMMA ChainRevoke ==
    ASSUME TypeOK, TypeOK', ChainInv, RevokeShape
    PROVE  ChainInv'
<1>1. \A s \in SessionIds :
         /\ sessions'[s].user = sessions[s].user
         /\ sessions'[s].expires = sessions[s].expires
         /\ sessions'[s].current = sessions[s].current
         /\ sessions'[s] = sessions[s] \/
              (sessions[s].state = "open" /\ sessions'[s].state = "revoked")
  BY RevokeRows
<1>2. \A t \in TokenIds :
         /\ tokens'[t].state = tokens[t].state
         /\ tokens'[t].session = tokens[t].session
         /\ tokens'[t].consumed = tokens[t].consumed
         /\ tokens'[t].expires = tokens[t].expires
         /\ tokens'[t] = tokens[t] \/
              /\ tokens[t].state = "stored"
              /\ tokens[t].session \in SessionIds =>
                    sessions'[tokens[t].session].state # "open"
  BY RevokeRows
<1>3. parent' = parent
  BY DEF RevokeShape
<1>4. RowsAreWhole'
  BY <1>1, <1>2 DEF ChainInv, RowsAreWhole
<1>5. CurrentTokenIsUnspent'
  BY <1>1, <1>2 DEF ChainInv, RowsAreWhole, CurrentTokenIsUnspent, Stored
<1>6. TokensExpireWithSession'
  BY <1>1, <1>2 DEF ChainInv, RowsAreWhole, TokensExpireWithSession
<1>7. RevokedTokenClosesChain'
  BY <1>1, <1>2 DEF ChainInv, RowsAreWhole, RevokedTokenClosesChain, NoToken
<1>8. ReplayReasonHasEvidence'
  <2> SUFFICES ASSUME NEW s \in SessionIds, sessions'[s].state = "revoked",
                      sessions'[s].reason = "replay"
               PROVE  \E t \in TokenIds : tokens'[t].session = s /\ tokens'[t].consumed
    BY DEF ReplayReasonHasEvidence
  <2>1. CASE sessions'[s] = sessions[s]
    BY <1>2, <2>1 DEF ChainInv, ReplayReasonHasEvidence
  <2>2. CASE sessions'[s] # sessions[s]
    <3>1. PICK S \in SUBSET SessionIds, why \in Reasons :
             /\ sessions' = Revoked(S, why)
             /\ why = "replay" => \A x \in S :
                   sessions[x].state = "open" =>
                       \E t \in TokenIds : /\ tokens[t].session = x
                                           /\ tokens[t].consumed \/ tokens[t].revoked
      BY DEF RevokeShape
    <3>2. s \in S /\ sessions[s].state = "open" /\ sessions'[s].reason = why
      <4>1. sessions' = Revoked(S, why)
        BY <3>1, Zenon
      <4>2. sessions'[s] = IF s \in S /\ sessions[s].state = "open"
              THEN [sessions[s] EXCEPT !.state = "revoked", !.reason = why] ELSE sessions[s]
        BY <4>1 DEF Revoked
      <4>3. sessions[s] \in SessionRow
        BY DEF TypeOK
      <4> QED BY <2>2, <4>2, <4>3 DEF SessionRow
    <3>3. PICK t \in TokenIds : /\ tokens[t].session = s
                                /\ tokens[t].consumed \/ tokens[t].revoked
      BY <3>1, <3>2
    <3>4. tokens[t].consumed
      BY <3>2, <3>3 DEF ChainInv, RevokedTokenClosesChain
    <3> QED BY <1>2, <3>3, <3>4
  <2> QED BY <2>1, <2>2
<1>9. ParentIsSpent' /\ OneSuccessor'
  BY <1>2, <1>3 DEF ChainInv, ParentIsSpent, OneSuccessor, TypeOK
<1> QED BY <1>4, <1>5, <1>6, <1>7, <1>8, <1>9 DEF ChainInv

\* TypeOK and ChainInv hold initially, and every step preserves them together.
LEMMA StoreInit == Init => TypeOK /\ ChainInv
<1>1. Init => TypeOK
  BY DEF Init, DirectoryInit, TypeOK, DirectoryTypeOK, UserStates, PrincipalStates,
     OrgStatuses, NoMembership, Membership, MemberStatuses, ManagementRoles,
     NoSession, SessionRow, NoToken, TokenRow
<1>2. Init => ChainInv
  BY DEF Init, ChainInv, RowsAreWhole, CurrentTokenIsUnspent, TokensExpireWithSession,
     RevokedTokenClosesChain, ReplayReasonHasEvidence, ParentIsSpent, OneSuccessor,
     Stored, NoSession, NoToken
<1> QED BY <1>1, <1>2

LEMMA StoreStep ==
    ASSUME TypeOK, ChainInv, [Next]_vars
    PROVE  TypeOK' /\ ChainInv'
<1>1. CASE UNCHANGED vars
  <2> USE <1>1 DEF vars, directoryVars, sessionVars
  <2>1. TypeOK'
    BY DEF TypeOK, DirectoryTypeOK
  <2>2. RowsAreWhole' /\ CurrentTokenIsUnspent' /\ TokensExpireWithSession'
    BY DEF ChainInv, RowsAreWhole, CurrentTokenIsUnspent, TokensExpireWithSession, Stored
  <2>3. RevokedTokenClosesChain' /\ ReplayReasonHasEvidence'
    BY DEF ChainInv, RevokedTokenClosesChain, ReplayReasonHasEvidence
  <2>4. ParentIsSpent' /\ OneSuccessor'
    BY DEF ChainInv, ParentIsSpent, OneSuccessor
  <2> QED BY <2>1, <2>2, <2>3, <2>4 DEF ChainInv
<1>2. CASE Next
  <2>1. TypeOK'
    BY <1>2, TypeStep DEF ChainInv
  <2>2. CreateShape \/ RotateShape \/ DeleteShape \/ RevokeShape
    BY <1>2, StepShapes, ClockStep
  <2> QED BY <2>1, <2>2, ChainCreate, ChainRotate, ChainDelete, ChainRevoke
<1> QED BY <1>1, <1>2

\* TypeOK and ChainInv together are an inductive invariant of the store.
THEOREM StoreCorrect == Spec => [](TypeOK /\ ChainInv)
<1>1. TypeOK /\ ChainInv /\ [Next]_vars => (TypeOK /\ ChainInv)'
  BY StoreStep
<1> QED BY <1>1, StoreInit, PTL DEF Spec

\* The tables always hold well-typed rows, whatever transactions run.
THEOREM TypeCorrect == Spec => []TypeOK
BY StoreCorrect, PTL

\* A refresh token is exchanged at most once: every presentation of it but the
\* first successful one is refused, however presentations interleave.
THEOREM ExchangedOnce == Spec => []OneSuccessor
<1>1. ChainInv => OneSuccessor
  BY DEF ChainInv
<1> QED BY <1>1, StoreCorrect, PTL

\* current_refresh_token_id is the one unconsumed token of the chain.
THEOREM CurrentUnspent == Spec => []CurrentTokenIsUnspent
<1>1. ChainInv => CurrentTokenIsUnspent
  BY DEF ChainInv
<1> QED BY <1>1, StoreCorrect, PTL

\* Rotation never extends the life of a login.
THEOREM ExpiryFixed == Spec => []TokensExpireWithSession
<1>1. ChainInv => TokensExpireWithSession
  BY DEF ChainInv
<1> QED BY <1>1, StoreCorrect, PTL

\* A chain is branded as replayed only when one of its tokens was consumed.
THEOREM NoFalseReplay == Spec => []ReplayReasonHasEvidence
<1>1. ChainInv => ReplayReasonHasEvidence
  BY DEF ChainInv
<1> QED BY <1>1, StoreCorrect, PTL

-----------------------------------------------------------------------------
(* Scoped sessions keep a valid context *)

\* what ScopedSessionsHaveContext asks of a scoped session's user and organization
InContext(u, o) ==
    /\ orgs[o] = "active"
    /\ users[u] = "active"
    /\ members[o][u].status = "active"
    /\ ClassFits(u, o)

\* Every session usable after the step was usable before it, for the same user
\* and the same organization.
LiveShrinks ==
    \A s \in SessionIds : Live(s)' =>
        /\ Live(s)
        /\ sessions'[s].user = sessions[s].user
        /\ sessions'[s].org = sessions[s].org

LEMMA ShapesShrinkLive ==
    ASSUME TypeOK, ChainInv, RotateShape \/ DeleteShape \/ RevokeShape
    PROVE  LiveShrinks
<1>1. CASE RotateShape
  <2>1. PICK t \in TokenIds, new \in TokenIds, s \in SessionIds : RotatedRows(t, new, s)
    BY <1>1, RotateRows
  <2>2. now' = now
    BY <1>1, RotateRows
  <2>3. Live(s) /\ sessions'[s].user = sessions[s].user /\ sessions'[s].org = sessions[s].org
    BY <2>1 DEF RotatedRows, Live
  <2>4. \A x \in SessionIds \ {s} : sessions'[x] = sessions[x]
    BY <2>1 DEF RotatedRows
  <2> QED BY <2>2, <2>3, <2>4 DEF LiveShrinks, Live
<1>2. CASE DeleteShape
  <2>1. PICK u \in Users : DeleteUser(u)
    BY <1>2 DEF DeleteShape
  <2>2. \A s \in SessionIds :
           /\ s \in SessionsOf(u) => sessions'[s].state = "deleted"
           /\ s \notin SessionsOf(u) => sessions'[s] = sessions[s]
    BY <2>1, DeleteRows
  <2>3. now' = now
    BY <2>1 DEF DeleteUser
  <2> QED BY <2>2, <2>3 DEF LiveShrinks, Live
<1>3. CASE RevokeShape
  <2>1. \A s \in SessionIds :
           /\ sessions'[s].user = sessions[s].user
           /\ sessions'[s].org = sessions[s].org
           /\ sessions'[s].expires = sessions[s].expires
           /\ sessions'[s] = sessions[s] \/
                (sessions[s].state = "open" /\ sessions'[s].state = "revoked")
    BY <1>3, RevokeRows
  <2>2. now' \in Nat /\ now <= now' /\ now \in Nat
    BY <1>3 DEF RevokeShape, TypeOK
  <2>3. \A s \in SessionIds : sessions[s].expires \in Nat
    BY DEF TypeOK, SessionRow
  <2> QED BY <2>1, <2>2, <2>3 DEF LiveShrinks, Live
<1> QED BY <1>1, <1>2, <1>3

\* An action that revokes S leaves no member of S usable.
LEMMA RevokedNotLive ==
    ASSUME TypeOK, NEW S, NEW why, sessions' = Revoked(S, why), NEW s \in SessionIds, s \in S
    PROVE  ~Live(s)'
<1>1. sessions'[s] = IF sessions[s].state = "open"
        THEN [sessions[s] EXCEPT !.state = "revoked", !.reason = why] ELSE sessions[s]
  BY DEF Revoked
<1>2. sessions[s] \in SessionRow
  BY DEF TypeOK
<1>3. sessions'[s].state # "open"
  BY <1>1, <1>2 DEF SessionRow
<1> QED BY <1>3 DEF Live

LEMMA ContextStep ==
    ASSUME TypeOK, TypeOK', ChainInv, ScopedSessionsHaveContext, Next
    PROVE  ScopedSessionsHaveContext'
<1> SUFFICES ASSUME NEW s \in SessionIds, NEW o \in Orgs, Live(s)', sessions'[s].org = o
             PROVE  InContext(sessions[s].user, o)'
  BY DEF ScopedSessionsHaveContext, InContext, ClassFits
<1>1. CASE CreateShape
  <2>1. PICK v \in Users, c \in Clients, p \in OrgScopes, x \in SessionIds,
             t \in TokenIds, e \in Nat : CreateRefreshSession(v, c, p, x, t, e)
    BY <1>1, Zenon DEF CreateShape
  <2>2. UNCHANGED <<directoryVars, now>>
    BY <2>1 DEF CreateRefreshSession
  <2>3. CASE s = x
    <3>1. sessions'[s].user = v /\ sessions'[s].org = p
      BY <2>1, <2>3 DEF CreateRefreshSession, TypeOK
    <3>2. ActiveContext(v, o)
      BY <2>1, <3>1, DirectoryAssumption DEF CreateRefreshSession
    <3> QED BY <2>2, <3>1, <3>2 DEF ActiveContext, InContext, directoryVars, ClassFits
  <2>4. CASE s # x
    <3>1. sessions'[s] = sessions[s]
      BY <2>1, <2>4 DEF CreateRefreshSession, TypeOK
    <3>2. InContext(sessions[s].user, o)
      BY <2>2, <3>1 DEF ScopedSessionsHaveContext, Live, InContext
    <3> QED BY <2>2, <3>1, <3>2 DEF InContext, directoryVars, ClassFits
  <2> QED BY <2>3, <2>4
<1>2. CASE ~CreateShape
  <2>1. LiveShrinks
    BY <1>2, StepShapes, ClockStep, ShapesShrinkLive
  <2>a. PICK u : u = sessions[s].user
    OBVIOUS
  <2>2. Live(s) /\ sessions[s].org = o /\ sessions'[s].user = u
    BY <2>a, <2>1 DEF LiveShrinks
  <2>3. InContext(u, o)
    BY <2>a, <2>2 DEF ScopedSessionsHaveContext, InContext
  <2>4. u \in Users /\ Stored(s)
    BY <2>a, <2>2 DEF ChainInv, RowsAreWhole, Live, Stored
  <2>5. SUFFICES InContext(u, o)'
    BY <2>2 DEF InContext, ClassFits
  <2>6. CASE UNCHANGED <<users, orgs, members>>
    BY <2>3, <2>6 DEF InContext, ClassFits
  <2>7. CASE TokenNext \/ Tick
    BY <2>6, <2>7, TokenFrame DEF directoryVars, Tick
  <2>8. CASE AccountNext
    <3>1. PICK v \in Users : \/ DisableUser(v) \/ (\E pw \in BOOLEAN : EnableUser(v, pw)) \/ ChangePassword(v)
                             \/ DeleteUser(v) \/ \E a \in BOOLEAN : SyncPrincipal(v, a)
      BY <2>8, Zenon DEF AccountNext
    <3>2. CASE DisableUser(v)
      <4>1. u # v
        BY <2>a, <3>2, <2>4, RevokedNotLive DEF DisableUser, SessionsOf
      <4> QED BY <2>3, <2>4, <3>2, <4>1
              DEF DisableUser, WriteUserActive, InContext, ClassFits, TypeOK, DirectoryTypeOK
    <3>3. CASE (\E pw \in BOOLEAN : EnableUser(v, pw))
      BY <2>3, <2>4, <3>3
         DEF EnableUser, WriteUserActive, InContext, ClassFits, TypeOK, DirectoryTypeOK
    <3>4. CASE ChangePassword(v) \/ \E a \in BOOLEAN : SyncPrincipal(v, a)
      BY <2>6, <3>4 DEF ChangePassword, SyncPrincipal, UpsertPrincipal, directoryVars
    <3>5. CASE DeleteUser(v)
      <4>1. u # v
        <5>1. s \in SessionsOf(v) => sessions'[s].state = "deleted"
          BY <3>5, DeleteRows
        <5> QED BY <2>a, <2>4, <5>1 DEF SessionsOf, Live
      <4>2. members'[o][u] = members[o][u]
        BY <2>4, <3>5, <4>1 DEF DeleteUser, DeleteUserRows, TypeOK, DirectoryTypeOK
      <4> QED BY <2>3, <2>4, <3>5, <4>1, <4>2
              DEF DeleteUser, DeleteUserRows, InContext, ClassFits, TypeOK, DirectoryTypeOK
    <3> QED BY <3>1, <3>2, <3>3, <3>4, <3>5
  <2>9. ASSUME NEW p \in Orgs, NEW st \in OrgStatuses, SetOrganizationStatus(p, st)
        PROVE  InContext(u, o)'
    <3>1. orgs'[o] = "active"
      <4>1. CASE p = o /\ st # "active"
        <5>1. s \in ScopedTo(o)
          BY <2>2 DEF ScopedTo
        <5>2. sessions' = Revoked(ScopedTo(o), "lifecycle")
          BY <2>3, <2>9, <4>1 DEF SetOrganizationStatus, InContext
        <5> QED BY <5>1, <5>2, RevokedNotLive
      <4>2. CASE p # o \/ st = "active"
        BY <2>3, <2>9, <4>2
           DEF SetOrganizationStatus, WriteOrgStatus, InContext, TypeOK, DirectoryTypeOK
      <4> QED BY <4>1, <4>2
    <3> QED BY <2>3, <2>9, <3>1 DEF SetOrganizationStatus, WriteOrgStatus, InContext, ClassFits
  <2>10. ASSUME NEW p \in Orgs, NEW v \in Users, NEW st \in MemberStatuses, NEW role,
                WriteMembership(p, v, st, role), UNCHANGED <<users, principals, orgs>>,
                RevokeForMembership(p, v, st)
         PROVE  InContext(u, o)'
    <3>1. members'[o][u].status = "active"
      <4>1. CASE p = o /\ v = u /\ st # "active"
        <5>1. s \in ScopedFor(o, u)
          BY <2>a, <2>2, <2>4 DEF ScopedFor, ScopedTo, SessionsOf
        <5>2. sessions' = Revoked(ScopedFor(o, u), "lifecycle")
          BY <2>10, <4>1 DEF RevokeForMembership
        <5> QED BY <5>1, <5>2, RevokedNotLive
      <4>2. CASE p = o /\ v = u /\ st = "active"
        BY <2>4, <2>10, <4>2 DEF WriteMembership, TypeOK, DirectoryTypeOK
      <4>3. CASE p # o \/ v # u
        BY <2>3, <2>4, <2>10, <4>3 DEF WriteMembership, TypeOK, DirectoryTypeOK, InContext
      <4> QED BY <4>1, <4>2, <4>3
    <3> QED BY <2>3, <2>10, <3>1 DEF InContext, ClassFits
  <2>11. ASSUME NEW p \in Orgs, NEW v \in Users, JoinMembership(p, v)
         PROVE  InContext(u, o)'
    <3>1. members'[o][u].status = "active"
      <4>1. members[p] \in [Users -> Membership] /\ members[p][v] \in Membership
        BY DEF TypeOK, DirectoryTypeOK
      <4>2. members' = [members EXCEPT ![p] = [members[p] EXCEPT ![v] =
                           [members[p][v] EXCEPT !.status = "active"]]]
        BY <2>11 DEF JoinMembership, JoinOrganization
      <4> DEFINE row == [members[p][v] EXCEPT !.status = "active"]
      <4>3. row.status = "active"
        BY <4>1 DEF Membership
      <4> HIDE DEF row
      <4>4. members' = [members EXCEPT ![p] = [members[p] EXCEPT ![v] = row]]
        BY <4>2 DEF row
      <4> QED BY <2>3, <2>4, <4>1, <4>3, <4>4 DEF InContext, TypeOK, DirectoryTypeOK
    <3> QED BY <2>3, <2>11, <3>1 DEF JoinMembership, JoinOrganization, InContext, ClassFits
  <2>12. CASE TenantNext
    <3>1. ASSUME NEW p \in Orgs, NEW v \in Users, NEW st \in MemberStatuses,
                 NEW role \in RoleArgs,
                 \/ UpsertMembership(p, v, st, role)
                 \/ \E actor \in Users : UpsertMembershipAsManager(p, actor, v, st, role)
          PROVE  InContext(u, o)'
      <4>1. /\ WriteMembership(p, v, st, role) /\ UNCHANGED <<users, principals, orgs>>
            /\ RevokeForMembership(p, v, st)
        BY <3>1, Zenon DEF UpsertMembership, UpsertMembershipAsManager,
           PlatformPutMembership, ManagerPutMembership
      <4> QED BY <4>1, <2>10
    <3> QED BY <2>9, <2>11, <2>12, <3>1, Zenon DEF TenantNext
  <2> QED BY <2>7, <2>8, <2>12 DEF Next
<1> QED BY <1>1, <1>2

\* No usable organization-scoped session outlives its account, its membership or
\* its organization: create_refresh_session and every lifecycle transaction agree
\* on it, for any number of users, organizations and sessions.
THEOREM ScopedContext == Spec => []ScopedSessionsHaveContext
<1>1. Init => ScopedSessionsHaveContext
  BY DEF Init, ScopedSessionsHaveContext, Live, NoSession
<1>2. /\ TypeOK /\ ChainInv /\ TypeOK' /\ ScopedSessionsHaveContext /\ [Next]_vars
      => ScopedSessionsHaveContext'
  <2> SUFFICES ASSUME TypeOK, ChainInv, TypeOK', ScopedSessionsHaveContext, [Next]_vars
               PROVE  ScopedSessionsHaveContext'
    OBVIOUS
  <2>1. CASE UNCHANGED vars
    BY <2>1 DEF vars, directoryVars, sessionVars, ScopedSessionsHaveContext, Live, ClassFits
  <2> QED BY <2>1, ContextStep
<1> QED BY <1>1, <1>2, StoreCorrect, PTL DEF Spec

-----------------------------------------------------------------------------
(* Action properties *)

\* A revoked session is never reopened or rotated and keeps its first reason.
THEOREM RevocationFinal == Spec => FirstRevocationStands
<1> DEFINE Stands == \A s \in SessionIds : sessions[s].state = "revoked" =>
                        /\ sessions'[s].state \in {"revoked", "deleted"}
                        /\ sessions'[s].reason = sessions[s].reason
                        /\ sessions'[s].current = sessions[s].current
<1>1. TypeOK /\ ChainInv /\ [Next]_vars => [Stands]_vars
  <2> SUFFICES ASSUME TypeOK, ChainInv, Next PROVE Stands
    OBVIOUS
  <2>1. CASE CreateShape
    <3>1. PICK u \in Users, c \in Clients, o \in OrgScopes, s \in SessionIds,
               t \in TokenIds, e \in Nat : CreateRefreshSession(u, c, o, s, t, e)
      BY <2>1, Zenon DEF CreateShape
    <3>2. sessions[s].state = "absent" /\ \A x \in SessionIds \ {s} : sessions'[x] = sessions[x]
      BY <3>1 DEF CreateRefreshSession, TypeOK
    <3> QED BY <3>2
  <2>2. CASE RotateShape
    <3>1. PICK t \in TokenIds, new \in TokenIds, s \in SessionIds : RotatedRows(t, new, s)
      BY <2>2, RotateRows
    <3>2. sessions[s].state = "open" /\ \A x \in SessionIds \ {s} : sessions'[x] = sessions[x]
      BY <3>1 DEF RotatedRows
    <3> QED BY <3>2
  <2>3. CASE DeleteShape
    <3>1. PICK u \in Users : DeleteUser(u)
      BY <2>3 DEF DeleteShape
    <3>2. \A s \in SessionIds :
             /\ sessions'[s].current = sessions[s].current
             /\ sessions'[s].reason = sessions[s].reason
             /\ s \in SessionsOf(u) => sessions'[s].state = "deleted"
             /\ s \notin SessionsOf(u) => sessions'[s] = sessions[s]
      BY <3>1, DeleteRows
    <3> QED BY <3>2
  <2>4. CASE RevokeShape
    <3>1. \A s \in SessionIds : sessions'[s] = sessions[s] \/ sessions[s].state = "open"
      BY <2>4, RevokeRows
    <3> QED BY <3>1
  <2> QED BY <2>1, <2>2, <2>3, <2>4, StepShapes, ClockStep
<1> QED BY <1>1, StoreCorrect, PTL DEF Spec, FirstRevocationStands

\* Suspending a member or an organization revokes no session of anybody else.
THEOREM RevocationTargeted == Spec => TenantRevocationIsTargeted
<1> DEFINE Targeted == \A s \in SessionIds :
              /\ sessions[s].state = "open" /\ sessions'[s].state = "revoked"
              /\ <<orgs, members>>' # <<orgs, members>>
              => \E o \in Orgs : /\ sessions[s].org = o
                                 /\ \/ orgs'[o] # "active"
                                    \/ members'[o][sessions[s].user].status # "active"
<1>1. TypeOK /\ [Next]_vars => [Targeted]_vars
  <2> SUFFICES ASSUME TypeOK, Next,
                      NEW s \in SessionIds,
                      sessions[s].state = "open", sessions'[s].state = "revoked",
                      ~UNCHANGED <<orgs, members>>
               PROVE  \E o \in Orgs : /\ sessions[s].org = o
                                      /\ \/ orgs'[o] # "active"
                                         \/ members'[o][sessions[s].user].status # "active"
    OBVIOUS
  <2>1. CASE TokenNext \/ Tick
    BY <2>1, TokenFrame DEF Tick, directoryVars
  <2>2. CASE AccountNext
    <3>1. PICK u \in Users : \/ DisableUser(u) \/ (\E pw \in BOOLEAN : EnableUser(u, pw)) \/ ChangePassword(u)
                             \/ DeleteUser(u) \/ \E a \in BOOLEAN : SyncPrincipal(u, a)
      BY <2>2, Zenon DEF AccountNext
    <3>2. CASE DeleteUser(u)
      BY <3>2, DeleteRows
    <3>3. CASE ~DeleteUser(u)
      BY <3>1, <3>3 DEF DisableUser, EnableUser, ChangePassword, SyncPrincipal,
         WriteUserActive, UpsertPrincipal, directoryVars
    <3> QED BY <3>2, <3>3
  <2>3. ASSUME NEW o \in Orgs, NEW st \in OrgStatuses, SetOrganizationStatus(o, st)
        PROVE  sessions[s].org = o /\ orgs'[o] # "active"
    <3>1. st # "active" /\ sessions' = Revoked(ScopedTo(o), "lifecycle")
      BY <2>3 DEF SetOrganizationStatus
    <3>2. s \in ScopedTo(o)
      BY <3>1 DEF Revoked
    <3>3. orgs' = [orgs EXCEPT ![o] = st]
      BY <2>3 DEF SetOrganizationStatus, WriteOrgStatus
    <3> QED BY <3>1, <3>2, <3>3 DEF ScopedTo, TypeOK, DirectoryTypeOK
  <2>4. ASSUME NEW o \in Orgs, NEW u \in Users, NEW st \in MemberStatuses, NEW role,
               WriteMembership(o, u, st, role), RevokeForMembership(o, u, st)
        PROVE  sessions[s].org = o /\ members'[o][sessions[s].user].status # "active"
    <3>1. st # "active" /\ sessions' = Revoked(ScopedFor(o, u), "lifecycle")
      BY <2>4 DEF RevokeForMembership
    <3>2. s \in ScopedFor(o, u)
      BY <3>1 DEF Revoked
    <3>3. members'[o][u].status = st
      BY <2>4 DEF WriteMembership, TypeOK, DirectoryTypeOK
    <3> QED BY <3>1, <3>2, <3>3 DEF ScopedFor, ScopedTo, SessionsOf
  <2>5. ASSUME NEW o, NEW u, JoinMembership(o, u)
        PROVE  FALSE
    BY <2>5 DEF JoinMembership, sessionVars
  <2>6. CASE TenantNext
    <3>1. ASSUME NEW o \in Orgs, NEW u \in Users, NEW st \in MemberStatuses,
                 NEW role \in RoleArgs,
                 \/ UpsertMembership(o, u, st, role)
                 \/ \E actor \in Users : UpsertMembershipAsManager(o, actor, u, st, role)
          PROVE  sessions[s].org = o /\ members'[o][sessions[s].user].status # "active"
      <4>1. WriteMembership(o, u, st, role) /\ RevokeForMembership(o, u, st)
        BY <3>1, Zenon DEF UpsertMembership, UpsertMembershipAsManager,
           PlatformPutMembership, ManagerPutMembership
      <4> QED BY <4>1, <2>4
    <3> QED BY <2>3, <2>5, <2>6, <3>1, Zenon DEF TenantNext
  <2> QED BY <2>1, <2>2, <2>6 DEF Next
<1> QED BY <1>1, StoreCorrect, PTL DEF Spec, TenantRevocationIsTargeted

-----------------------------------------------------------------------------
(* The store implements the abstract family of one-time tokens *)

\* the abstract state of one session
FamilyOf(s) == IF sessions[s].state = "absent" THEN "unborn"
               ELSE IF Live(s) THEN "live" ELSE "dead"

EndOf(s) == IF sessions[s].current = None THEN 0 ELSE tokens[sessions[s].current].expires

\* An unstored token is fresh: it was neither exchanged nor is it held.
LEMMA AbsentIsFresh ==
    ASSUME TypeOK, ChainInv, NEW t \in TokenIds, tokens[t].state = "absent"
    PROVE  ~tokens[t].consumed /\ \A s \in SessionIds : sessions[s].current # t
<1>1. tokens[t] = NoToken
  BY DEF ChainInv, RowsAreWhole
<1>2. ASSUME NEW s \in SessionIds PROVE sessions[s].current # t
  <2>1. CASE sessions[s].state = "absent"
    BY <2>1, SessionAssumption DEF ChainInv, RowsAreWhole, NoSession
  <2>2. CASE sessions[s].state # "absent"
    BY <2>2 DEF ChainInv, RowsAreWhole
  <2> QED BY <2>1, <2>2
<1> QED BY <1>1, <1>2 DEF NoToken

LEMMA CreateOpens ==
    ASSUME TypeOK, ChainInv, CreateShape
    PROVE  Family!FamilyNext
<1>1. PICK u \in Users, c \in Clients, o \in OrgScopes, s \in SessionIds,
           t \in TokenIds, e \in Nat : CreateRefreshSession(u, c, o, s, t, e)
  BY Zenon DEF CreateShape
<1>2. /\ sessions[s].state = "absent" /\ sessions'[s].state = "open"
      /\ sessions'[s].current = t
      /\ \A x \in SessionIds \ {s} : sessions'[x] = sessions[x]
  BY <1>1 DEF CreateRefreshSession, TypeOK
<1>3. /\ tokens[t].state = "absent" /\ tokens'[t].consumed = FALSE
      /\ \A y \in TokenIds \ {t} : tokens'[y] = tokens[y]
  BY <1>1 DEF CreateRefreshSession, TypeOK
<1>4. now' = now
  BY <1>1 DEF CreateRefreshSession
<1>5. ~tokens[t].consumed /\ \A x \in SessionIds : sessions[x].current # t
  BY <1>3, AbsentIsFresh
<1>6. [x \in SessionIds |-> FamilyOf(x)]' =
        [[x \in SessionIds |-> FamilyOf(x)] EXCEPT ![s] = FamilyOf(s)']
  BY <1>2, <1>4 DEF FamilyOf, Live
<1>7. FamilyOf(s)' \in {"live", "dead"} /\ FamilyOf(s) = "unborn"
  BY <1>2 DEF FamilyOf
<1>8. [x \in SessionIds |-> sessions[x].current]' =
        [[x \in SessionIds |-> sessions[x].current] EXCEPT ![s] = t]
  BY <1>2
<1>9. {y \in TokenIds : tokens[y].consumed}' = {y \in TokenIds : tokens[y].consumed}
  BY <1>3, <1>5
<1>10. [x \in SessionIds |-> EndOf(x)]' = [[x \in SessionIds |-> EndOf(x)] EXCEPT ![s] = EndOf(s)']
  <2>1. ASSUME NEW x \in SessionIds \ {s}
        PROVE  EndOf(x)' = EndOf(x)
    <3>1. sessions'[x] = sessions[x] /\ sessions[x].current \in TokenIds \cup {None} /\ sessions[x].current # t
      BY <1>2, <1>5 DEF TypeOK, SessionRow
    <3> QED BY <1>3, <3>1 DEF EndOf
  <2> QED BY <2>1
<1>11. Family!Open(s, t)
  BY <1>5, <1>6, <1>7, <1>8, <1>9, <1>10 DEF Family!Open, Family!Fresh, FamilyOf, EndOf
<1> QED BY <1>11 DEF Family!FamilyNext

LEMMA RotationRotates ==
    ASSUME TypeOK, ChainInv, RotateShape
    PROVE  Family!FamilyNext
<1>1. PICK t \in TokenIds, new \in TokenIds, s \in SessionIds : RotatedRows(t, new, s)
  BY RotateRows
<1>2. now' = now
  BY RotateRows
<1>3. /\ t # new /\ tokens[new] = NoToken
      /\ sessions[s].state = "open" /\ sessions[s].current = t /\ sessions[s].expires > now
      /\ sessions'[s].state = "open" /\ sessions'[s].current = new
      /\ sessions'[s].expires = sessions[s].expires
      /\ \A x \in SessionIds \ {s} : sessions'[x] = sessions[x]
  BY <1>1 DEF RotatedRows
<1>4. /\ tokens'[t].consumed = TRUE /\ tokens'[new].consumed = FALSE
      /\ \A y \in TokenIds \ {t, new} : tokens'[y] = tokens[y]
  BY <1>1 DEF RotatedRows
<1>5. ~tokens[new].consumed /\ \A x \in SessionIds : sessions[x].current # new
  BY <1>3, AbsentIsFresh DEF NoToken
<1>6. [x \in SessionIds |-> FamilyOf(x)]' = [x \in SessionIds |-> FamilyOf(x)]
  BY <1>2, <1>3 DEF FamilyOf, Live
<1>7. FamilyOf(s) = "live"
  BY <1>3 DEF FamilyOf, Live
<1>8. [x \in SessionIds |-> sessions[x].current]' =
        [[x \in SessionIds |-> sessions[x].current] EXCEPT ![s] = new]
  BY <1>3
<1>9. {y \in TokenIds : tokens[y].consumed}' = {y \in TokenIds : tokens[y].consumed} \cup {t}
  BY <1>4, <1>5
<1>10. [x \in SessionIds |-> EndOf(x)]' = [x \in SessionIds |-> EndOf(x)]
  <2>1. tokens'[new].expires = tokens[t].expires /\ tokens'[t].expires = tokens[t].expires
    BY <1>1 DEF RotatedRows, ChainInv, TokensExpireWithSession
  <2>2. ASSUME NEW x \in SessionIds
        PROVE  EndOf(x)' = EndOf(x)
    <3>1. CASE x = s
      BY <1>1, <1>3, <2>1, <3>1, SessionAssumption DEF EndOf
    <3>2. CASE x # s
      <4>1. sessions'[x] = sessions[x] /\ sessions[x].current \in TokenIds \cup {None} /\ sessions[x].current # new
        BY <1>3, <1>5, <3>2 DEF TypeOK, SessionRow
      <4> QED BY <1>4, <2>1, <4>1 DEF EndOf
    <3> QED BY <3>1, <3>2
  <2> QED BY <2>2
<1>11. Family!Rotate(s, new)
  BY <1>3, <1>5, <1>6, <1>7, <1>8, <1>9, <1>10 DEF Family!Rotate, Family!Fresh, FamilyOf, EndOf
<1> QED BY <1>11 DEF Family!FamilyNext

\* A step that writes no current token and consumes none, and after which no
\* session lives that did not live before, ends some families.
LEMMA OthersKill ==
    ASSUME TypeOK, ChainInv, LiveShrinks,
           \A s \in SessionIds :
               /\ sessions'[s].current = sessions[s].current
               /\ sessions'[s].state = "absent" <=> sessions[s].state = "absent",
           \A t \in TokenIds : tokens'[t].consumed = tokens[t].consumed /\ tokens'[t].expires = tokens[t].expires
    PROVE  Family!FamilyNext
<1>0. PICK D \in SUBSET SessionIds : D = {s \in SessionIds : Live(s) /\ ~Live(s)'}
  OBVIOUS
<1>1. [x \in SessionIds |-> FamilyOf(x)]' =
        [x \in SessionIds |-> IF x \in D THEN "dead" ELSE FamilyOf(x)]
  <2>1. ASSUME NEW x \in SessionIds
        PROVE  FamilyOf(x)' = IF x \in D THEN "dead" ELSE FamilyOf(x)
    BY <1>0 DEF FamilyOf, LiveShrinks, Live
  <2> QED BY <2>1
<1>2. \A x \in D : FamilyOf(x) = "live"
  BY <1>0 DEF FamilyOf, Live
<1>3. [x \in SessionIds |-> sessions[x].current]' = [x \in SessionIds |-> sessions[x].current]
  OBVIOUS
<1>4. {y \in TokenIds : tokens[y].consumed}' = {y \in TokenIds : tokens[y].consumed}
  OBVIOUS
<1>5. [x \in SessionIds |-> EndOf(x)]' = [x \in SessionIds |-> EndOf(x)]
  <2>1. \A x \in SessionIds : sessions[x].current \in TokenIds \cup {None}
    BY DEF TypeOK, SessionRow
  <2> QED BY <2>1 DEF EndOf
<1>6. Family!Kill(D)
  BY <1>1, <1>2, <1>3, <1>4, <1>5 DEF Family!Kill, FamilyOf, EndOf
<1> QED BY <1>6, Zenon DEF Family!FamilyNext

\* Refresh sessions are families of one-time tokens: a session is opened once,
\* one token at a time may be exchanged, its successor expires when it did, and
\* a revoked, deleted or expired session is never rotated again.
THEOREM Refinement == Spec => ImplementsTokenFamily
<1>1. Init => Family!FamilyInit
  BY DEF Init, Family!FamilyInit, NoSession, NoToken
<1>2. TypeOK /\ ChainInv /\ [Next]_vars => [Family!FamilyNext]_(Family!familyVars)
  <2> SUFFICES ASSUME TypeOK, ChainInv, [Next]_vars
               PROVE  [Family!FamilyNext]_(Family!familyVars)
    OBVIOUS
  <2>1. CASE UNCHANGED vars
    BY <2>1 DEF vars, sessionVars, Family!familyVars, Live
  <2>2. CASE CreateShape \/ RotateShape
    BY <2>2, CreateOpens, RotationRotates
  <2>3. CASE DeleteShape
    <3>1. PICK u \in Users : DeleteUser(u)
      BY <2>3 DEF DeleteShape
    <3>2. \A s \in SessionIds :
             /\ sessions'[s].current = sessions[s].current
             /\ s \in SessionsOf(u) => sessions'[s].state = "deleted"
             /\ s \notin SessionsOf(u) => sessions'[s] = sessions[s]
      BY <3>1, DeleteRows
    <3>3. \A s \in SessionIds : sessions'[s].state = "absent" <=> sessions[s].state = "absent"
      BY <3>2 DEF SessionsOf, Stored
    <3>4. \A t \in TokenIds : tokens'[t].consumed = tokens[t].consumed /\ tokens'[t].expires = tokens[t].expires
      BY <3>1, DeleteRows
    <3>5. LiveShrinks
      BY <2>3, ShapesShrinkLive
    <3> QED BY <3>2, <3>3, <3>4, <3>5, OthersKill
  <2>4. CASE RevokeShape
    <3>1. \A s \in SessionIds :
             /\ sessions'[s].current = sessions[s].current
             /\ sessions'[s] = sessions[s] \/
                  (sessions[s].state = "open" /\ sessions'[s].state = "revoked")
      BY <2>4, RevokeRows
    <3>2. \A s \in SessionIds : sessions'[s].state = "absent" <=> sessions[s].state = "absent"
      BY <3>1
    <3>3. \A t \in TokenIds : tokens'[t].consumed = tokens[t].consumed /\ tokens'[t].expires = tokens[t].expires
      BY <2>4, RevokeRows
    <3>4. LiveShrinks
      BY <2>4, ShapesShrinkLive
    <3> QED BY <3>1, <3>2, <3>3, <3>4, OthersKill
  <2> QED BY <2>1, <2>2, <2>3, <2>4, StepShapes, ClockStep
<1> QED BY <1>1, <1>2, StoreCorrect, PTL DEF Spec, ImplementsTokenFamily, Family!FamilySpec
=============================================================================
