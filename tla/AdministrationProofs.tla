------------------------ MODULE AdministrationProofs ------------------------
(***************************************************************************)
(* What the administration interface promises, for any number of members,  *)
(* accounts, roles, handlers and setup calls.  The components write no row *)
(* of one another, so each has its own specification and its own           *)
(* inductive invariant:                                                    *)
(*                                                                         *)
(*   - OrgInv: the rows have the columns' values; with them the property   *)
(*     itself is inductive;                                                *)
(*   - SetupInv: the session a call locks on is the only one that holds    *)
(*     the lock, hence at most one call is past the second check, hence    *)
(*     what that check saw stays true;                                     *)
(*   - HistoryInv: nothing a handler has read is newer than the row, and a *)
(*     version is written by one handler;                                  *)
(*   - RbacInv: what an unlocked check or read saw stays true until the    *)
(*     step that uses it, unless a race was recorded;                      *)
(*   - DecisionInv: what a request has established at each of its steps;   *)
(*   - LocksInv: no row is locked twice, and the rows a transaction has    *)
(*     locked are below the ones it still wants.                           *)
(***************************************************************************)
EXTENDS Organization, Setup, ChangeHistory, Rbac, RowLocks, FiniteSetTheorems, SequenceTheorems, TLAPS

-----------------------------------------------------------------------------
(* Memberships *)

Authority == {"platform", "owner"}

\* The rows have the columns' values, and OwnersAnswerToOwners.
OrgInv ==
    /\ member \in [Members -> [status : MemberStatus \cup {"none"}, role : ManagementRole]]
    /\ DOMAIN made = Members
    /\ OwnersAnswerToOwners

\* A manager is an admin or an owner.
LEMMA ManagerRoles ==
    ASSUME OrgInv, NEW a \in Members, ManagerRole(a) # "none"
    PROVE  ManagerRole(a) \in {"admin", "owner"}
BY DEF ManagerRole, OrgInv, ManagementRole

\* A row written on the authority of the platform or of an owner, or one that
\* neither makes an owner nor takes an active owner's rights.
LEMMA SetRowKeeps ==
    ASSUME OrgInv, NEW p \in Members, NEW status \in MemberStatus, NEW role \in ManagementRole, NEW by,
           SetRow(p, [status |-> status, role |-> role], by),
           \/ by \in Authority
           \/ /\ role = "owner" => member[p].role = "owner"
              /\ IsOwner(member[p]) => IsOwner([status |-> status, role |-> role])
    PROVE  OrgInv'
<1> DEFINE m == [status |-> status, role |-> role]
<1>1. member' = [member EXCEPT ![p] = m]
  BY DEF SetRow
<1>2. member' \in [Members -> [status : MemberStatus \cup {"none"}, role : ManagementRole]]
  BY <1>1 DEF OrgInv
<1>3. DOMAIN made' = Members
  BY DEF SetRow, OrgInv
<1>4. ASSUME NEW q \in Members, member'[q].role = "owner"
      PROVE  made'[q] \in Authority
  <2>1. CASE q # p
    BY <2>1, <1>1, <1>4 DEF SetRow, OrgInv, OwnersAnswerToOwners, Authority
  <2>2. CASE q = p /\ member[p].role = "owner"
    BY <2>2, <1>1, <1>4 DEF SetRow, OrgInv, OwnersAnswerToOwners, Authority
  <2>3. CASE q = p /\ member[p].role # "owner"
    <3>1. role = "owner" /\ by \in Authority
      BY <2>3, <1>1, <1>4 DEF OrgInv
    <3> QED BY <2>3, <3>1 DEF SetRow, OrgInv
  <2> QED BY <2>1, <2>2, <2>3
<1>5. unmade' \subseteq Authority
  BY DEF SetRow, OrgInv, OwnersAnswerToOwners, Authority
<1> QED BY <1>2, <1>3, <1>4, <1>5 DEF OrgInv, OwnersAnswerToOwners, Authority

\* COALESCE names a role or keeps the row's.
LEMMA UpsertedRow ==
    ASSUME OrgInv, NEW p \in Members, NEW status \in MemberStatus, NEW role \in ManagementRole \cup {"unnamed"}
    PROVE  \E r \in ManagementRole :
              /\ Upserted(p, status, role) = [status |-> status, role |-> r]
              /\ r = IF role = "unnamed" THEN member[p].role ELSE role
BY DEF OrgInv, Upserted

\* A manager who is no owner neither makes an owner nor unmakes one.
LEMMA UpsertAsManagerKeeps ==
    ASSUME OrgInv, NEW a \in Members, NEW p \in Members, NEW status \in MemberStatus,
           NEW role \in ManagementRole \cup {"unnamed"}, UpsertAsManager(a, p, status, role)
    PROVE  OrgInv'
<1>1. CASE status = "pending" /\ member[p].status = "active"
  BY <1>1 DEF UpsertAsManager, OrgInv, OwnersAnswerToOwners
<1>2. CASE ~(status = "pending" /\ member[p].status = "active")
  <2>1. SetRow(p, Upserted(p, status, role), ManagerRole(a))
    BY <1>2 DEF UpsertAsManager
  <2>2. PICK r \in ManagementRole :
              /\ Upserted(p, status, role) = [status |-> status, role |-> r]
              /\ r = IF role = "unnamed" THEN member[p].role ELSE role
    BY UpsertedRow
  <2>3. ManagerRole(a) \in {"admin", "owner"}
    BY ManagerRoles DEF UpsertAsManager
  <2>4. CASE ManagerRole(a) = "owner"
    BY <2>1, <2>2, <2>4, SetRowKeeps DEF Authority
  <2>5. CASE ManagerRole(a) = "admin"
    <3>1. role # "owner" /\ (member[p].role = "owner" => status = "active" /\ role = "unnamed")
      BY <2>5 DEF UpsertAsManager, OwnerIsProtected
    <3>2. r = "owner" => member[p].role = "owner"
      BY <2>2, <3>1
    <3>3. IsOwner(member[p]) => IsOwner([status |-> status, role |-> r])
      BY <2>2, <3>1 DEF IsOwner
    <3> QED BY <2>1, <2>2, <3>2, <3>3, SetRowKeeps
  <2> QED BY <2>3, <2>4, <2>5
<1> QED BY <1>1, <1>2

\* A join activates a membership and changes no role.
LEMMA JoinKeeps ==
    ASSUME OrgInv, NEW p \in Members, JoinOrganization(p)
    PROVE  OrgInv'
<1>1. member' = [member EXCEPT ![p].status = "active"] /\ UNCHANGED <<made, unmade>>
  BY DEF JoinOrganization
<1>2. \A q \in Members : member'[q].role = member[q].role
  BY <1>1 DEF OrgInv
<1>3. member' \in [Members -> [status : MemberStatus \cup {"none"}, role : ManagementRole]]
  BY <1>1 DEF OrgInv, MemberStatus
<1> QED BY <1>1, <1>2, <1>3 DEF OrgInv, OwnersAnswerToOwners

\* Owners are made and unmade by the platform and by active owners only.
THEOREM OwnersSafe == OrgSpec => []OwnersAnswerToOwners
<1>1. OrgInit => OrgInv
  <2> SUFFICES ASSUME OrgInit PROVE OrgInv
    OBVIOUS
  <2>1. NoRow \in [status : MemberStatus \cup {"none"}, role : ManagementRole] /\ NoRow.role # "owner"
    BY DEF NoRow, ManagementRole
  <2>2. member = [p \in Members |-> NoRow] /\ DOMAIN made = Members /\ unmade = {}
    BY DEF OrgInit
  <2> QED BY <2>1, <2>2 DEF OrgInv, OwnersAnswerToOwners
<1>2. ASSUME OrgInv, [OrgNext]_orgVars
      PROVE  OrgInv'
  <2>1. ASSUME NEW s, SetOrganizationStatus(s)
        PROVE  OrgInv'
    BY <1>2, <2>1 DEF SetOrganizationStatus, OrgInv, OwnersAnswerToOwners
  <2>2. ASSUME NEW p \in Members, NEW status \in MemberStatus, NEW role \in ManagementRole \cup {"unnamed"},
               UpsertMembership(p, status, role)
        PROVE  OrgInv'
    BY <1>2, <2>2, UpsertedRow, SetRowKeeps DEF UpsertMembership, Authority
  <2>3. ASSUME NEW p \in Members, NEW status \in MemberStatus, NEW role \in ManagementRole \cup {"unnamed"},
               NEW a \in Members, UpsertAsManager(a, p, status, role)
        PROVE  OrgInv'
    BY <1>2, <2>3, UpsertAsManagerKeeps
  <2>4. ASSUME NEW p \in Members, Promote(p)
        PROVE  OrgInv'
    BY <1>2, <2>4, SetRowKeeps DEF Promote, Authority, MemberStatus, ManagementRole
  <2>5. ASSUME NEW p \in Members, CheckManager(p) \/ EndRequest(p)
        PROVE  OrgInv'
    BY <1>2, <2>5 DEF CheckManager, EndRequest, OrgInv, OwnersAnswerToOwners
  <2>6. ASSUME NEW p \in Members, JoinOrganization(p)
        PROVE  OrgInv'
    BY <1>2, <2>6, JoinKeeps
  <2>7. ASSUME NEW p \in Members, NEW a, ChangeAble(p, a)
        PROVE  OrgInv'
    BY <1>2, <2>7 DEF ChangeAble, OrgInv, OwnersAnswerToOwners
  <2>8. CASE UNCHANGED orgVars
    BY <1>2, <2>8 DEF orgVars, OrgInv, OwnersAnswerToOwners
  <2> QED BY <1>2, <2>1, <2>2, <2>3, <2>4, <2>5, <2>6, <2>7, <2>8, Zenon DEF OrgNext
<1>3. OrgInv => OwnersAnswerToOwners
  BY DEF OrgInv
<1> QED BY <1>1, <1>2, <1>3, PTL DEF OrgSpec

-----------------------------------------------------------------------------
(* The setup wizard *)

\* Between taking the lock and giving it back.
Holding(r) == calls[r].pc \in {"recheck", "seed", "mark", "release"}

Call ==
    [pc : {"start", "lock", "recheck", "seed", "mark", "release", "completed", "refused"},
     id : AdminIds \cup {None}, conn : Connections \cup {None}, ok : BOOLEAN]

SetupTypes ==
    /\ calls \in [SetupCalls -> Call]
    /\ completed \in BOOLEAN
    /\ admin \in [AdminIds -> SetupCalls \cup {None}]
    /\ held \in [Connections -> Nat]
    /\ marked \subseteq SetupCalls

\* The session a call locks on holds the lock and no other session does.
LockIsHeld ==
    \A r \in SetupCalls : Holding(r) =>
        /\ calls[r].conn \in Connections
        /\ held[calls[r].conn] > 0
        /\ \A d \in Connections \ {calls[r].conn} : held[d] = 0

OneHolder == \A r, s \in SetupCalls : Holding(r) /\ Holding(s) => r = s

\* What a call past the second check relies on.
CheckStillHolds ==
    /\ completed = (marked # {})
    /\ \A r \in SetupCalls :
          /\ calls[r].pc # "start" => calls[r].id \in AdminIds
          /\ calls[r].pc \in {"seed", "mark"} => ~completed
          /\ calls[r].pc = "mark" => admin[calls[r].id] = r
          /\ calls[r].ok \/ calls[r].pc = "completed" => r \in marked

MarkedOnce ==
    /\ \A r, s \in marked : r = s
    /\ \A r \in marked : admin[calls[r].id] = r /\ calls[r].pc \in {"release", "completed", "refused"}

SetupInv == SetupTypes /\ LockIsHeld /\ OneHolder /\ CheckStillHolds /\ MarkedOnce

-----------------------------------------------------------------------------
\* The call r becomes c and the other calls stay.
CallBecomes(r, c) == c \in Call /\ calls' = [calls EXCEPT ![r] = c]

\* The updates of a call that the actions write, as one record.
LEMMA CallUpdates ==
    ASSUME SetupTypes, NEW r \in SetupCalls, NEW p \in {"start", "lock", "recheck", "seed", "mark", "release", "completed", "refused"},
           NEW i \in AdminIds, NEW c \in Connections \cup {None}, NEW ok \in BOOLEAN
    PROVE  /\ calls' = [calls EXCEPT ![r].pc = p]
                 => CallBecomes(r, [pc |-> p, id |-> calls[r].id, conn |-> calls[r].conn, ok |-> calls[r].ok])
           /\ calls' = [calls EXCEPT ![r].pc = p, ![r].ok = ok]
                 => CallBecomes(r, [pc |-> p, id |-> calls[r].id, conn |-> calls[r].conn, ok |-> ok])
           /\ calls' = [calls EXCEPT ![r].id = i, ![r].pc = p]
                 => CallBecomes(r, [pc |-> p, id |-> i, conn |-> calls[r].conn, ok |-> calls[r].ok])
           /\ calls' = [calls EXCEPT ![r].pc = p, ![r].conn = c]
                 => CallBecomes(r, [pc |-> p, id |-> calls[r].id, conn |-> c, ok |-> calls[r].ok])
           /\ calls' = [calls EXCEPT ![r].conn = c, ![r].pc = p]
                 => CallBecomes(r, [pc |-> p, id |-> calls[r].id, conn |-> c, ok |-> calls[r].ok])
<1>0. calls[r] \in Call /\ calls \in [SetupCalls -> Call]
  BY DEF SetupTypes
<1>1. calls[r] = [pc |-> calls[r].pc, id |-> calls[r].id, conn |-> calls[r].conn, ok |-> calls[r].ok]
  BY <1>0 DEF Call
<1>2. calls[r].id \in AdminIds \cup {None} /\ calls[r].conn \in Connections \cup {None} /\ calls[r].ok \in BOOLEAN
  BY <1>0 DEF Call
<1>3. calls' = [calls EXCEPT ![r].pc = p]
                 => CallBecomes(r, [pc |-> p, id |-> calls[r].id, conn |-> calls[r].conn, ok |-> calls[r].ok])
  BY <1>0, <1>1, <1>2 DEF CallBecomes, Call
<1>4. calls' = [calls EXCEPT ![r].pc = p, ![r].ok = ok]
                 => CallBecomes(r, [pc |-> p, id |-> calls[r].id, conn |-> calls[r].conn, ok |-> ok])
  BY <1>0, <1>1, <1>2 DEF CallBecomes, Call
<1>5. calls' = [calls EXCEPT ![r].id = i, ![r].pc = p]
                 => CallBecomes(r, [pc |-> p, id |-> i, conn |-> calls[r].conn, ok |-> calls[r].ok])
  BY <1>0, <1>1, <1>2 DEF CallBecomes, Call
<1>6. calls' = [calls EXCEPT ![r].pc = p, ![r].conn = c]
                 => CallBecomes(r, [pc |-> p, id |-> calls[r].id, conn |-> c, ok |-> calls[r].ok])
  BY <1>0, <1>1, <1>2 DEF CallBecomes, Call
<1>7. calls' = [calls EXCEPT ![r].conn = c, ![r].pc = p]
                 => CallBecomes(r, [pc |-> p, id |-> calls[r].id, conn |-> c, ok |-> calls[r].ok])
  BY <1>0, <1>1, <1>2 DEF CallBecomes, Call
<1> QED BY <1>3, <1>4, <1>5, <1>6, <1>7

\* What became of the calls.
LEMMA CallFacts ==
    ASSUME SetupTypes, NEW r \in SetupCalls, NEW c, CallBecomes(r, c)
    PROVE  /\ calls' \in [SetupCalls -> Call]
           /\ calls'[r] = c
           /\ \A s \in SetupCalls \ {r} : calls'[s] = calls[s] /\ (Holding(s)' <=> Holding(s))
BY DEF CallBecomes, SetupTypes, Holding

\* The lock stays with its holder while nobody takes or releases it.
LEMMA LockStays ==
    ASSUME SetupInv, NEW r \in SetupCalls, NEW c, CallBecomes(r, c), UNCHANGED held,
           c.pc \in {"recheck", "seed", "mark", "release"} => Holding(r) /\ c.conn = calls[r].conn
    PROVE  LockIsHeld' /\ OneHolder'
<1>1. \A s \in SetupCalls : Holding(s)' => Holding(s) /\ calls'[s].conn = calls[s].conn
  BY CallFacts DEF Holding, SetupInv
<1> QED BY <1>1 DEF SetupInv, LockIsHeld, OneHolder

\* A call that has no part in the lock, the row or the setting.
LEMMA EndKeeps ==
    ASSUME SetupInv, NEW r \in SetupCalls, NEW c, CallBecomes(r, c), UNCHANGED <<completed, admin, held, marked>>,
           c.pc \in {"lock", "refused"}, c.id \in AdminIds,
           c.ok => calls[r].ok,
           r \in marked => c.pc = "refused" /\ c.id = calls[r].id
    PROVE  SetupInv'
<1>1. SetupTypes'
  BY CallFacts DEF SetupInv, SetupTypes
<1>2. LockIsHeld' /\ OneHolder'
  BY LockStays
<1>3. CheckStillHolds'
  BY CallFacts DEF SetupInv, CheckStillHolds
<1>4. MarkedOnce'
  BY CallFacts DEF SetupInv, MarkedOnce, SetupTypes
<1> QED BY <1>1, <1>2, <1>3, <1>4 DEF SetupInv

\* The holder goes on, or it gives up and releases.
LEMMA HolderKeeps ==
    ASSUME SetupInv, NEW r \in SetupCalls, NEW p \in {"seed", "release"}, NEW ok \in BOOLEAN,
           CallBecomes(r, [pc |-> p, id |-> calls[r].id, conn |-> calls[r].conn, ok |-> ok]),
           calls[r].pc \in {"recheck", "seed", "mark"}, ok => calls[r].ok,
           UNCHANGED <<completed, held, marked>>,
           p = "seed" => ~completed,
           admin' = admin \/ (calls[r].pc = "seed" /\ admin' = [admin EXCEPT ![calls[r].id] = r])
    PROVE  SetupInv'
<1> DEFINE c == [pc |-> p, id |-> calls[r].id, conn |-> calls[r].conn, ok |-> ok]
<1>1. calls[r].id \in AdminIds
  BY DEF SetupInv, CheckStillHolds
<1>2. SetupTypes'
  BY <1>1, CallFacts DEF SetupInv, SetupTypes
<1>3. LockIsHeld' /\ OneHolder'
  BY LockStays DEF Holding
<1>4. r \notin marked
  BY DEF SetupInv, MarkedOnce
<1>5. \A s \in SetupCalls \ {r} : calls'[s] = calls[s] /\ calls[s].pc # "mark"
  BY CallFacts DEF SetupInv, OneHolder, Holding
<1>6. calls'[r] = c
  BY CallFacts DEF SetupInv
<1>7. CheckStillHolds'
  BY <1>5, <1>6 DEF SetupInv, CheckStillHolds
<1>8. marked # {} => admin' = admin
  BY DEF SetupInv, CheckStillHolds
<1>9. MarkedOnce'
  BY <1>4, <1>5, <1>8 DEF SetupInv, MarkedOnce, SetupTypes
<1> QED BY <1>2, <1>3, <1>7, <1>9 DEF SetupInv

-----------------------------------------------------------------------------
\* A session only gets the lock when no call holds it on another.
LEMMA AcquireKeeps ==
    ASSUME SetupInv, NEW r \in SetupCalls, TryAcquireLock(r)
    PROVE  SetupInv'
<1>0. calls[r].pc = "lock" /\ UNCHANGED <<completed, admin, marked>>
  BY DEF TryAcquireLock, Reached
<1>1. ASSUME NEW c \in Unused, \A d \in Connections \ {c} : held[d] = 0,
             held' = [held EXCEPT ![c] = @ + 1],
             calls' = [calls EXCEPT ![r].pc = "recheck", ![r].conn = c]
      PROVE  SetupInv'
  <2> DEFINE now1 == [pc |-> "recheck", id |-> calls[r].id, conn |-> c, ok |-> calls[r].ok]
  <2>1. c \in Connections /\ \A s \in SetupCalls : ~Holding(s)
    BY <1>1 DEF Unused, SetupInv, LockIsHeld
  <2>2. CallBecomes(r, now1)
    <3>1. calls[r].id \in AdminIds
      BY <1>0 DEF SetupInv, CheckStillHolds
    <3> QED BY <1>1, <2>1, <3>1, CallUpdates DEF SetupInv
  <2> HIDE DEF now1
  <2>3. calls' \in [SetupCalls -> Call] /\ calls'[r] = now1 /\ \A s \in SetupCalls \ {r} : calls'[s] = calls[s] /\ ~Holding(s)'
    BY <2>1, <2>2, CallFacts DEF SetupInv
  <2>4. SetupTypes'
    BY <1>0, <1>1, <2>1, <2>3 DEF SetupInv, SetupTypes
  <2>5. held'[c] > 0 /\ \A d \in Connections \ {c} : held'[d] = 0
    BY <1>1, <2>1 DEF SetupInv, SetupTypes
  <2>6. LockIsHeld' /\ OneHolder'
    BY <2>1, <2>3, <2>5 DEF LockIsHeld, OneHolder, now1
  <2>7. CheckStillHolds'
    BY <1>0, <2>3 DEF SetupInv, CheckStillHolds, now1
  <2>8. MarkedOnce'
    BY <1>0, <2>3 DEF SetupInv, MarkedOnce, SetupTypes
  <2> QED BY <2>4, <2>6, <2>7, <2>8 DEF SetupInv
<1>2. ASSUME Proceed(r, "refused"), UNCHANGED held
      PROVE  SetupInv'
  <2> DEFINE c == [pc |-> "refused", id |-> calls[r].id, conn |-> calls[r].conn, ok |-> calls[r].ok]
  <2>1. calls[r].id \in AdminIds /\ r \notin marked
    BY <1>0 DEF SetupInv, CheckStillHolds, MarkedOnce
  <2>2. CallBecomes(r, c)
    BY <1>2, <2>1, CallUpdates DEF SetupInv, Proceed, SetupTypes, Call
  <2> QED BY <1>0, <1>2, <2>1, <2>2, EndKeeps
<1> QED BY <1>1, <1>2, Zenon DEF TryAcquireLock

\* The first check only lets a call on; nothing relies on its answer.
LEMMA InitializeKeeps ==
    ASSUME SetupInv, NEW r \in SetupCalls, SetupInitialize(r)
    PROVE  SetupInv'
<1>1. PICK p \in {"lock", "refused"}, i \in AdminIds : calls' = [calls EXCEPT ![r].id = i, ![r].pc = p]
  BY DEF SetupInitialize
<1>2. CallBecomes(r, [pc |-> p, id |-> i, conn |-> calls[r].conn, ok |-> calls[r].ok])
  BY <1>1, CallUpdates DEF SetupInv, SetupTypes, Call
<1>3. r \notin marked
  BY DEF SetupInitialize, Reached, SetupInv, MarkedOnce
<1> QED BY <1>2, <1>3, EndKeeps DEF SetupInitialize

\* A dropped call leaves its lock behind, never its place.
LEMMA DropKeeps ==
    ASSUME SetupInv, NEW r \in SetupCalls, DropCall(r)
    PROVE  SetupInv'
<1>1. calls[r].id \in AdminIds
  BY DEF DropCall, SetupInv, CheckStillHolds
<1>2. CallBecomes(r, [pc |-> "refused", id |-> calls[r].id, conn |-> None, ok |-> calls[r].ok])
  BY <1>1, CallUpdates DEF DropCall, SetupInv
<1> QED BY <1>1, <1>2, EndKeeps DEF DropCall

\* The second check, the administrator's row, and giving up.
LEMMA ProceedKeeps ==
    ASSUME SetupInv, NEW r \in SetupCalls, Recheck(r)
    PROVE  SetupInv'
<1>1. calls[r].pc = "recheck" /\ UNCHANGED <<completed, admin, held, marked>> /\ calls[r].id \in AdminIds
  BY DEF Recheck, Reached, SetupInv, CheckStillHolds
<1>2. CASE ~completed /\ Proceed(r, "seed")
  <2>1. CallBecomes(r, [pc |-> "seed", id |-> calls[r].id, conn |-> calls[r].conn, ok |-> calls[r].ok])
    BY <1>1, <1>2, CallUpdates DEF SetupInv, SetupTypes, Call, Proceed
  <2>2. calls[r].ok \in BOOLEAN
    BY DEF SetupInv, SetupTypes, Call
  <2> QED BY <1>1, <1>2, <2>1, <2>2, HolderKeeps
<1>3. CASE Finish(r, FALSE)
  <2>1. CallBecomes(r, [pc |-> "release", id |-> calls[r].id, conn |-> calls[r].conn, ok |-> FALSE])
    BY <1>1, <1>3, CallUpdates DEF SetupInv, SetupTypes, Call, Finish
  <2> QED BY <1>1, <2>1, HolderKeeps
<1> QED BY <1>2, <1>3 DEF Recheck

\* The row is only written while nothing is marked, by the one holder.
LEMMA SeedKeeps ==
    ASSUME SetupInv, NEW r \in SetupCalls, SeedAdmin(r)
    PROVE  SetupInv'
<1>1. calls[r].pc = "seed" /\ UNCHANGED <<completed, held, marked>> /\ calls[r].id \in AdminIds /\ ~completed
  BY DEF SeedAdmin, Reached, SetupInv, CheckStillHolds
<1>2. admin' = admin \/ admin' = [admin EXCEPT ![calls[r].id] = r]
  BY DEF SeedAdmin
<1>3. CASE Finish(r, FALSE)
  <2>1. CallBecomes(r, [pc |-> "release", id |-> calls[r].id, conn |-> calls[r].conn, ok |-> FALSE])
    BY <1>1, <1>3, CallUpdates DEF SetupInv, SetupTypes, Call, Finish
  <2> QED BY <1>1, <1>2, <2>1, HolderKeeps
<1>4. CASE Proceed(r, "mark") /\ admin' = [admin EXCEPT ![calls[r].id] = r]
  <2> DEFINE c == [pc |-> "mark", id |-> calls[r].id, conn |-> calls[r].conn, ok |-> calls[r].ok]
  <2>1. CallBecomes(r, c)
    BY <1>1, <1>4, CallUpdates DEF SetupInv, SetupTypes, Call, Proceed
  <2>2. SetupTypes'
    BY <1>1, <1>4, <2>1, CallFacts DEF SetupInv, SetupTypes
  <2>3. LockIsHeld' /\ OneHolder'
    BY <1>1, <2>1, LockStays DEF Holding
  <2>4. calls'[r] = c /\ \A s \in SetupCalls \ {r} : calls'[s] = calls[s] /\ calls[s].pc # "mark"
    BY <1>1, <2>1, CallFacts DEF SetupInv, OneHolder, Holding
  <2>5. admin'[calls[r].id] = r
    BY <1>1, <1>4 DEF SetupInv, SetupTypes
  <2>6. CheckStillHolds'
    BY <1>1, <2>4, <2>5 DEF SetupInv, CheckStillHolds
  <2>7. MarkedOnce'
    BY <1>1 DEF SetupInv, MarkedOnce, CheckStillHolds
  <2> QED BY <2>2, <2>3, <2>6, <2>7 DEF SetupInv
<1> QED BY <1>3, <1>4 DEF SeedAdmin

\* The setting is written by the one holder, and then by nobody.
LEMMA MarkKeeps ==
    ASSUME SetupInv, NEW r \in SetupCalls, MarkSetupCompleted(r)
    PROVE  SetupInv'
<1>1. calls[r].pc = "mark" /\ UNCHANGED <<admin, held>> /\ calls[r].id \in AdminIds /\ ~completed /\ admin[calls[r].id] = r
  BY DEF MarkSetupCompleted, Reached, SetupInv, CheckStillHolds
<1>2. CASE Finish(r, FALSE) /\ UNCHANGED <<completed, marked>>
  <2>1. CallBecomes(r, [pc |-> "release", id |-> calls[r].id, conn |-> calls[r].conn, ok |-> FALSE])
    BY <1>1, <1>2, CallUpdates DEF SetupInv, SetupTypes, Call, Finish
  <2> QED BY <1>1, <1>2, <2>1, HolderKeeps
<1>3. ASSUME NEW ok \in BOOLEAN, Finish(r, ok), completed' = TRUE, marked' = marked \cup {r}
      PROVE  SetupInv'
  <2> DEFINE c == [pc |-> "release", id |-> calls[r].id, conn |-> calls[r].conn, ok |-> ok]
  <2>1. CallBecomes(r, c)
    BY <1>1, <1>3, CallUpdates DEF SetupInv, SetupTypes, Call, Finish
  <2>2. SetupTypes'
    BY <1>1, <1>3, <2>1, CallFacts DEF SetupInv, SetupTypes
  <2>3. LockIsHeld' /\ OneHolder'
    BY <1>1, <2>1, LockStays DEF Holding
  <2>4. marked' = {r}
    BY <1>1, <1>3 DEF SetupInv, CheckStillHolds
  <2>5. calls'[r] = c /\ \A s \in SetupCalls \ {r} : calls'[s] = calls[s] /\ calls[s].pc \notin {"seed", "mark"}
    BY <1>1, <2>1, CallFacts DEF SetupInv, OneHolder, Holding
  <2>6. CheckStillHolds'
    <3>1. completed' = (marked' # {})
      BY <1>3, <2>4
    <3>2. \A s \in SetupCalls \ {r} : calls'[s].ok \/ calls'[s].pc = "completed" => s \in marked'
      BY <1>3, <2>5, Zenon DEF SetupInv, CheckStillHolds
    <3>3. calls'[r].pc = "release" /\ calls'[r].id = calls[r].id /\ r \in marked'
      BY <2>4, <2>5
    <3>4. \A s \in SetupCalls \ {r} : calls'[s].pc # "start" => calls'[s].id \in AdminIds
      BY <2>5 DEF SetupInv, CheckStillHolds
    <3> QED BY <1>1, <2>5, <3>1, <3>2, <3>3, <3>4 DEF CheckStillHolds
  <2>7. MarkedOnce'
    BY <1>1, <2>4, <2>5 DEF MarkedOnce
  <2> QED BY <2>2, <2>3, <2>6, <2>7 DEF SetupInv
<1> QED BY <1>2, <1>3, Zenon DEF MarkSetupCompleted

\* Whatever the release leaves of the lock, nobody is in its section then.
LEMMA ReleaseKeeps ==
    ASSUME SetupInv, NEW r \in SetupCalls, ReleaseLock(r)
    PROVE  SetupInv'
<1>1. calls[r].pc = "release" /\ UNCHANGED <<completed, admin, marked>> /\ calls[r].id \in AdminIds
  BY DEF ReleaseLock, Reached, SetupInv, CheckStillHolds
<1>2. calls[r].conn \in Connections /\ held[calls[r].conn] > 0
  BY <1>1 DEF SetupInv, LockIsHeld, Holding
<1>3. PICK n \in {held[calls[r].conn] - 1, held[calls[r].conn], 0}, p \in {"completed", "refused"} :
          /\ held' = [held EXCEPT ![calls[r].conn] = n]
          /\ calls' = [calls EXCEPT ![r].conn = None, ![r].pc = p]
          /\ p = "completed" => calls[r].ok
  BY DEF ReleaseLock
<1>4. n \in Nat
  BY <1>2, <1>3 DEF SetupInv, SetupTypes
<1> DEFINE c == [pc |-> p, id |-> calls[r].id, conn |-> None, ok |-> calls[r].ok]
<1>5. CallBecomes(r, c)
  BY <1>1, <1>3, CallUpdates DEF SetupInv
<1>6. SetupTypes'
  BY <1>1, <1>2, <1>3, <1>4, <1>5, CallFacts DEF SetupInv, SetupTypes
<1>7. calls'[r] = c /\ \A s \in SetupCalls \ {r} : calls'[s] = calls[s] /\ ~Holding(s)'
  BY <1>1, <1>5, CallFacts DEF SetupInv, OneHolder, Holding
<1>8. LockIsHeld' /\ OneHolder'
  BY <1>7 DEF LockIsHeld, OneHolder, Holding
<1>9. CheckStillHolds'
  <2>1. calls[r].ok => r \in marked
    BY DEF SetupInv, CheckStillHolds
  <2>2. calls'[r].pc = p /\ calls'[r].id = calls[r].id /\ calls'[r].ok = calls[r].ok
    BY <1>7
  <2>3. calls'[r].ok \/ calls'[r].pc = "completed" => r \in marked'
    BY <1>1, <1>3, <2>1, <2>2, Zenon
  <2> QED BY <1>1, <1>7, <2>2, <2>3 DEF SetupInv, CheckStillHolds
<1>10. MarkedOnce'
  BY <1>1, <1>7 DEF SetupInv, MarkedOnce, SetupTypes
<1> QED BY <1>6, <1>8, <1>9, <1>10 DEF SetupInv

\* The pool closes no connection that a call locks on.
LEMMA CloseKeeps ==
    ASSUME SetupInv, NEW c \in Connections, CloseConnection(c)
    PROVE  SetupInv'
<1>1. SetupTypes'
  BY DEF CloseConnection, SetupInv, SetupTypes
<1>2. LockIsHeld'
  BY DEF CloseConnection, SetupInv, LockIsHeld, SetupTypes, Holding, Unused
<1> QED BY <1>1, <1>2 DEF CloseConnection, SetupInv, OneHolder, CheckStillHolds, MarkedOnce, Holding

\* The invariant of the setup holds always.
LEMMA SetupInvariant == SetupSpec => []SetupInv
<1>1. SetupInit => SetupInv
  <2> SUFFICES ASSUME SetupInit PROVE SetupInv
    OBVIOUS
  <2>1. NewCall \in Call /\ NewCall.pc = "start" /\ NewCall.ok = FALSE
    BY DEF NewCall, Call
  <2>2. /\ calls = [r \in SetupCalls |-> NewCall] /\ marked = {} /\ completed = FALSE
        /\ admin = [i \in AdminIds |-> None] /\ held = [c \in Connections |-> 0]
    BY DEF SetupInit
  <2>3. \A r \in SetupCalls : ~Holding(r)
    BY <2>1, <2>2 DEF Holding
  <2>4. SetupTypes /\ LockIsHeld /\ OneHolder
    BY <2>1, <2>2, <2>3 DEF SetupTypes, LockIsHeld, OneHolder
  <2> QED BY <2>1, <2>2, <2>4 DEF SetupInv, CheckStillHolds, MarkedOnce
<1>2. ASSUME SetupInv, [SetupNext]_setupVars
      PROVE  SetupInv'
  <2>1. ASSUME NEW r \in SetupCalls,
               \/ SetupInitialize(r) \/ TryAcquireLock(r) \/ Recheck(r)
               \/ SeedAdmin(r) \/ MarkSetupCompleted(r) \/ ReleaseLock(r)
               \/ DropCall(r)
        PROVE  SetupInv'
    BY <1>2, <2>1, InitializeKeeps, AcquireKeeps, ProceedKeeps, SeedKeeps, MarkKeeps, ReleaseKeeps, DropKeeps, Zenon
  <2>2. CASE UNCHANGED setupVars
    BY <1>2, <2>2 DEF setupVars, SetupInv, SetupTypes, LockIsHeld, OneHolder, CheckStillHolds, MarkedOnce, Holding
  <2> QED BY <1>2, <2>1, <2>2, CloseKeeps, Zenon DEF SetupNext
<1> QED BY <1>1, <1>2, PTL DEF SetupSpec

\* setup_initialize marks the installation once, with the administrator whose
\* secret the marking call wrote, for any number of calls and connections.
THEOREM SetupSafe == SetupSpec => []SetupHappensOnce
<1>1. SetupInv => SetupHappensOnce
  <2> SUFFICES ASSUME SetupInv PROVE SetupHappensOnce
    OBVIOUS
  <2>1. marked = {} \/ \E r : marked = {r}
    BY DEF SetupInv, MarkedOnce
  <2>2. Cardinality(marked) <= 1
    <3>1. CASE marked = {}
      BY <3>1, FS_EmptySet
    <3>2. ASSUME NEW r, marked = {r}
          PROVE  Cardinality(marked) = 1
      BY <3>2, FS_Singleton
    <3> QED BY <2>1, <3>1, <3>2
  <2> QED BY <2>2 DEF SetupInv, SetupHappensOnce, MarkedOnce, CheckStillHolds, Reached
<1> QED BY <1>1, SetupInvariant, PTL

\* The advisory lock keeps calls apart although a dropped call leaves it held and
\* its session may take it again: one call at a time is between
\* try_acquire_setup_initialization_lock and the release.
THEOREM SetupLockExcludes == SetupSpec => []OneHolder
<1>1. SetupInv => OneHolder
  BY DEF SetupInv
<1> QED BY <1>1, SetupInvariant, PTL

\* Once setup.completed is written no step of any call writes it, or an
\* administrator's client, again: seed_default_clients_with_admin is over.
THEOREM SetupIsFinal == SetupSpec => [][completed => UNCHANGED <<completed, admin, marked>>]_setupVars
<1>1. ASSUME SetupInv, [SetupNext]_setupVars
      PROVE  [completed => UNCHANGED <<completed, admin, marked>>]_setupVars
  <2> SUFFICES ASSUME SetupNext, completed
               PROVE  UNCHANGED <<completed, admin, marked>>
    BY <1>1
  <2>1. \A r \in SetupCalls : ~Reached(r, "seed") /\ ~Reached(r, "mark")
    BY <1>1 DEF SetupInv, CheckStillHolds, Reached
  <2>2. \A r \in SetupCalls : ~SeedAdmin(r) /\ ~MarkSetupCompleted(r)
    BY <2>1 DEF SeedAdmin, MarkSetupCompleted
  <2> QED BY <2>2 DEF SetupNext, SetupInitialize, TryAcquireLock, Recheck, ReleaseLock, DropCall, CloseConnection
<1> QED BY <1>1, SetupInvariant, PTL DEF SetupSpec

-----------------------------------------------------------------------------
(* Recorded changes *)

Handler ==
    [step : {"target", "write", "record"}, before : Row, after : 0 .. MaxVersion,
     expected : 0 .. MaxVersion, content : Contents, undo : 0 .. MaxVersion]

Change == [version : 2 .. MaxVersion, before : Row, guarded : BOOLEAN, undo : 0 .. MaxVersion]

HistoryTypes ==
    /\ row \subseteq Row /\ \A r, s \in row : r = s
    /\ history \subseteq Change
    /\ edits \in [Editors -> SUBSET Handler] /\ \A e \in Editors : \A g, h \in edits[e] : g = h
    /\ past \in [1 .. MaxVersion -> Contents]

\* Nothing that was read or recorded is newer than the row.
NothingIsNewer ==
    \A r \in row :
        /\ past[r.version] = r.content
        /\ \A e \in Editors : \A h \in edits[e] : h.before.version <= r.version /\ h.after <= r.version
        /\ \A c \in history : c.version <= r.version

\* What a handler holds was true of the version it read.
HandlersAreExact ==
    \A e \in Editors : \A h \in edits[e] :
        /\ past[h.before.version] = h.before.content
        /\ h.step = "record" =>
              /\ h.after >= 2 /\ past[h.after] = h.content
              /\ h.before.version < h.after
              /\ h.expected = h.before.version => h.before.version = h.after - 1
        /\ h.undo # 0 => \E u \in history : u.version = h.undo /\ u.before.content = h.content

\* A version is written, and recorded, by one handler.
OneWriter ==
    /\ \A c, d \in history : c.version = d.version => c = d
    /\ \A e \in Editors : \A h \in edits[e] : h.step = "record" =>
          /\ \A c \in history : c.version # h.after
          /\ \A f \in Editors \ {e} : \A g \in edits[f] : g.step = "record" => g.after # h.after

RecordsAreExact ==
    \A c \in history :
        /\ c.before.version < c.version
        /\ c.before.content = past[c.before.version]
        /\ c.guarded => c.before.version = c.version - 1
        /\ c.undo # 0 => \E u \in history : u.version = c.undo /\ u.before.content = past[c.version]

HistoryInv == HistoryTypes /\ NothingIsNewer /\ HandlersAreExact /\ OneWriter /\ RecordsAreExact

-----------------------------------------------------------------------------
\* What a handler that has written nothing yet has read.
ReadIsExact(h) ==
    /\ h.step # "record" /\ h.after = 0
    /\ past[h.before.version] = h.before.content
    /\ \A r \in row : h.before.version <= r.version
    /\ h.undo # 0 => \E u \in history : u.version = h.undo /\ u.before.content = h.content

\* A handler goes on with the row and the history as they are.
LEMMA ContinueKeeps ==
    ASSUME HistoryInv, NEW e \in Editors, NEW H \in SUBSET Handler, edits' = [edits EXCEPT ![e] = H],
           UNCHANGED <<row, past, history>>,
           \A g, h \in H : g = h, \A h \in H : ReadIsExact(h)
    PROVE  HistoryInv'
<1>1. edits'[e] = H /\ \A f \in Editors \ {e} : edits'[f] = edits[f]
  BY DEF HistoryInv, HistoryTypes
<1>2. HistoryTypes'
  BY <1>1 DEF HistoryInv, HistoryTypes
<1>3. NothingIsNewer'
  <2>1. \A r \in row : r.version \in Nat
    BY HistoryAssumption DEF HistoryInv, HistoryTypes, Row
  <2> QED BY <1>1, <2>1 DEF HistoryInv, NothingIsNewer, ReadIsExact
<1>4. HandlersAreExact'
  BY <1>1 DEF HistoryInv, HandlersAreExact, ReadIsExact
<1>5. OneWriter'
  BY <1>1 DEF HistoryInv, OneWriter, ReadIsExact
<1>6. RecordsAreExact'
  BY DEF HistoryInv, RecordsAreExact
<1> QED BY <1>2, <1>3, <1>4, <1>5, <1>6 DEF HistoryInv

\* A read handler holds the row it read.
LEMMA HandlingType ==
    ASSUME NEW step \in {"target", "write", "record"}, NEW before \in Row, NEW after \in 0 .. MaxVersion,
           NEW expected \in 0 .. MaxVersion, NEW content \in Contents, NEW undo \in 0 .. MaxVersion
    PROVE  Handling(step, before, after, expected, content, undo) \in SUBSET Handler
BY DEF Handling, Handler

\* An update reads the row it will compare with.
LEMMA UpdateKeeps ==
    ASSUME HistoryInv, NEW e \in Editors, NEW needsVersion \in BOOLEAN, Update(e, needsVersion)
    PROVE  HistoryInv'
<1>2. PICK r \in row, c \in Contents, expected \in 0 .. MaxVersion :
             edits' = [edits EXCEPT ![e] = Handling("write", r, 0, expected, c, 0)]
  BY DEF Update, Continue
<1>3. r \in Row /\ r.version \in 1 .. MaxVersion /\ expected \in 0 .. MaxVersion /\ 0 \in 0 .. MaxVersion
  BY HistoryAssumption DEF HistoryInv, HistoryTypes, Row
<1>4. Handling("write", r, 0, expected, c, 0) \in SUBSET Handler
  BY <1>3, HandlingType
<1>5. past[r.version] = r.content /\ \A s \in row : s = r
  BY DEF HistoryInv, NothingIsNewer, HistoryTypes
<1>6. UNCHANGED <<row, past, history>>
  BY DEF Update, Continue
<1> DEFINE H == Handling("write", r, 0, expected, c, 0)
<1>7. \A g, h \in H : g = h
  BY DEF Handling
<1>8. \A h \in H : ReadIsExact(h)
  BY <1>3, <1>5 DEF Handling, ReadIsExact
<1> HIDE DEF H
<1> QED BY <1>2, <1>4, <1>6, <1>7, <1>8, ContinueKeeps DEF H

\* A revert reads the row it will compare with.
LEMMA RevertKeeps ==
    ASSUME HistoryInv, NEW e \in Editors, Revert(e)
    PROVE  HistoryInv'
<1>2. PICK r \in row, expected \in 1 .. MaxVersion :
             edits' = [edits EXCEPT ![e] = Handling("target", r, 0, expected, r.content, 0)]
  BY DEF Revert, Continue
<1>3. r \in Row /\ r.version \in 1 .. MaxVersion /\ r.content \in Contents /\ expected \in 0 .. MaxVersion /\ 0 \in 0 .. MaxVersion
  BY HistoryAssumption DEF HistoryInv, HistoryTypes, Row
<1>4. Handling("target", r, 0, expected, r.content, 0) \in SUBSET Handler
  BY <1>3, HandlingType
<1>5. past[r.version] = r.content /\ \A s \in row : s = r
  BY DEF HistoryInv, NothingIsNewer, HistoryTypes
<1>6. UNCHANGED <<row, past, history>>
  BY DEF Revert, Continue
<1> DEFINE H == Handling("target", r, 0, expected, r.content, 0)
<1>7. \A g, h \in H : g = h
  BY DEF Handling
<1>8. \A h \in H : ReadIsExact(h)
  BY <1>3, <1>5 DEF Handling, ReadIsExact
<1> HIDE DEF H
<1> QED BY <1>2, <1>4, <1>6, <1>7, <1>8, ContinueKeeps DEF H

\* A revert takes the recorded before state of the change it undoes.
LEMMA GetChangeKeeps ==
    ASSUME HistoryInv, NEW e \in Editors, GetChange(e)
    PROVE  HistoryInv'
<1>1. PICK h \in edits[e], change \in history :
             edits' = [edits EXCEPT ![e] = Handling("write", h.before, 0, h.expected, change.before.content, change.version)]
  BY DEF GetChange, Continue
<1>2. h \in Handler /\ change \in Change
  BY DEF HistoryInv, HistoryTypes
<1>3. h.before \in Row /\ h.expected \in 0 .. MaxVersion /\ change.before.content \in Contents
      /\ change.version \in 0 .. MaxVersion /\ change.version # 0 /\ 0 \in 0 .. MaxVersion
  BY <1>2, HistoryAssumption DEF Handler, Change, Row
<1>4. Handling("write", h.before, 0, h.expected, change.before.content, change.version) \in SUBSET Handler
  BY <1>3, HandlingType
<1>5. past[h.before.version] = h.before.content /\ \A r \in row : h.before.version <= r.version
  BY DEF HistoryInv, NothingIsNewer, HandlersAreExact
<1>6. UNCHANGED <<row, past, history>>
  BY DEF GetChange, Continue
<1> DEFINE H == Handling("write", h.before, 0, h.expected, change.before.content, change.version)
<1>7. \A f, g \in H : f = g
  BY DEF Handling
<1>8. \A g \in H : ReadIsExact(g)
  BY <1>3, <1>5 DEF Handling, ReadIsExact
<1> HIDE DEF H
<1> QED BY <1>1, <1>4, <1>6, <1>7, <1>8, ContinueKeeps DEF H

\* A handler that gives up writes nothing.
LEMMA AbandonKeeps ==
    ASSUME HistoryInv, NEW e \in Editors, Abandon(e)
    PROVE  HistoryInv'
<1>1. edits' = [edits EXCEPT ![e] = {}] /\ UNCHANGED <<row, past, history>>
  BY DEF Abandon, Continue
<1> QED BY <1>1, ContinueKeeps

-----------------------------------------------------------------------------
\* What the row's next version leaves of the versions before it.
LEMMA StoreFacts ==
    ASSUME HistoryInv, NEW r \in row, NEW c \in Contents, Store(c)
    PROVE  /\ r \in Row /\ r.version \in 1 .. MaxVersion /\ r.version + 1 \in 2 .. MaxVersion
           /\ row' = {[version |-> r.version + 1, content |-> c]}
           /\ past' \in [1 .. MaxVersion -> Contents] /\ past'[r.version + 1] = c
           /\ \A v \in 1 .. MaxVersion : v <= r.version => past'[v] = past[v]
<1>1. r \in Row /\ r.version \in 1 .. MaxVersion /\ \A s \in row : s = r
  BY DEF HistoryInv, HistoryTypes, Row
<1>2. r.version < MaxVersion /\ row' = {[version |-> r.version + 1, content |-> c]} /\ past' = [past EXCEPT ![r.version + 1] = c]
  BY <1>1 DEF Store
<1>3. r.version + 1 \in 2 .. MaxVersion
  BY <1>1, <1>2, HistoryAssumption
<1> QED BY <1>1, <1>2, <1>3, HistoryAssumption DEF HistoryInv, HistoryTypes

\* The row is stored by nobody that records, or by the handlers E, of which there
\* is at most one, that go on to record n.
LEMMA StoreKeeps ==
    ASSUME HistoryInv, NEW r \in row, NEW c \in Contents, Store(c), UNCHANGED history,
           NEW E \in SUBSET Editors, NEW n \in Handler, \A e, f \in E : e = f,
           edits' \in [Editors -> SUBSET Handler],
           \A e \in E : edits'[e] = {n}, \A e \in Editors \ E : edits'[e] = edits[e],
           E # {} =>
              /\ n.step = "record" /\ n.after = r.version + 1 /\ n.content = c
              /\ past[n.before.version] = n.before.content
              /\ n.before.version <= r.version
              /\ n.expected = n.before.version => n.before.version = r.version
              /\ n.undo # 0 => \E u \in history : u.version = n.undo /\ u.before.content = c
    PROVE  HistoryInv'
<1>1. /\ r \in Row /\ r.version \in 1 .. MaxVersion /\ r.version + 1 \in 2 .. MaxVersion
      /\ row' = {[version |-> r.version + 1, content |-> c]}
      /\ past' \in [1 .. MaxVersion -> Contents] /\ past'[r.version + 1] = c
      /\ \A v \in 1 .. MaxVersion : v <= r.version => past'[v] = past[v]
  BY StoreFacts
<1>2. /\ \A e \in Editors : \A h \in edits[e] :
            h \in Handler /\ h.before.version \in 1 .. MaxVersion /\ h.after \in 0 .. MaxVersion
            /\ h.before.version <= r.version /\ h.after <= r.version
      /\ \A d \in history : d \in Change /\ d.version \in 2 .. MaxVersion /\ d.version <= r.version
  BY DEF HistoryInv, HistoryTypes, NothingIsNewer, Handler, Change, Row
<1>3. n.before.version \in 1 .. MaxVersion
  BY DEF Handler, Row
<1>4. HistoryTypes'
  <2>1. row' \subseteq Row /\ \A s, t \in row' : s = t
    BY <1>1 DEF Row
  <2>2. \A e \in Editors : \A g, h \in edits'[e] : g = h
    BY DEF HistoryInv, HistoryTypes
  <2> QED BY <1>1, <2>1, <2>2 DEF HistoryInv, HistoryTypes
<1>5. NothingIsNewer'
  BY <1>1, <1>2, <1>3, HistoryAssumption DEF NothingIsNewer
<1>6. HandlersAreExact'
  <2>1. ASSUME NEW e \in Editors \ E, NEW h \in edits[e]
        PROVE  /\ past'[h.before.version] = h.before.content
               /\ h.step = "record" => past'[h.after] = h.content
    BY <1>1, <1>2, <2>1 DEF HistoryInv, HandlersAreExact
  <2>2. ASSUME NEW e \in E
        PROVE  /\ past'[n.before.version] = n.before.content
               /\ n.after >= 2 /\ past'[n.after] = n.content
               /\ n.before.version < n.after
               /\ n.expected = n.before.version => n.before.version = n.after - 1
    BY <1>1, <1>3, <2>2
  <2> QED BY <2>1, <2>2 DEF HistoryInv, HandlersAreExact
<1>7. OneWriter'
  <2>1. \A e \in Editors : \A h \in edits[e] : h.after # r.version + 1
    BY <1>1, <1>2
  <2>2. \A d \in history : d.version # r.version + 1
    BY <1>1, <1>2
  <2> QED BY <2>1, <2>2 DEF HistoryInv, OneWriter
<1>8. RecordsAreExact'
  <2>1. ASSUME NEW d \in history
        PROVE  past'[d.version] = past[d.version] /\ past'[d.before.version] = past[d.before.version]
    <3>1. d.version \in 2 .. MaxVersion /\ d.version <= r.version /\ d.before.version \in 1 .. MaxVersion
          /\ d.before.version < d.version
      BY <1>2 DEF HistoryInv, RecordsAreExact, Change, Row
    <3>2. d.version \in 1 .. MaxVersion /\ d.before.version <= r.version
      BY <1>1, <3>1, HistoryAssumption
    <3> QED BY <1>1, <3>1, <3>2
  <2> QED BY <2>1 DEF HistoryInv, RecordsAreExact
<1> QED BY <1>4, <1>5, <1>6, <1>7, <1>8 DEF HistoryInv

\* A change whose client named the version the handler had read met that version.
LEMMA WriteKeeps ==
    ASSUME HistoryInv, NEW e \in Editors, NEW reverts \in BOOLEAN, Write(e, reverts)
    PROVE  HistoryInv'
<1>1. PICK h \in edits[e], r \in row :
        /\ VersionMatches(h, r) /\ Store(h.content)
        /\ edits' = [edits EXCEPT ![e] = Handling("record", h.before, r.version + 1, h.expected, h.content, h.undo)]
  BY DEF Write, Continue
<1>2. h \in Handler /\ h.content \in Contents /\ h.before \in Row /\ h.before.version \in 1 .. MaxVersion
      /\ h.expected \in 0 .. MaxVersion /\ h.undo \in 0 .. MaxVersion
  BY DEF HistoryInv, HistoryTypes, Handler, Row
<1>3. r.version \in 1 .. MaxVersion /\ r.version + 1 \in 2 .. MaxVersion
  BY <1>1, <1>2, StoreFacts
<1> DEFINE n == [step |-> "record", before |-> h.before, after |-> r.version + 1,
                 expected |-> h.expected, content |-> h.content, undo |-> h.undo]
<1>4. n \in Handler
  BY <1>2, <1>3 DEF Handler
<1>5. edits' = [edits EXCEPT ![e] = {n}]
  BY <1>1 DEF Handling
<1>6. /\ past[h.before.version] = h.before.content
      /\ h.before.version <= r.version
      /\ h.undo # 0 => \E u \in history : u.version = h.undo /\ u.before.content = h.content
  BY DEF HistoryInv, NothingIsNewer, HandlersAreExact
<1>7. h.expected = h.before.version => h.before.version = r.version
  BY <1>1, <1>2, <1>3, <1>6 DEF VersionMatches
<1>8. /\ n.step = "record" /\ n.after = r.version + 1 /\ n.content = h.content
      /\ past[n.before.version] = n.before.content
      /\ n.before.version <= r.version
      /\ n.expected = n.before.version => n.before.version = r.version
      /\ n.undo # 0 => \E u \in history : u.version = n.undo /\ u.before.content = h.content
  BY <1>6, <1>7
<1>9. UNCHANGED history
  BY DEF Write, Continue
<1> HIDE DEF n
<1>10. edits' \in [Editors -> SUBSET Handler] /\ edits'[e] = {n} /\ \A f \in Editors \ {e} : edits'[f] = edits[f]
  BY <1>4, <1>5 DEF HistoryInv, HistoryTypes
<1> DEFINE E == {e}
<1>11. E \in SUBSET Editors /\ (\A f, g \in E : f = g) /\ (\A f \in E : edits'[f] = {n}) /\ \A f \in Editors \ E : edits'[f] = edits[f]
  BY <1>10
<1> HIDE DEF E
<1> QED BY <1>1, <1>2, <1>4, <1>8, <1>9, <1>10, <1>11, StoreKeeps

\* A resource created again gets the next version.
LEMMA CreateAgainKeeps ==
    ASSUME HistoryInv, CreateResourceAgain
    PROVE  HistoryInv'
<1>1. PICK c \in Contents : Store(c)
  BY DEF CreateResourceAgain
<1>2. PICK r \in row : TRUE
  BY <1>1 DEF Store
<1>3. UNCHANGED <<history, edits>> /\ edits \in [Editors -> SUBSET Handler]
  BY DEF CreateResourceAgain, HistoryInv, HistoryTypes
<1>4. r \in Row /\ 0 \in 0 .. MaxVersion
  BY HistoryAssumption DEF HistoryInv, HistoryTypes
<1>5. [step |-> "write", before |-> r, after |-> 0, expected |-> 0, content |-> c, undo |-> 0] \in Handler
  BY <1>4 DEF Handler
<1>6. PICK n : n \in Handler
  BY <1>5
<1>7. {} \in SUBSET Editors /\ (\A e, f \in {} : e = f) /\ (\A e \in {} : edits'[e] = {n}) /\ \A e \in Editors \ {} : edits'[e] = edits[e]
  BY <1>3
<1> QED BY <1>1, <1>2, <1>3, <1>6, <1>7, StoreKeeps

\* The record says what the handler read before the version it wrote.
LEMMA RecordKeeps ==
    ASSUME HistoryInv, NEW e \in Editors, RecordChange(e)
    PROVE  HistoryInv'
<1>1. PICK h \in edits[e] :
        /\ h.step = "record"
        /\ history' = history \cup {[version |-> h.after, before |-> h.before, guarded |-> h.expected = h.before.version, undo |-> h.undo]}
  BY DEF RecordChange
<1> DEFINE c == [version |-> h.after, before |-> h.before, guarded |-> h.expected = h.before.version, undo |-> h.undo]
<1>2. edits' = [edits EXCEPT ![e] = {}] /\ UNCHANGED <<row, past>>
  BY DEF RecordChange
<1>3. edits'[e] = {} /\ \A f \in Editors \ {e} : edits'[f] = edits[f]
  BY <1>2 DEF HistoryInv, HistoryTypes
<1>4. h \in Handler /\ h.after \in 0 .. MaxVersion /\ h.after >= 2 /\ h.before \in Row /\ h.undo \in 0 .. MaxVersion
  BY <1>1 DEF HistoryInv, HistoryTypes, HandlersAreExact, Handler
<1>5. c \in Change /\ history' = history \cup {c}
  BY <1>1, <1>4 DEF Change
<1>6. HistoryTypes'
  BY <1>2, <1>3, <1>5 DEF HistoryInv, HistoryTypes
<1>7. NothingIsNewer'
  BY <1>2, <1>3, <1>5 DEF HistoryInv, NothingIsNewer
<1>8. HandlersAreExact'
  <2>1. ASSUME NEW f \in Editors \ {e}, NEW g \in edits[f], g.undo # 0
        PROVE  \E u \in history' : u.version = g.undo /\ u.before.content = g.content
    BY <1>5, <2>1 DEF HistoryInv, HandlersAreExact
  <2> QED BY <1>2, <1>3, <2>1 DEF HistoryInv, HandlersAreExact
<1>9. OneWriter'
  <2>1. \A d \in history : d.version # c.version
    BY <1>1 DEF HistoryInv, OneWriter
  <2>2. \A f \in Editors \ {e} : \A g \in edits[f] : g.step = "record" => g.after # c.version
    BY <1>1 DEF HistoryInv, OneWriter
  <2> QED BY <1>3, <1>5, <2>1, <2>2 DEF HistoryInv, OneWriter
<1>10. RecordsAreExact'
  <2>1. /\ c.before.version < c.version /\ c.before.content = past[c.before.version]
        /\ c.guarded => c.before.version = c.version - 1
    BY <1>1, <1>4 DEF HistoryInv, HandlersAreExact
  <2>2. c.undo # 0 => \E u \in history : u.version = c.undo /\ u.before.content = past[c.version]
    BY <1>1, <1>4 DEF HistoryInv, HandlersAreExact
  <2>3. \A d \in history : d.undo # 0 => \E u \in history : u.version = d.undo /\ u.before.content = past[d.version]
    BY DEF HistoryInv, RecordsAreExact
  <2> HIDE DEF c
  <2>4. \A d \in history' : d.undo # 0 => \E u \in history' : u.version = d.undo /\ u.before.content = past'[d.version]
    BY <1>2, <1>5, <2>2, <2>3
  <2> QED BY <1>2, <1>5, <2>1, <2>4 DEF HistoryInv, RecordsAreExact
<1> QED BY <1>6, <1>7, <1>8, <1>9, <1>10 DEF HistoryInv

\* For any number of handlers at once, whatever version the clients name: a
\* recorded before_state is what the row held at an earlier version, at the one
\* just before when the client named the version the handler read, and a revert of
\* the change restores exactly that.
THEOREM HistorySafe == HistorySpec => []HistoryIsExact
<1>1. HistoryInit => HistoryInv
  <2> SUFFICES ASSUME HistoryInit PROVE HistoryInv
    OBVIOUS
  <2>1. PICK c \in Contents : row = {[version |-> 1, content |-> c]} /\ past = [v \in 1 .. MaxVersion |-> c]
    BY DEF HistoryInit
  <2>2. history = {} /\ edits = [e \in Editors |-> {}]
    BY DEF HistoryInit
  <2>3. 1 \in 1 .. MaxVersion
    BY HistoryAssumption
  <2>4. HistoryTypes
    BY <2>1, <2>2, <2>3 DEF HistoryTypes, Row
  <2>5. NothingIsNewer
    BY <2>1, <2>2, <2>3 DEF NothingIsNewer
  <2> QED BY <2>2, <2>4, <2>5 DEF HistoryInv, HandlersAreExact, OneWriter, RecordsAreExact
<1>2. ASSUME HistoryInv, [HistoryNext]_historyVars
      PROVE  HistoryInv'
  <2>1. ASSUME NEW e \in Editors, UpdateRoleHandler(e) \/ UpdatePermissionHandler(e) \/ UpdateResourceHandler(e)
        PROVE  HistoryInv'
    BY <1>2, <2>1, UpdateKeeps DEF UpdateRoleHandler, UpdatePermissionHandler, UpdateResourceHandler
  <2>2. ASSUME NEW e \in Editors, RevertRoleHandler(e) \/ RevertPermissionHandler(e) \/ RevertResourceHandler(e)
        PROVE  HistoryInv'
    BY <1>2, <2>2, RevertKeeps DEF RevertRoleHandler, RevertPermissionHandler, RevertResourceHandler
  <2>3. ASSUME NEW e \in Editors, GetRoleChange(e) \/ GetPermissionChange(e) \/ GetResourceChange(e)
        PROVE  HistoryInv'
    BY <1>2, <2>3, GetChangeKeeps DEF GetRoleChange, GetPermissionChange, GetResourceChange
  <2>4. ASSUME NEW e \in Editors,
               \/ UpdateRole(e) \/ UpdatePermission(e) \/ UpdateResource(e)
               \/ RestoreRole(e) \/ RestorePermission(e) \/ RestoreResource(e)
        PROVE  HistoryInv'
    BY <1>2, <2>4, WriteKeeps
    DEF UpdateRole, UpdatePermission, UpdateResource, RestoreRole, RestorePermission, RestoreResource
  <2>5. ASSUME NEW e \in Editors, RecordRoleChange(e) \/ RecordPermissionChange(e) \/ RecordResourceChange(e)
        PROVE  HistoryInv'
    BY <1>2, <2>5, RecordKeeps DEF RecordRoleChange, RecordPermissionChange, RecordResourceChange
  <2>6. CASE DeleteRoleRow \/ DeletePermissionRow
    <3>1. row' = {} /\ UNCHANGED <<kind, history, edits, past>>
      BY <2>6 DEF DeleteRoleRow, DeletePermissionRow, DeleteRow
    <3> QED BY <1>2, <3>1 DEF HistoryInv, HistoryTypes, NothingIsNewer, HandlersAreExact, OneWriter, RecordsAreExact
  <2>7. CASE UNCHANGED historyVars
    BY <1>2, <2>7 DEF historyVars, HistoryInv, HistoryTypes, NothingIsNewer, HandlersAreExact, OneWriter, RecordsAreExact
  <2> QED BY <1>2, <2>1, <2>2, <2>3, <2>4, <2>5, <2>6, <2>7, AbandonKeeps, CreateAgainKeeps, Zenon DEF HistoryNext
<1>3. HistoryInv => HistoryIsExact
  <2> SUFFICES ASSUME HistoryInv, NEW change \in history, NEW undone \in history,
                      undone.version = change.undo
               PROVE  past[change.version] = past[undone.before.version]
    BY DEF HistoryInv, RecordsAreExact, HistoryIsExact
  <2>1. undone.version # 0
    BY DEF HistoryInv, HistoryTypes, Change
  <2>2. PICK u \in history : u.version = change.undo /\ u.before.content = past[change.version]
    BY <2>1 DEF HistoryInv, RecordsAreExact
  <2>3. u = undone
    BY <2>2 DEF HistoryInv, OneWriter
  <2> QED BY <2>2, <2>3 DEF HistoryInv, RecordsAreExact
<1> QED BY <1>1, <1>2, <1>3, PTL DEF HistorySpec

-----------------------------------------------------------------------------
(* Role bindings *)

RoleType == {"user", "service", "all"}

RbacTypes ==
    /\ roles \in [Roles -> SUBSET Role]
    /\ userRoles \subseteq People \X Roles
    /\ principalRoles \subseteq Principals \X Roles
    /\ class \in [People -> {"internal", "external"}]
    /\ typeEdits \subseteq Roles \X RoleType
    /\ syncs \in [People -> [open : BOOLEAN, read : SUBSET Roles]]
    /\ raced \in BOOLEAN

TablesAgree == {b \in principalRoles : b[1] \in People} = userRoles

BindingIsValid(b) ==
    /\ \E role \in roles[b[2]] : role.scope = "platform" /\ Assignable(role, TypeOf(b[1]))
    /\ b[1] \in People => class[b[1]] = "internal"

\* What a checked change of a role's type relies on: every binding of the role
\* suits the new type.
EditsFit == \A e \in typeEdits : \A b \in principalRoles : b[2] = e[1] => e[2] \in {"all", TypeOf(b[1])}

\* What a sync has read is still assigned.
SyncsFit == \A u \in People : \A r \in syncs[u].read : <<u, r>> \in userRoles

RbacInv ==
    /\ RbacTypes
    /\ ~raced => TablesAgree /\ (\A b \in principalRoles : BindingIsValid(b)) /\ EditsFit /\ SyncsFit

-----------------------------------------------------------------------------
\* A new or deleted role, or one whose permissions change, moves no binding.
LEMMA CreateRoleKeeps ==
    ASSUME RbacInv, NEW r \in Roles, NEW type \in RoleType, NEW scope \in {"platform", "organization"}, CreateRole(r, type, scope)
    PROVE  RbacInv'
<1>1. roles' = [roles EXCEPT ![r] = {[type |-> type, scope |-> scope, grants |-> FALSE]}] /\ roles[r] = {}
      /\ UNCHANGED <<userRoles, principalRoles, class, typeEdits, syncs, raced>>
  BY DEF CreateRole
<1>2. RbacTypes'
  BY <1>1 DEF RbacInv, RbacTypes, Role, RoleType
<1>3. ASSUME ~raced', NEW b \in principalRoles
      PROVE  BindingIsValid(b)'
  <2>1. BindingIsValid(b) /\ b[2] \in Roles
    BY <1>1, <1>3 DEF RbacInv, RbacTypes
  <2>2. b[2] # r
    BY <1>1, <2>1 DEF BindingIsValid
  <2>3. roles'[b[2]] = roles[b[2]]
    BY <1>1, <2>1, <2>2 DEF RbacInv, RbacTypes
  <2> QED BY <1>1, <2>1, <2>3 DEF BindingIsValid
<1> QED BY <1>1, <1>2, <1>3 DEF RbacInv, TablesAgree, EditsFit, SyncsFit

\* A deleted role takes its bindings with it.
LEMMA DeleteRoleKeeps ==
    ASSUME RbacInv, NEW r \in Roles, DeleteRole(r)
    PROVE  RbacInv'
<1>1. /\ roles' = [roles EXCEPT ![r] = {}]
      /\ userRoles' = {b \in userRoles : b[2] # r}
      /\ principalRoles' = {b \in principalRoles : b[2] # r}
      /\ typeEdits' = {e \in typeEdits : e[1] # r}
      /\ syncs' = [u \in People |-> [syncs[u] EXCEPT !.read = @ \ {r}]]
      /\ UNCHANGED <<class, raced>>
  BY DEF DeleteRole
<1>2. \A u \in People : syncs'[u] \in [open : BOOLEAN, read : SUBSET Roles] /\ syncs'[u].read = syncs[u].read \ {r}
  BY <1>1 DEF RbacInv, RbacTypes
<1>3. RbacTypes'
  BY <1>1, <1>2 DEF RbacInv, RbacTypes
<1>4. ASSUME ~raced', NEW b \in principalRoles'
      PROVE  BindingIsValid(b)'
  <2>1. BindingIsValid(b) /\ b[2] \in Roles /\ b[2] # r
    BY <1>1, <1>4 DEF RbacInv, RbacTypes
  <2>2. roles'[b[2]] = roles[b[2]]
    BY <1>1, <2>1 DEF RbacInv, RbacTypes
  <2> QED BY <1>1, <2>1, <2>2 DEF BindingIsValid
<1>5. ~raced' => TablesAgree'
  BY <1>1 DEF RbacInv, TablesAgree
<1>6. ~raced' => EditsFit'
  BY <1>1 DEF RbacInv, EditsFit
<1>7. ~raced' => SyncsFit'
  BY <1>1, <1>2 DEF RbacInv, SyncsFit
<1> QED BY <1>3, <1>4, <1>5, <1>6, <1>7 DEF RbacInv

\* A permission comes or goes; no binding depends on it.
LEMMA ChangePermissionKeeps ==
    ASSUME RbacInv, NEW r \in Roles, ChangePermission(r)
    PROVE  RbacInv'
<1>1. roles' = [roles EXCEPT ![r] = {[role EXCEPT !.grants = ~@] : role \in @}]
      /\ UNCHANGED <<userRoles, principalRoles, class, typeEdits, syncs, raced>>
  BY DEF ChangePermission
<1>2. \A role \in Role : [role EXCEPT !.grants = ~@] \in Role
                         /\ [role EXCEPT !.grants = ~@].scope = role.scope /\ [role EXCEPT !.grants = ~@].type = role.type
  BY DEF Role
<1>3. RbacTypes'
  BY <1>1, <1>2 DEF RbacInv, RbacTypes
<1>4. ASSUME NEW q \in Roles, NEW role \in roles[q]
      PROVE  \E new \in roles'[q] : new.scope = role.scope /\ new.type = role.type
  BY <1>1, <1>2 DEF RbacInv, RbacTypes
<1>5. ASSUME ~raced', NEW b \in principalRoles
      PROVE  BindingIsValid(b)'
  <2>1. BindingIsValid(b) /\ b[2] \in Roles
    BY <1>1, <1>5 DEF RbacInv, RbacTypes
  <2>2. PICK role \in roles[b[2]] : role.scope = "platform" /\ Assignable(role, TypeOf(b[1]))
    BY <2>1 DEF BindingIsValid
  <2>3. PICK new \in roles'[b[2]] : new.scope = role.scope /\ new.type = role.type
    BY <1>4, <2>1
  <2> QED BY <1>1, <2>1, <2>2, <2>3 DEF BindingIsValid, Assignable
<1> QED BY <1>1, <1>3, <1>5 DEF RbacInv, TablesAgree, EditsFit, SyncsFit

-----------------------------------------------------------------------------
\* Adding bindings of assignable roles to both tables at once.
LEMMA AssignKeeps ==
    ASSUME RbacInv, NEW p \in Principals, NEW R \in SUBSET Roles, \A r \in R : Bindable(p, r), Assign(p, R)
    PROVE  RbacInv'
<1>1. /\ principalRoles' = principalRoles \cup {<<p, r>> : r \in R}
      /\ userRoles' = IF p \in People THEN userRoles \cup {<<p, r>> : r \in R} ELSE userRoles
      /\ UNCHANGED <<roles, class, typeEdits, syncs>>
  BY DEF Assign
<1>2. raced' \in BOOLEAN /\ (~raced' => ~raced /\ \A r \in R : \A e \in typeEdits : e[1] # r)
  BY Zenon DEF Assign, Overtakes
<1>3. RbacTypes'
  BY <1>1, <1>2 DEF RbacInv, RbacTypes
<1>4. ASSUME ~raced', NEW b \in principalRoles'
      PROVE  BindingIsValid(b)'
  <2>1. CASE b \in principalRoles
    BY <1>1, <1>2, <1>4, <2>1 DEF RbacInv, BindingIsValid
  <2>2. CASE b \notin principalRoles
    <3>1. PICK r \in R : b = <<p, r>>
      BY <1>1, <1>4, <2>2
    <3> QED BY <1>1, <3>1 DEF Bindable, BindingIsValid
  <2> QED BY <2>1, <2>2
<1>5. ~raced' => TablesAgree'
  <2>1. ASSUME ~raced' PROVE \A b : b \in principalRoles' /\ b[1] \in People <=> b \in userRoles'
    BY <1>1, <1>2, <2>1 DEF RbacInv, TablesAgree
  <2> QED BY <2>1 DEF TablesAgree
<1>6. ~raced' => EditsFit'
  BY <1>1, <1>2 DEF RbacInv, EditsFit
<1>7. ~raced' => SyncsFit'
  BY <1>1, <1>2 DEF RbacInv, SyncsFit
<1> QED BY <1>3, <1>4, <1>5, <1>6, <1>7 DEF RbacInv

\* Removing a binding from both tables at once.
LEMMA UnassignKeeps ==
    ASSUME RbacInv, NEW p \in Principals, NEW r \in Roles, Unassign(p, r),
           principalRoles' = principalRoles \ {<<p, r>>},
           userRoles' = IF p \in People THEN userRoles \ {<<p, r>>} ELSE userRoles
    PROVE  RbacInv'
<1>1. UNCHANGED <<roles, class, typeEdits, syncs>>
  BY DEF Unassign
<1>2. raced' \in BOOLEAN /\ (~raced' => ~raced /\ ~(p \in People /\ r \in syncs[p].read))
  BY Zenon DEF Unassign
<1>3. RbacTypes'
  BY <1>1, <1>2 DEF RbacInv, RbacTypes
<1>4. ~raced' => \A b \in principalRoles' : BindingIsValid(b)'
  BY <1>1, <1>2 DEF RbacInv, BindingIsValid
<1>5. ~raced' => TablesAgree'
  BY <1>2 DEF RbacInv, TablesAgree
<1>6. ~raced' => EditsFit'
  BY <1>1, <1>2 DEF RbacInv, EditsFit
<1>7. ~raced' => SyncsFit'
  BY <1>1, <1>2 DEF RbacInv, SyncsFit
<1> QED BY <1>3, <1>4, <1>5, <1>6, <1>7 DEF RbacInv

-----------------------------------------------------------------------------
(* The steps that take no lock between a check and its write *)

\* The type of the role is read without a lock.
LEMMA CheckTypeKeeps ==
    ASSUME RbacInv, NEW r \in Roles, NEW type \in RoleType, CheckType(r, type)
    PROVE  RbacInv'
<1>1. typeEdits' = typeEdits \cup {<<r, type>>} /\ UNCHANGED <<roles, userRoles, principalRoles, class, syncs, raced>>
  BY DEF CheckType
<1>2. \A b \in principalRoles : b[2] = r => type \in {"all", TypeOf(b[1])}
  BY DEF CheckType
<1>3. RbacTypes'
  BY <1>1 DEF RbacInv, RbacTypes
<1>4. ~raced' => EditsFit'
  BY <1>1, <1>2 DEF RbacInv, EditsFit
<1> QED BY <1>1, <1>3, <1>4 DEF RbacInv, TablesAgree, SyncsFit, BindingIsValid

\* Every binding the check saw suits the new type, and an assignment since then
\* would have been recorded as a race.
LEMMA ChangeTypeKeeps ==
    ASSUME RbacInv, NEW r \in Roles, NEW type \in RoleType, ChangeType(r, type)
    PROVE  RbacInv'
<1>1. /\ <<r, type>> \in typeEdits
      /\ roles' = [roles EXCEPT ![r] = {[role EXCEPT !.type = type] : role \in @}]
      /\ typeEdits' = typeEdits \ {<<r, type>>}
      /\ UNCHANGED <<userRoles, principalRoles, class, syncs, raced>>
  BY DEF ChangeType
<1>2. \A role \in Role : [role EXCEPT !.type = type] \in Role
                         /\ [role EXCEPT !.type = type].scope = role.scope /\ [role EXCEPT !.type = type].type = type
  BY DEF Role, RoleType
<1>3. RbacTypes'
  BY <1>1, <1>2 DEF RbacInv, RbacTypes
<1>4. ASSUME ~raced', NEW b \in principalRoles
      PROVE  BindingIsValid(b)'
  <2>1. BindingIsValid(b) /\ b[2] \in Roles
    BY <1>1, <1>4 DEF RbacInv, RbacTypes
  <2>2. PICK role \in roles[b[2]] : role.scope = "platform" /\ Assignable(role, TypeOf(b[1]))
    BY <2>1 DEF BindingIsValid
  <2>3. role \in Role
    BY <2>1, <2>2 DEF RbacInv, RbacTypes
  <2>4. CASE b[2] # r
    <3>1. roles'[b[2]] = roles[b[2]]
      BY <1>1, <2>1, <2>4 DEF RbacInv, RbacTypes
    <3> QED BY <1>1, <2>1, <3>1 DEF BindingIsValid
  <2>5. CASE b[2] = r
    <3>1. type \in {"all", TypeOf(b[1])}
      BY <1>1, <1>4, <2>5 DEF RbacInv, EditsFit
    <3>2. [role EXCEPT !.type = type] \in roles'[b[2]]
      BY <1>1, <2>2, <2>5 DEF RbacInv, RbacTypes
    <3>3. Assignable([role EXCEPT !.type = type], TypeOf(b[1])) /\ [role EXCEPT !.type = type].scope = "platform"
      BY <1>2, <2>2, <2>3, <3>1 DEF Assignable
    <3> QED BY <1>1, <2>1, <3>2, <3>3 DEF BindingIsValid
  <2> QED BY <2>4, <2>5
<1>5. ~raced' => EditsFit'
  BY <1>1 DEF RbacInv, EditsFit
<1> QED BY <1>1, <1>3, <1>4, <1>5 DEF RbacInv, TablesAgree, SyncsFit

\* A synchronization reads what may be bound.
LEMMA ReadSyncKeeps ==
    ASSUME RbacInv, NEW u \in People, ReadSync(u)
    PROVE  RbacInv'
<1>1. /\ syncs' = [syncs EXCEPT ![u] = [open |-> TRUE, read |-> {r \in Roles : <<u, r>> \in userRoles /\ Bindable(u, r)}]]
      /\ UNCHANGED <<roles, userRoles, principalRoles, class, typeEdits, raced>>
  BY DEF ReadSync
<1>2. RbacTypes'
  BY <1>1 DEF RbacInv, RbacTypes
<1>3. ~raced' => SyncsFit'
  BY <1>1 DEF RbacInv, RbacTypes, SyncsFit
<1> QED BY <1>1, <1>2, <1>3 DEF RbacInv, TablesAgree, EditsFit, BindingIsValid

\* A sync that nothing overtook writes what is there already.
LEMMA WriteSyncKeeps ==
    ASSUME RbacInv, NEW u \in People, WriteSync(u)
    PROVE  RbacInv'
<1>1. /\ principalRoles' = principalRoles \cup {<<u, r>> : r \in syncs[u].read}
      /\ syncs' = [syncs EXCEPT ![u] = NoSync]
      /\ UNCHANGED <<roles, userRoles, class, typeEdits, raced>>
  BY DEF WriteSync
<1>2. RbacTypes'
  BY <1>1 DEF RbacInv, RbacTypes, NoSync, Principals
<1>3. ~raced => principalRoles' = principalRoles
  BY <1>1 DEF RbacInv, TablesAgree, SyncsFit
<1>4. ~raced' => SyncsFit'
  BY <1>1 DEF RbacInv, RbacTypes, SyncsFit, NoSync
<1> QED BY <1>1, <1>2, <1>3, <1>4 DEF RbacInv, TablesAgree, EditsFit, BindingIsValid

\* A class only changes where no platform role is bound.
LEMMA SetClassKeeps ==
    ASSUME RbacInv, NEW u \in People, NEW c \in {"internal", "external"}, SetUserClass(u, c)
    PROVE  RbacInv'
<1>1. class' = [class EXCEPT ![u] = c] /\ UNCHANGED <<roles, userRoles, principalRoles, typeEdits, syncs>>
  BY DEF SetUserClass
<1>2. raced' \in BOOLEAN /\ (~raced' => ~raced)
  BY Zenon DEF SetUserClass
<1>3. RbacTypes'
  BY <1>1, <1>2 DEF RbacInv, RbacTypes
<1>4. ASSUME ~raced', NEW b \in principalRoles
      PROVE  BindingIsValid(b)'
  <2>1. BindingIsValid(b)
    BY <1>2, <1>4 DEF RbacInv
  <2>2. b[1] \in People => class'[b[1]] = class[b[1]]
    <3>1. CASE b[1] # u
      BY <1>1, <3>1 DEF RbacInv, RbacTypes
    <3>2. CASE b[1] = u
      <4>1. HasPlatformRole(u)
        BY <2>1, <3>2 DEF HasPlatformRole, BindingIsValid
      <4>2. class[u] = c
        BY <4>1 DEF SetUserClass
      <4> QED BY <1>1, <3>2, <4>2 DEF RbacInv, RbacTypes
    <3> QED BY <3>1, <3>2
  <2> QED BY <1>1, <2>1, <2>2 DEF BindingIsValid
<1> QED BY <1>1, <1>2, <1>3, <1>4 DEF RbacInv, TablesAgree, EditsFit, SyncsFit

-----------------------------------------------------------------------------
\* Organization bindings, memberships, Principals, resources and decisions.
LEMMA OtherStepKeeps ==
    ASSUME RbacInv, UNCHANGED <<roles, userRoles, principalRoles, class, typeEdits, syncs, raced>>
    PROVE  RbacInv'
BY DEF RbacInv, RbacTypes, TablesAgree, EditsFit, SyncsFit, BindingIsValid

\* The steps of role administration keep the invariant.
LEMMA RoleChangesKeep ==
    ASSUME RbacInv, RoleChanges
    PROVE  RbacInv'
<1>1. ASSUME NEW r \in Roles, NEW type \in {"user", "service", "all"}, NEW scope \in {"platform", "organization"},
             CreateRole(r, type, scope)
      PROVE  RbacInv'
  BY <1>1, CreateRoleKeeps DEF RoleType
<1>2. ASSUME NEW r \in Roles, DeleteRole(r) \/ ChangePermission(r)
      PROVE  RbacInv'
  BY <1>2, DeleteRoleKeeps, ChangePermissionKeeps
<1>3. ASSUME NEW r \in Roles, NEW u \in People, RevokeRoleFromUser(u, r)
      PROVE  RbacInv'
  BY <1>3, UnassignKeeps DEF RevokeRoleFromUser, Principals
<1>4. ASSUME NEW u \in People, NEW R \in SUBSET Roles, AssignRolesToUser(u, R)
      PROVE  RbacInv'
  BY <1>4, AssignKeeps DEF AssignRolesToUser, Principals
<1>5. ASSUME NEW r \in Roles, NEW p \in Principals, AssignRoleToPrincipal(p, r)
      PROVE  RbacInv'
  <2>1. {r} \in SUBSET Roles /\ (\A q \in {r} : Bindable(p, q)) /\ Assign(p, {r})
    BY <1>5 DEF AssignRoleToPrincipal
  <2> QED BY <2>1, AssignKeeps
<1>6. ASSUME NEW r \in Roles, NEW p \in Principals, RevokeRoleFromPrincipal(p, r)
      PROVE  RbacInv'
  BY <1>6, UnassignKeeps DEF RevokeRoleFromPrincipal
<1>7. ASSUME NEW r \in Roles, NEW p \in Principals, AssignOrganizationRole(p, r) \/ RevokeOrganizationRole(p, r)
      PROVE  RbacInv'
  BY <1>7, OtherStepKeeps DEF AssignOrganizationRole, RevokeOrganizationRole
<1> QED BY <1>1, <1>2, <1>3, <1>4, <1>5, <1>6, <1>7, Zenon DEF RoleChanges

\* The steps that take no lock keep the invariant.
LEMMA UnlockedChangesKeep ==
    ASSUME RbacInv, UnlockedChanges
    PROVE  RbacInv'
<1>1. ASSUME NEW r \in Roles, NEW type \in {"user", "service", "all"}, CheckType(r, type) \/ ChangeType(r, type)
      PROVE  RbacInv'
  BY <1>1, CheckTypeKeeps, ChangeTypeKeeps DEF RoleType
<1>2. ASSUME NEW u \in People, ReadSync(u) \/ WriteSync(u) \/ \E c \in {"internal", "external"} : SetUserClass(u, c)
      PROVE  RbacInv'
  BY <1>2, ReadSyncKeeps, WriteSyncKeeps, SetClassKeeps
<1> QED BY <1>1, <1>2, Zenon DEF UnlockedChanges

\* The steps of a request change no role.
LEMMA RequestsKeep ==
    ASSUME RbacInv, Requests \/ \E p \in Principals : ChangeMember(p)
    PROVE  RbacInv'
<1>1. UNCHANGED <<roles, userRoles, principalRoles, class, typeEdits, syncs, raced>>
  BY DEF Requests, ChangePrincipal, Identify, ResolveContext, ResolveTarget, CheckOne, Answered, ChangeResource, ChangeMember, Answer
<1> QED BY <1>1, OtherStepKeeps

\* The account's and the Principal's role rows agree and are valid, for any number
\* of accounts, services and roles, however batches, revocations, syncs, changes
\* of class and of a role's type interleave, short of a recorded race.
THEOREM BindingsSafe == RbacSpec => []RoleBindingsAreValid
<1>1. RbacInit => RbacInv
  <2> SUFFICES ASSUME RbacInit PROVE RbacInv
    OBVIOUS
  <2>1. /\ roles = [r \in Roles |-> {}] /\ userRoles = {} /\ principalRoles = {} /\ typeEdits = {}
        /\ class \in [People -> {"internal", "external"}] /\ syncs = [u \in People |-> NoSync] /\ raced = FALSE
    BY DEF RbacInit
  <2>2. RbacTypes
    BY <2>1 DEF RbacTypes, NoSync
  <2>3. TablesAgree /\ EditsFit /\ SyncsFit
    BY <2>1 DEF TablesAgree, EditsFit, SyncsFit, NoSync
  <2> QED BY <2>1, <2>2, <2>3 DEF RbacInv
<1>2. ASSUME RbacInv, [BindingNext \/ RequestNext]_rbacVars
      PROVE  RbacInv'
  <2>1. CASE UNCHANGED rbacVars
    BY <1>2, <2>1, OtherStepKeeps DEF rbacVars
  <2> QED BY <1>2, <2>1, RoleChangesKeep, UnlockedChangesKeep, RequestsKeep, Zenon DEF BindingNext, RequestNext
<1>3. RbacInv => RoleBindingsAreValid
  BY DEF RbacInv, RoleBindingsAreValid, TablesAgree, BindingIsValid
<1> QED BY <1>1, <1>2, <1>3, PTL DEF RbacSpec

-----------------------------------------------------------------------------
(* Decisions *)

\* What a request has established by the time it is at its step.
DecisionInv ==
    /\ decision.step \in {"target", "decide", "allowed"} /\ decision.tenant => "member" \in decision.seen
    /\ decision.step \in {"none", "context", "target"} => "platform resource" \notin decision.seen
    /\ decision.step \in {"decide", "allowed"} =>
          (decision.scope = "platform") = (~decision.tenant \/ "platform resource" \in decision.seen)
    /\ decision.step = "allowed" =>
          IF decision.scope = "platform" THEN "platform role" \in decision.seen ELSE "organization role" \in decision.seen

DecisionTypes ==
    decision \in [step : {"none", "context", "target", "decide", "allowed", "denied"}, who : Principals \cup {"none"},
                  tenant : BOOLEAN, resource : BOOLEAN, scope : {"none", "platform", "tenant"},
                  seen : SUBSET {"live", "member", "platform resource", "platform role", "organization role"}]

\* The caller is who the token says.
LEMMA IdentifyKeeps ==
    ASSUME DecisionTypes, DecisionInv, NEW p \in Principals, NEW tenant \in BOOLEAN, NEW resource \in BOOLEAN, Identify(p, tenant, resource)
    PROVE  DecisionTypes' /\ DecisionInv'
<1>1. decision' = [step |-> "context", who |-> p, tenant |-> tenant, resource |-> resource, scope |-> "none", seen |-> {"live"}]
  BY DEF Identify, Answer, NoDecision
<1> QED BY <1>1 DEF DecisionTypes, DecisionInv

\* The context is resolved from the tables as they are.
LEMMA ResolveContextKeeps ==
    ASSUME DecisionTypes, DecisionInv, ResolveContext
    PROVE  DecisionTypes' /\ DecisionInv'
<1>1. CASE decision' = [decision EXCEPT !.step = "denied"]
  BY <1>1 DEF DecisionTypes, DecisionInv
<1>2. CASE decision' = [decision EXCEPT !.step = "target", !.seen = @ \cup IF decision.tenant THEN {"member"} ELSE {}]
  <2>1. DecisionTypes'
    BY <1>2 DEF DecisionTypes
  <2>2. decision'.step = "target" /\ decision'.tenant = decision.tenant
        /\ decision'.seen = decision.seen \cup IF decision.tenant THEN {"member"} ELSE {}
    BY <1>2 DEF DecisionTypes
  <2>3. decision.step = "context"
    BY DEF ResolveContext
  <2> QED BY <2>1, <2>2, <2>3 DEF DecisionInv
<1> QED BY <1>1, <1>2 DEF ResolveContext, Answer

\* A platform resource makes the scope the platform's, in a tenant context too.
LEMMA ResolveTargetKeeps ==
    ASSUME DecisionTypes, DecisionInv, ResolveTarget
    PROVE  DecisionTypes' /\ DecisionInv'
<1>1. decision.step = "target"
  BY DEF ResolveTarget
<1>2. /\ FoundResource \in {"tenant", "platform", "none"}
      /\ FoundResource = "tenant" => decision.tenant
  BY DEF FoundResource
<1> DEFINE step == IF decision.resource /\ FoundResource = "none" THEN "denied" ELSE "decide"
           scope == RoleScope(decision.tenant, decision.resource, FoundResource)
           seen == decision.seen \cup IF decision.resource /\ FoundResource = "platform" THEN {"platform resource"} ELSE {}
<1>3. decision' = [decision EXCEPT !.step = step, !.scope = scope, !.seen = seen]
  BY DEF ResolveTarget, Answer
<1>4. step \in {"denied", "decide"} /\ scope \in {"none", "platform", "tenant"}
      /\ seen \in SUBSET {"live", "member", "platform resource", "platform role", "organization role"}
  BY <1>2 DEF RoleScope, DecisionTypes
<1>5. step = "decide" => ((scope = "platform") <=> (~decision.tenant \/ "platform resource" \in seen))
  BY <1>1, <1>2 DEF RoleScope, DecisionInv, DecisionTypes
<1>6. decision.tenant => "member" \in seen
  BY <1>1 DEF DecisionInv
<1> HIDE DEF step, scope, seen
<1>7. DecisionTypes'
  BY <1>3, <1>4 DEF DecisionTypes
<1>8. decision'.step = step /\ decision'.scope = scope /\ decision'.seen = seen /\ decision'.tenant = decision.tenant
  BY <1>3 DEF DecisionTypes
<1> QED BY <1>4, <1>5, <1>6, <1>7, <1>8 DEF DecisionInv

\* One requirement is compared with what was resolved.
LEMMA CheckOneKeeps ==
    ASSUME DecisionTypes, DecisionInv, CheckOne
    PROVE  DecisionTypes' /\ DecisionInv'
<1> DEFINE granted == IF decision.scope = "platform" THEN PlatformPermission(decision.who) ELSE OrganizationPermission(decision.who)
           step == IF granted THEN "allowed" ELSE "denied"
           seen == decision.seen \cup (IF PlatformPermission(decision.who) THEN {"platform role"} ELSE {})
                                 \cup IF OrganizationPermission(decision.who) THEN {"organization role"} ELSE {}
<1>1. decision.step = "decide" /\ decision' = [decision EXCEPT !.step = step, !.seen = seen]
  BY DEF CheckOne, Answer
<1>2. step \in {"allowed", "denied"} /\ seen \in SUBSET {"live", "member", "platform resource", "platform role", "organization role"}
  BY DEF DecisionTypes
<1>3. decision.seen \subseteq seen /\ ("platform resource" \in seen <=> "platform resource" \in decision.seen)
  OBVIOUS
<1>4. step = "allowed" => IF decision.scope = "platform" THEN "platform role" \in seen ELSE "organization role" \in seen
  OBVIOUS
<1> HIDE DEF step, seen
<1>5. DecisionTypes'
  BY <1>1, <1>2 DEF DecisionTypes
<1>6. decision'.step = step /\ decision'.scope = decision.scope /\ decision'.seen = seen /\ decision'.tenant = decision.tenant
  BY <1>1 DEF DecisionTypes
<1> QED BY <1>1, <1>2, <1>3, <1>4, <1>5, <1>6 DEF DecisionInv

\* A decision for a platform resource, or outside a tenant context, is allowed by
\* platform roles alone and every other by organization roles of a member, while
\* roles, bindings, memberships and resources change between its queries.
THEOREM DecisionsSafe == RbacSpec => []DecisionsFollowScope
<1>1. RbacInit => DecisionTypes /\ DecisionInv
  <2> SUFFICES ASSUME RbacInit PROVE DecisionTypes /\ DecisionInv
    OBVIOUS
  <2>1. decision = [step |-> "none", who |-> "none", tenant |-> FALSE, resource |-> FALSE, scope |-> "none", seen |-> {}]
    BY DEF RbacInit, NoDecision
  <2> QED BY <2>1 DEF DecisionTypes, DecisionInv
<1>2. ASSUME DecisionTypes, DecisionInv, [BindingNext \/ RequestNext]_rbacVars
      PROVE  DecisionTypes' /\ DecisionInv'
  <2>1. CASE UNCHANGED decision
    BY <1>2, <2>1 DEF DecisionTypes, DecisionInv
  <2>2. CASE Answered
    <3>1. decision' = [step |-> "none", who |-> "none", tenant |-> FALSE, resource |-> FALSE, scope |-> "none", seen |-> {}]
      BY <2>2 DEF Answered, Answer, NoDecision
    <3> QED BY <3>1 DEF DecisionTypes, DecisionInv
  <2>3. RoleChanges => UNCHANGED decision
    BY DEF RoleChanges, CreateRole, DeleteRole, ChangePermission, RevokeRoleFromUser, AssignRolesToUser, AssignRoleToPrincipal,
           RevokeRoleFromPrincipal, AssignOrganizationRole, RevokeOrganizationRole, Assign, Unassign, Others
  <2>4. UnlockedChanges => UNCHANGED decision
    BY DEF UnlockedChanges, CheckType, ChangeType, ReadSync, WriteSync, SetUserClass, Others
  <2>5. ASSUME NEW p, ChangeMember(p) \/ ChangePrincipal(p) \/ ChangeResource(p)
        PROVE  UNCHANGED decision
    BY <2>5 DEF ChangeMember, ChangePrincipal, ChangeResource
  <2>6. UNCHANGED rbacVars => UNCHANGED decision
    BY DEF rbacVars
  <2> QED
    BY <1>2, <2>1, <2>2, <2>3, <2>4, <2>5, <2>6, IdentifyKeeps, ResolveContextKeeps, ResolveTargetKeeps, CheckOneKeeps, Zenon
    DEF BindingNext, RequestNext, Requests
<1>3. DecisionInv => DecisionsFollowScope
  BY DEF DecisionInv, DecisionsFollowScope
<1> QED BY <1>1, <1>2, <1>3, PTL DEF RbacSpec

-----------------------------------------------------------------------------
(* Row locks *)

\* the tables the transactions lock rows of
Tables ==
    {"organizations", "principals", "users", "organization_memberships",
     "password_reset_tokens", "machine_credentials", "service_clients"}

\* a row: table, organization (or none) and id
LockableRow == Tables \X (Orgs \cup {""}) \X Nat

\* the place of a table in the order of a family
Level(family, table) ==
    CASE table = "organizations"            -> IF family = "machine" THEN 3 ELSE 0
      [] table = "principals"               -> 1
      [] table = "users"                    -> IF family = "organization" THEN 2 ELSE IF family = "proof" THEN 1 ELSE 0
      [] table = "organization_memberships" -> IF family = "machine" THEN 4 ELSE 3
      [] table = "password_reset_tokens"    -> IF family = "proof" THEN 0 ELSE 4
      [] table = "machine_credentials"      -> IF family = "machine" THEN 0 ELSE 4
      [] table = "service_clients"          -> IF family = "machine" THEN 2 ELSE 5

\* the order in which a family locks its rows: by table, then by id
Below(family, r, s) ==
    \/ Level(family, r[1]) < Level(family, s[1])
    \/ Level(family, r[1]) = Level(family, s[1]) /\ r[3] < s[3]

\* a row is above all the rows before it, unless it is one of them
Ascends(family, rows) ==
    \A j \in DOMAIN rows :
        \/ \E i \in 1 .. j - 1 : rows[i] = rows[j]
        \/ \A i \in 1 .. j - 1 : Below(family, rows[i], rows[j])

\* Every table has a place in every order.
LEMMA LevelType ==
    ASSUME NEW f, NEW t \in Tables
    PROVE  Level(f, t) \in Nat
BY DEF Tables, Level

\* The rows the transactions lock, with their tables and ids.
LEMMA RowTypes ==
    ASSUME NEW o \in Orgs, NEW p \in Nat
    PROVE  /\ OrganizationRow(o) \in LockableRow /\ OrganizationRow(o)[1] = "organizations"
           /\ PrincipalRow(p) \in LockableRow /\ PrincipalRow(p)[1] = "principals" /\ PrincipalRow(p)[3] = p
           /\ UserRow(p) \in LockableRow /\ UserRow(p)[1] = "users" /\ UserRow(p)[3] = p
           /\ MemberRow(o, p) \in LockableRow /\ MemberRow(o, p)[1] = "organization_memberships" /\ MemberRow(o, p)[3] = p
           /\ ProofRow(p) \in LockableRow /\ ProofRow(p)[1] = "password_reset_tokens"
           /\ CredentialRow(p) \in LockableRow /\ CredentialRow(p)[1] = "machine_credentials"
           /\ ScopeRow(p) \in LockableRow /\ ScopeRow(p)[1] = "service_clients"
BY DEF OrganizationRow, PrincipalRow, UserRow, MemberRow, ProofRow, CredentialRow, ScopeRow, LockedRow, LockableRow, Tables

\* Below is a strict order of the rows.
LEMMA BelowTransitive ==
    ASSUME NEW f, NEW r \in LockableRow, NEW s \in LockableRow, NEW u \in LockableRow, Below(f, r, s), Below(f, s, u)
    PROVE  Below(f, r, u) /\ ~Below(f, s, r)
<1>1. /\ r[1] \in Tables /\ s[1] \in Tables /\ u[1] \in Tables
      /\ r[3] \in Nat /\ s[3] \in Nat /\ u[3] \in Nat
  BY DEF LockableRow
<1>2. Level(f, r[1]) \in Nat /\ Level(f, s[1]) \in Nat /\ Level(f, u[1]) \in Nat
  BY <1>1, LevelType
<1> QED BY <1>1, <1>2 DEF Below

\* More rows: each was taken before or is above all that were.
LEMMA ConcatAscends ==
    ASSUME NEW f, NEW R \in Seq(LockableRow), NEW S \in Seq(LockableRow), Ascends(f, R),
           \A y \in DOMAIN S : \/ \E x \in DOMAIN R : R[x] = S[y]
                               \/ /\ \A x \in DOMAIN R : Below(f, R[x], S[y])
                                  /\ \A z \in 1 .. y - 1 : Below(f, S[z], S[y])
    PROVE  /\ R \o S \in Seq(LockableRow) /\ Ascends(f, R \o S)
           /\ \A x \in DOMAIN R : \E z \in DOMAIN (R \o S) : (R \o S)[z] = R[x]
           /\ \A z \in DOMAIN (R \o S) : (\E x \in DOMAIN R : (R \o S)[z] = R[x]) \/ (\E y \in DOMAIN S : (R \o S)[z] = S[y])
<1> DEFINE T == R \o S
<1>1. /\ T \in Seq(LockableRow) /\ Len(T) = Len(R) + Len(S) /\ DOMAIN T = 1 .. Len(R) + Len(S)
      /\ \A i \in 1 .. Len(R) + Len(S) : T[i] = IF i <= Len(R) THEN R[i] ELSE S[i - Len(R)]
      /\ DOMAIN R = 1 .. Len(R) /\ DOMAIN S = 1 .. Len(S) /\ Len(R) \in Nat /\ Len(S) \in Nat
  BY ConcatProperties, LenProperties
<1> HIDE DEF T
<1>2. ASSUME NEW j \in DOMAIN T
      PROVE  (\E i \in 1 .. j - 1 : T[i] = T[j]) \/ (\A i \in 1 .. j - 1 : Below(f, T[i], T[j]))
  <2>1. CASE j <= Len(R)
    <3>1. j \in DOMAIN R /\ T[j] = R[j] /\ \A i \in 1 .. j - 1 : T[i] = R[i]
      BY <1>1, <2>1
    <3> QED BY <3>1 DEF Ascends
  <2>2. CASE j > Len(R)
    <3>1. /\ j - Len(R) \in DOMAIN S /\ T[j] = S[j - Len(R)]
          /\ \A i \in DOMAIN R : i \in 1 .. j - 1 /\ T[i] = R[i]
          /\ \A i \in 1 .. j - 1 : i \in DOMAIN R \/ (i - Len(R) \in 1 .. j - Len(R) - 1 /\ T[i] = S[i - Len(R)])
      BY <1>1, <2>2
    <3> QED BY <3>1
  <2> QED BY <1>1, <2>1, <2>2
<1>3. Ascends(f, T)
  BY <1>2 DEF Ascends
<1>4. \A x \in DOMAIN R : x \in DOMAIN T /\ T[x] = R[x]
  BY <1>1
<1>5. \A z \in DOMAIN T : (z \in DOMAIN R /\ T[z] = R[z]) \/ (z - Len(R) \in DOMAIN S /\ T[z] = S[z - Len(R)])
  BY <1>1
<1> QED BY <1>1, <1>3, <1>4, <1>5 DEF T

\* S takes the rows of one more table, in the order of the Principals.
OneTableMore(f, k, R, S) ==
    /\ R \in Seq(LockableRow) /\ S \in Seq(LockableRow) /\ Ascends(f, R)
    /\ \A x \in DOMAIN R : Level(f, R[x][1]) < k
    /\ \A y \in DOMAIN S : Level(f, S[y][1]) = k
    /\ \A y \in DOMAIN S : \A z \in 1 .. y - 1 : S[z][3] < S[y][3]

\* What R \o S then is.
UpToTable(f, n, R, S, T) ==
    /\ T \in Seq(LockableRow) /\ Ascends(f, T)
    /\ \A z \in DOMAIN T : Level(f, T[z][1]) < n
    /\ \A x \in DOMAIN R : \E z \in DOMAIN T : T[z] = R[x]
    /\ \A y \in DOMAIN S : \E z \in DOMAIN T : T[z] = S[y]

\* Table after table, the rows ascend.
LEMMA NextTable ==
    ASSUME NEW f, NEW k \in Nat, NEW R, NEW S, OneTableMore(f, k, R, S)
    PROVE  UpToTable(f, k + 1, R, S, R \o S)
<1> USE DEF OneTableMore
<1>1. ASSUME NEW y \in DOMAIN S
      PROVE  /\ \A x \in DOMAIN R : Below(f, R[x], S[y])
             /\ \A z \in 1 .. y - 1 : Below(f, S[z], S[y])
  <2>1. \A z \in 1 .. y - 1 : z \in DOMAIN S
    BY LenProperties
  <2> QED BY <2>1 DEF Below
<1>2. \A x \in DOMAIN R : Level(f, R[x][1]) \in Nat
  <2>1. \A x \in DOMAIN R : R[x] \in LockableRow
    BY ElementOfSeq, LenProperties
  <2> QED BY <2>1, LevelType DEF LockableRow
<1>3. /\ R \o S \in Seq(LockableRow) /\ Ascends(f, R \o S)
      /\ \A x \in DOMAIN R : \E z \in DOMAIN (R \o S) : (R \o S)[z] = R[x]
      /\ \A z \in DOMAIN (R \o S) : (\E x \in DOMAIN R : (R \o S)[z] = R[x]) \/ (\E y \in DOMAIN S : (R \o S)[z] = S[y])
  BY <1>1, ConcatAscends
<1>4. \A z \in DOMAIN (R \o S) : Level(f, (R \o S)[z][1]) < k + 1
  <2> TAKE z \in DOMAIN (R \o S)
  <2>1. CASE \E x \in DOMAIN R : (R \o S)[z] = R[x]
    BY <2>1, <1>2
  <2>2. CASE \E y \in DOMAIN S : (R \o S)[z] = S[y]
    BY <2>2
  <2> QED BY <1>3, <2>1, <2>2
<1>5. \A y \in DOMAIN S : y + Len(R) \in DOMAIN (R \o S) /\ (R \o S)[y + Len(R)] = S[y]
  BY ConcatProperties, LenProperties
<1> QED BY <1>3, <1>4, <1>5 DEF UpToTable

\* ORDER BY id
LEMMA ByIdFacts ==
    ASSUME NEW a \in Nat, NEW p \in Nat
    PROVE  /\ ById(a, p) \in Seq(Nat)
           /\ \A y \in DOMAIN ById(a, p) : \A z \in 1 .. y - 1 : ById(a, p)[z] < ById(a, p)[y]
           /\ \E y \in DOMAIN ById(a, p) : ById(a, p)[y] = p
<1>1. CASE a < p
  <2>1. ById(a, p) = <<a, p>>
    BY <1>1 DEF ById
  <2> QED BY <1>1, <2>1
<1>2. CASE a = p
  <2>1. ById(a, p) = <<a>>
    BY <1>2 DEF ById
  <2> QED BY <1>2, <2>1
<1>3. CASE a > p
  <2>1. ById(a, p) = <<p, a>>
    BY <1>3 DEF ById
  <2> QED BY <1>3, <2>1
<1> QED BY <1>1, <1>2, <1>3

\* lock_organization_manager_context goes from table to table.
LEMMA ManagerRowsAscend ==
    ASSUME NEW o \in Orgs, NEW a \in Humans, NEW p \in Humans \cup Machines
    PROVE  /\ ManagerRows(o, a, p) \in Seq(LockableRow) /\ Ascends("organization", ManagerRows(o, a, p))
           /\ \A x \in DOMAIN ManagerRows(o, a, p) : Level("organization", ManagerRows(o, a, p)[x][1]) < 4
           /\ \E x \in DOMAIN ManagerRows(o, a, p) : ManagerRows(o, a, p)[x] = OrganizationRow(o)
           /\ \E x \in DOMAIN ManagerRows(o, a, p) : ManagerRows(o, a, p)[x] = PrincipalRow(p)
           /\ \E x \in DOMAIN ManagerRows(o, a, p) : ManagerRows(o, a, p)[x] = MemberRow(o, p)
<1> DEFINE f == "organization"
           ids == ById(a, p)
           accounts == IF p \in Humans THEN ids ELSE <<a>>
           A == <<OrganizationRow(o)>>
           B == [i \in DOMAIN ids |-> PrincipalRow(ids[i])]
           C == [i \in DOMAIN accounts |-> UserRow(accounts[i])]
           D == [i \in DOMAIN ids |-> MemberRow(o, ids[i])]
<1>1. a \in Nat /\ p \in Nat
  BY LocksAssumption
<1>2. /\ ids \in Seq(Nat)
      /\ \A y \in DOMAIN ids : \A z \in 1 .. y - 1 : ids[z] < ids[y]
      /\ \E y \in DOMAIN ids : ids[y] = p
  BY <1>1, ByIdFacts
<1>3. /\ accounts \in Seq(Nat)
      /\ \A y \in DOMAIN accounts : \A z \in 1 .. y - 1 : accounts[z] < accounts[y]
  <2>1. CASE p \in Humans
    BY <2>1, <1>2
  <2>2. CASE p \notin Humans
    BY <2>2, <1>1
  <2> QED BY <2>1, <2>2
<1> HIDE DEF ids, accounts
<1>4. /\ DOMAIN ids = 1 .. Len(ids) /\ Len(ids) \in Nat /\ \A i \in DOMAIN ids : ids[i] \in Nat
      /\ DOMAIN accounts = 1 .. Len(accounts) /\ Len(accounts) \in Nat /\ \A i \in DOMAIN accounts : accounts[i] \in Nat
  BY <1>2, <1>3, LenProperties, ElementOfSeq
<1>5. /\ A \in Seq(LockableRow) /\ Ascends(f, A) /\ DOMAIN A = {1} /\ A[1] = OrganizationRow(o)
      /\ Level(f, A[1][1]) = 0
  <2>1. A \in Seq(LockableRow) /\ DOMAIN A = 1 .. 1 /\ A[1] = OrganizationRow(o)
    BY RowTypes, <1>1
  <2> QED BY <2>1, RowTypes, <1>1 DEF Ascends, Level
<1>6. /\ B \in Seq(LockableRow) /\ DOMAIN B = DOMAIN ids
      /\ \A y \in DOMAIN B : B[y] = PrincipalRow(ids[y]) /\ Level(f, B[y][1]) = 1 /\ B[y][3] = ids[y]
  <2>1. \A y \in DOMAIN ids : PrincipalRow(ids[y]) \in LockableRow /\ PrincipalRow(ids[y])[1] = "principals" /\ PrincipalRow(ids[y])[3] = ids[y]
    BY <1>4, RowTypes
  <2> QED BY <2>1, <1>4 DEF Level
<1>7. /\ C \in Seq(LockableRow) /\ DOMAIN C = DOMAIN accounts
      /\ \A y \in DOMAIN C : Level(f, C[y][1]) = 2 /\ C[y][3] = accounts[y]
  <2>1. \A y \in DOMAIN accounts : UserRow(accounts[y]) \in LockableRow /\ UserRow(accounts[y])[1] = "users" /\ UserRow(accounts[y])[3] = accounts[y]
    BY <1>4, RowTypes
  <2> QED BY <2>1, <1>4 DEF Level
<1>8. /\ D \in Seq(LockableRow) /\ DOMAIN D = DOMAIN ids
      /\ \A y \in DOMAIN D : D[y] = MemberRow(o, ids[y]) /\ Level(f, D[y][1]) = 3 /\ D[y][3] = ids[y]
  <2>1. \A y \in DOMAIN ids : MemberRow(o, ids[y]) \in LockableRow /\ MemberRow(o, ids[y])[1] = "organization_memberships" /\ MemberRow(o, ids[y])[3] = ids[y]
    BY <1>4, RowTypes
  <2> QED BY <2>1, <1>4 DEF Level
<1>9. ManagerRows(o, a, p) = ((A \o B) \o C) \o D
  BY DEF ManagerRows, ids, accounts
<1> HIDE DEF A, B, C, D, f
<1>10. \A y \in DOMAIN B : \A z \in 1 .. y - 1 : B[z][3] < B[y][3]
  <2>1. \A y \in DOMAIN ids : \A z \in 1 .. y - 1 : z \in DOMAIN ids
    BY <1>4
  <2>2. \A y \in DOMAIN ids : B[y][3] = ids[y]
    BY <1>6
  <2> QED BY <2>1, <2>2, <1>2, <1>6
<1>11. \A y \in DOMAIN C : \A z \in 1 .. y - 1 : C[z][3] < C[y][3]
  <2>1. \A y \in DOMAIN accounts : \A z \in 1 .. y - 1 : z \in DOMAIN accounts
    BY <1>4
  <2>2. \A y \in DOMAIN accounts : C[y][3] = accounts[y]
    BY <1>7
  <2> QED BY <2>1, <2>2, <1>3, <1>7
<1>12. \A y \in DOMAIN D : \A z \in 1 .. y - 1 : D[z][3] < D[y][3]
  <2>1. \A y \in DOMAIN ids : \A z \in 1 .. y - 1 : z \in DOMAIN ids
    BY <1>4
  <2>2. \A y \in DOMAIN ids : D[y][3] = ids[y]
    BY <1>8
  <2> QED BY <2>1, <2>2, <1>2, <1>8
<1>13. PICK R : R = A \o B
  OBVIOUS
<1>14. /\ R \in Seq(LockableRow) /\ Ascends(f, R)
       /\ \A z \in DOMAIN R : Level(f, R[z][1]) < 2
       /\ \A x \in DOMAIN A : \E z \in DOMAIN R : R[z] = A[x]
       /\ \A y \in DOMAIN B : \E z \in DOMAIN R : R[z] = B[y]
  <2>1. \A x \in DOMAIN A : Level(f, A[x][1]) < 1
    BY <1>5
  <2>2. \A y \in DOMAIN B : Level(f, B[y][1]) = 1
    BY <1>6
  <2>3. OneTableMore(f, 1, A, B)
    BY <2>1, <2>2, <1>5, <1>6, <1>10 DEF OneTableMore
  <2>4. UpToTable(f, 1 + 1, A, B, A \o B)
    BY <2>3, NextTable
  <2>5. UpToTable(f, 2, A, B, R)
    BY <2>4, <1>13
  <2> QED BY <2>5 DEF UpToTable
<1>15. PICK S : S = R \o C
  OBVIOUS
<1>16. /\ S \in Seq(LockableRow) /\ Ascends(f, S)
       /\ \A z \in DOMAIN S : Level(f, S[z][1]) < 3
       /\ \A x \in DOMAIN R : \E z \in DOMAIN S : S[z] = R[x]
  <2>1. \A y \in DOMAIN C : Level(f, C[y][1]) = 2
    BY <1>7
  <2>3. OneTableMore(f, 2, R, C)
    BY <2>1, <1>7, <1>11, <1>14 DEF OneTableMore
  <2>4. UpToTable(f, 2 + 1, R, C, R \o C)
    BY <2>3, NextTable
  <2> QED BY <2>4, <1>15 DEF UpToTable
<1>17. PICK T : T = S \o D
  OBVIOUS
<1>18. /\ T \in Seq(LockableRow) /\ Ascends(f, T)
       /\ \A z \in DOMAIN T : Level(f, T[z][1]) < 4
       /\ \A x \in DOMAIN S : \E z \in DOMAIN T : T[z] = S[x]
       /\ \A y \in DOMAIN D : \E z \in DOMAIN T : T[z] = D[y]
  <2>1. \A y \in DOMAIN D : Level(f, D[y][1]) = 3
    BY <1>8
  <2>3. OneTableMore(f, 3, S, D)
    BY <2>1, <1>8, <1>12, <1>16 DEF OneTableMore
  <2>4. UpToTable(f, 3 + 1, S, D, S \o D)
    BY <2>3, NextTable
  <2> QED BY <2>4, <1>17 DEF UpToTable
<1>19. T = ManagerRows(o, a, p)
  BY <1>9, <1>13, <1>15, <1>17
<1>20. (\E x \in DOMAIN T : T[x] = OrganizationRow(o)) /\ (\E x \in DOMAIN T : T[x] = PrincipalRow(p))
  <2>1. \A x \in DOMAIN R : \E z \in DOMAIN T : T[z] = R[x]
    BY <1>16, <1>18
  <2>2. (\E x \in DOMAIN R : R[x] = OrganizationRow(o)) /\ (\E x \in DOMAIN R : R[x] = PrincipalRow(p))
    BY <1>14, <1>5, <1>6, <1>2
  <2> QED BY <2>1, <2>2
<1>21. \E x \in DOMAIN T : T[x] = MemberRow(o, p)
  BY <1>18, <1>8, <1>2
<1> QED BY <1>18, <1>19, <1>20, <1>21 DEF f

\* A transaction that has begun.
Begun(new) ==
    /\ new = [family |-> new.family, rows |-> new.rows, locked |-> 0]
    /\ new.rows \in Seq(LockableRow) /\ Ascends(new.family, new.rows)

\* A transaction starts with nothing locked.
LEMMA TxBegun ==
    ASSUME NEW f, NEW R \in Seq(LockableRow), Ascends(f, R)
    PROVE  Begun(Tx(f, R))
BY DEF Begun, Tx

\* Short transactions.
LEMMA TwoRows ==
    ASSUME NEW f, NEW r \in LockableRow, NEW s \in LockableRow, Below(f, r, s)
    PROVE  Begun(Tx(f, <<r>>)) /\ Begun(Tx(f, <<r, s>>))
<1>1. <<r>> \in Seq(LockableRow) /\ Ascends(f, <<r>>)
  BY DEF Ascends
<1>2. <<r, s>> \in Seq(LockableRow) /\ Ascends(f, <<r, s>>)
  BY DEF Ascends
<1> QED BY <1>1, <1>2, TxBegun

\* Three rows in order.
LEMMA ThreeRows ==
    ASSUME NEW f, NEW r \in LockableRow, NEW s \in LockableRow, NEW u \in LockableRow, Below(f, r, s), Below(f, s, u)
    PROVE  Begun(Tx(f, <<r, s, u>>))
<1>1. Below(f, r, u)
  BY BelowTransitive
<1>2. <<r, s, u>> \in Seq(LockableRow) /\ Ascends(f, <<r, s, u>>)
  BY <1>1 DEF Ascends
<1> QED BY <1>2, TxBegun

\* Four rows in order.
LEMMA FourRows ==
    ASSUME NEW f, NEW r \in LockableRow, NEW s \in LockableRow, NEW u \in LockableRow, NEW v \in LockableRow,
           Below(f, r, s), Below(f, s, u), Below(f, u, v)
    PROVE  /\ <<r, s, u, v>> \in Seq(LockableRow) /\ Ascends(f, <<r, s, u, v>>) /\ Begun(Tx(f, <<r, s, u, v>>))
<1>1. Below(f, r, u) /\ Below(f, r, v) /\ Below(f, s, v)
  BY BelowTransitive
<1>2. <<r, s, u, v>> \in Seq(LockableRow) /\ Ascends(f, <<r, s, u, v>>)
  BY <1>1 DEF Ascends
<1> QED BY <1>2, TxBegun

\* The transactions of an organization lock its row first, then Principals, users,
\* memberships, and what a rotation adds (lock_organization_manager_context).
LEMMA OrganizationOrder ==
    ASSUME NEW new \in OrganizationTx
    PROVE  Begun(new)
<1> DEFINE f == "organization"
<1>1. ASSUME NEW o \in Orgs, NEW a \in Humans, NEW p \in Humans \cup Machines
      PROVE  Begun(DelegatedTx(o, a, p))
  BY ManagerRowsAscend, TxBegun DEF DelegatedTx
<1>2. ASSUME NEW o \in Orgs, NEW p \in Humans \cup Machines
      PROVE  /\ Begun(UpsertTx(o, p)) /\ Begun(JoinTx(o, p)) /\ Begun(SessionTx(o, p))
  <2>1. p \in Nat
    BY LocksAssumption
  <2>2. /\ Below(f, OrganizationRow(o), PrincipalRow(p)) /\ Below(f, PrincipalRow(p), MemberRow(o, p))
        /\ Below(f, PrincipalRow(p), UserRow(p)) /\ Below(f, UserRow(p), MemberRow(o, p))
    BY <2>1, RowTypes DEF Below, Level
  <2>3. Begun(UpsertTx(o, p))
    BY <2>1, <2>2, RowTypes, ThreeRows DEF UpsertTx
  <2>4. Begun(JoinTx(o, p)) /\ Begun(SessionTx(o, p))
    BY <2>1, <2>2, RowTypes, FourRows DEF JoinTx, SessionTx
  <2> QED BY <2>3, <2>4
<1>3. ASSUME NEW o \in Orgs, NEW a \in Humans, NEW m \in Machines
      PROVE  Begun(ManagedRotationTx(o, a, m))
  <2>1. m \in Nat
    BY LocksAssumption
  <2>2. PICK R : R = ManagerRows(o, a, m)
    OBVIOUS
  <2>3. /\ R \in Seq(LockableRow) /\ Ascends(f, R)
        /\ \A x \in DOMAIN R : Level(f, R[x][1]) < 4
        /\ \E x \in DOMAIN R : R[x] = OrganizationRow(o)
        /\ \E x \in DOMAIN R : R[x] = PrincipalRow(m)
        /\ \E x \in DOMAIN R : R[x] = MemberRow(o, m)
    BY <2>2, ManagerRowsAscend
  <2>4. \A x \in DOMAIN R : Below(f, R[x], CredentialRow(m)) /\ Below(f, R[x], ScopeRow(m))
    <3>1. Level(f, CredentialRow(m)[1]) = 4 /\ Level(f, ScopeRow(m)[1]) = 5
      BY <2>1, RowTypes DEF Level
    <3>2. \A x \in DOMAIN R : Level(f, R[x][1]) \in Nat
      <4>1. \A x \in DOMAIN R : R[x] \in LockableRow
        BY <2>3, ElementOfSeq, LenProperties
      <4> QED BY <4>1, LevelType DEF LockableRow
    <3> QED BY <3>1, <3>2, <2>3 DEF Below
  <2>5. PICK Q : Q = R \o <<CredentialRow(m)>>
    OBVIOUS
  <2>6. /\ Q \in Seq(LockableRow) /\ Ascends(f, Q)
        /\ \A x \in DOMAIN R : \E z \in DOMAIN Q : Q[z] = R[x]
        /\ \A z \in DOMAIN Q : (\E x \in DOMAIN R : Q[z] = R[x]) \/ Q[z] = CredentialRow(m)
    <3>1. <<CredentialRow(m)>> \in Seq(LockableRow) /\ DOMAIN <<CredentialRow(m)>> = {1} /\ <<CredentialRow(m)>>[1] = CredentialRow(m)
      BY <2>1, RowTypes
    <3>2. PICK S : S = <<CredentialRow(m)>>
      OBVIOUS
    <3>3. S \in Seq(LockableRow) /\ DOMAIN S = {1} /\ S[1] = CredentialRow(m)
      BY <3>1, <3>2
    <3>4. \A y \in DOMAIN S : (\A x \in DOMAIN R : Below(f, R[x], S[y])) /\ \A z \in 1 .. y - 1 : Below(f, S[z], S[y])
      BY <3>3, <2>4
    <3>5. /\ R \o S \in Seq(LockableRow) /\ Ascends(f, R \o S)
          /\ \A x \in DOMAIN R : \E z \in DOMAIN (R \o S) : (R \o S)[z] = R[x]
          /\ \A z \in DOMAIN (R \o S) : (\E x \in DOMAIN R : (R \o S)[z] = R[x]) \/ (\E y \in DOMAIN S : (R \o S)[z] = S[y])
      BY <2>3, <3>3, <3>4, ConcatAscends
    <3> QED BY <3>2, <3>3, <3>5, <2>5
  <2>7. PICK S : S = ScopeRows(o, m)
    OBVIOUS
  <2>8. /\ S \in Seq(LockableRow) /\ DOMAIN S = 1 .. 4
        /\ S[1] = PrincipalRow(m) /\ S[2] = ScopeRow(m) /\ S[3] = OrganizationRow(o) /\ S[4] = MemberRow(o, m)
    BY <2>1, <2>7, RowTypes DEF ScopeRows
  <2>9. /\ \E z \in DOMAIN Q : Q[z] = PrincipalRow(m)
        /\ \E z \in DOMAIN Q : Q[z] = OrganizationRow(o)
        /\ \E z \in DOMAIN Q : Q[z] = MemberRow(o, m)
    BY <2>3, <2>6
  <2>10. Below(f, CredentialRow(m), ScopeRow(m)) /\ Below(f, PrincipalRow(m), ScopeRow(m))
    BY <2>1, RowTypes DEF Below, Level
  <2>11. \A z \in DOMAIN Q : Below(f, Q[z], ScopeRow(m))
    BY <2>4, <2>6, <2>10
  <2>12. \A y \in DOMAIN S : \/ \E x \in DOMAIN Q : Q[x] = S[y]
                             \/ (\A x \in DOMAIN Q : Below(f, Q[x], S[y])) /\ \A z \in 1 .. y - 1 : Below(f, S[z], S[y])
    <3> TAKE y \in DOMAIN S
    <3>1. CASE y = 2
      <4>1. \A z \in 1 .. y - 1 : z = 1
        BY <3>1
      <4> QED BY <3>1, <4>1, <2>8, <2>10, <2>11
    <3>2. CASE y # 2
      <4>1. y \in {1, 3, 4}
        BY <3>2, <2>8
      <4> QED BY <4>1, <2>8, <2>9
    <3> QED BY <3>1, <3>2
  <2>13. Q \o S \in Seq(LockableRow) /\ Ascends(f, Q \o S)
    BY <2>6, <2>8, <2>12, ConcatAscends
  <2>14. ManagedRotationTx(o, a, m) = Tx(f, Q \o S)
    BY <2>2, <2>5, <2>7 DEF ManagedRotationTx
  <2> QED BY <2>13, <2>14, TxBegun
<1> QED BY <1>1, <1>2, <1>3 DEF OrganizationTx

\* The transactions of an account lock the user first; the two that consume a proof
\* lock the proof first, and are a family of their own.
LEMMA AccountOrder ==
    ASSUME NEW new \in AccountTx \cup ProofTx
    PROVE  Begun(new)
<1>1. ASSUME NEW p \in Humans
      PROVE  /\ Begun(PasswordTx(p)) /\ Begun(IssueResetTx(p)) /\ Begun(IssueVerificationTx(p))
             /\ Begun(ConsumeResetTx(p)) /\ Begun(ConsumeVerificationTx(p))
             /\ \A o \in Orgs : Begun(PromoteTx(o, p))
  <2>1. p \in Nat
    BY LocksAssumption
  <2>2. /\ UserRow(p) \in LockableRow /\ UserRow(p)[1] = "users"
        /\ ProofRow(p) \in LockableRow /\ ProofRow(p)[1] = "password_reset_tokens"
    BY <2>1 DEF UserRow, ProofRow, LockedRow, LockableRow, Tables
  <2>3. Below("account", UserRow(p), ProofRow(p)) /\ Below("proof", ProofRow(p), UserRow(p))
    BY <2>2 DEF Below, Level
  <2>4. Begun(PasswordTx(p)) /\ Begun(IssueResetTx(p)) /\ Begun(IssueVerificationTx(p))
    BY <2>2, <2>3, TwoRows DEF PasswordTx, IssueResetTx, IssueVerificationTx
  <2>5. Begun(ConsumeResetTx(p)) /\ Begun(ConsumeVerificationTx(p))
    BY <2>2, <2>3, TwoRows DEF ConsumeResetTx, ConsumeVerificationTx
  <2>6. ASSUME NEW o \in Orgs
        PROVE  Begun(PromoteTx(o, p))
    <3>1. Below("account", UserRow(p), PrincipalRow(p)) /\ Below("account", PrincipalRow(p), MemberRow(o, p))
      BY <2>1, RowTypes DEF Below, Level
    <3> QED BY <2>1, <3>1, RowTypes, ThreeRows DEF PromoteTx
  <2> QED BY <2>4, <2>5, <2>6
<1> QED BY <1>1 DEF AccountTx, ProofTx

\* The transactions of a machine lock the credential, the Principal, the service
\* client, the organization and the membership.
LEMMA MachineOrder ==
    ASSUME NEW new \in MachineTx
    PROVE  Begun(new)
<1> DEFINE f == "machine"
<1>1. ASSUME NEW o \in Orgs, NEW m \in Machines
      PROVE  Begun(CreateKeyTx(o, m)) /\ Begun(RotateKeyTx(o, m))
  <2>1. m \in Nat
    BY LocksAssumption
  <2>2. /\ Below(f, PrincipalRow(m), ScopeRow(m)) /\ Below(f, ScopeRow(m), OrganizationRow(o))
        /\ Below(f, OrganizationRow(o), MemberRow(o, m))
        /\ Below(f, CredentialRow(m), PrincipalRow(m)) /\ Below(f, CredentialRow(m), ScopeRow(m))
        /\ Below(f, CredentialRow(m), OrganizationRow(o)) /\ Below(f, CredentialRow(m), MemberRow(o, m))
        /\ Below(f, PrincipalRow(m), OrganizationRow(o)) /\ Below(f, PrincipalRow(m), MemberRow(o, m))
        /\ Below(f, ScopeRow(m), MemberRow(o, m))
    BY <2>1, RowTypes DEF Below, Level
  <2>3. Begun(CreateKeyTx(o, m))
    BY <2>1, <2>2, RowTypes, FourRows DEF CreateKeyTx, ScopeRows
  <2>4. PICK R : R = <<CredentialRow(m)>>
    OBVIOUS
  <2>5. R \in Seq(LockableRow) /\ DOMAIN R = 1 .. 1 /\ R[1] = CredentialRow(m)
    BY <2>1, <2>4, RowTypes
  <2>6. PICK S : S = ScopeRows(o, m)
    OBVIOUS
  <2>7. /\ S \in Seq(LockableRow) /\ DOMAIN S = 1 .. 4
        /\ S[1] = PrincipalRow(m) /\ S[2] = ScopeRow(m) /\ S[3] = OrganizationRow(o) /\ S[4] = MemberRow(o, m)
    BY <2>1, <2>6, RowTypes DEF ScopeRows
  <2>8. \A y \in DOMAIN S : (\A x \in DOMAIN R : Below(f, R[x], S[y])) /\ \A z \in 1 .. y - 1 : Below(f, S[z], S[y])
    <3> TAKE y \in DOMAIN S
    <3>1. y \in {1, 2, 3, 4} /\ \A z \in 1 .. y - 1 : z \in {1, 2, 3} /\ (y = 2 => z = 1) /\ (y = 3 => z \in {1, 2}) /\ y # 1
      BY <2>7
    <3>2. DOMAIN R = {1}
      BY <2>5
    <3> QED BY <3>1, <3>2, <2>2, <2>5, <2>7
  <2>9. Ascends(f, R)
    BY <2>5 DEF Ascends
  <2>10. R \o S \in Seq(LockableRow) /\ Ascends(f, R \o S)
    BY <2>5, <2>7, <2>8, <2>9, ConcatAscends
  <2>11. RotateKeyTx(o, m) = Tx(f, R \o S)
    BY <2>4, <2>6 DEF RotateKeyTx
  <2> QED BY <2>3, <2>10, <2>11, TxBegun
<1>2. ASSUME NEW m \in Machines
      PROVE  Begun(VerifyKeyTx(m))
  <2>1. m \in Nat
    BY LocksAssumption
  <2>2. /\ CredentialRow(m) \in LockableRow /\ CredentialRow(m)[1] = "machine_credentials"
        /\ PrincipalRow(m) \in LockableRow /\ PrincipalRow(m)[1] = "principals"
    BY <2>1 DEF CredentialRow, PrincipalRow, LockedRow, LockableRow, Tables
  <2>3. Below(f, CredentialRow(m), PrincipalRow(m))
    BY <2>2 DEF Below, Level
  <2> QED BY <2>2, <2>3, TwoRows DEF VerifyKeyTx
<1> QED BY <1>1, <1>2 DEF MachineTx

-----------------------------------------------------------------------------
\* a transaction has locked a prefix of its rows, which ascend
TxOK(x) ==
    /\ x = [family |-> x.family, rows |-> x.rows, locked |-> x.locked]
    /\ x.rows \in Seq(LockableRow) /\ x.locked \in 0 .. Len(x.rows) /\ Ascends(x.family, x.rows)

\* Every transaction is in order, and no row is locked twice.
LocksInv ==
    /\ DOMAIN tx = TxSlots /\ tx = [t \in TxSlots |-> tx[t]]
    /\ \A t \in TxSlots : TxOK(tx[t])
    /\ \A t, u \in TxSlots : t # u => Holds(t) \cap Holds(u) = {}

\* An empty slot is in order.
LEMMA NoTxOK == TxOK(NoTx) /\ NoTx.locked = 0
<1>1. <<>> \in Seq(LockableRow) /\ Len(<<>>) = 0
  OBVIOUS
<1>2. Ascends("none", <<>>)
  BY DEF Ascends
<1> QED BY <1>1, <1>2 DEF TxOK, NoTx

\* A slot that holds nothing disturbs no one.
LEMMA EmptySlotKeeps ==
    ASSUME LocksInv, NEW t \in TxSlots, NEW x, TxOK(x), x.locked = 0, tx' = [tx EXCEPT ![t] = x]
    PROVE  LocksInv'
<1>1. tx'[t] = x /\ (\A u \in TxSlots \ {t} : tx'[u] = tx[u]) /\ DOMAIN tx' = TxSlots /\ tx' = [u \in TxSlots |-> tx'[u]]
  BY DEF LocksInv
<1>2. Holds(t)' = {}
  BY <1>1 DEF Holds
<1>3. \A u \in TxSlots \ {t} : Holds(u)' = Holds(u)
  BY <1>1 DEF Holds
<1>4. \A v, u \in TxSlots : v # u => Holds(v)' \cap Holds(u)' = {}
  BY <1>2, <1>3 DEF LocksInv
<1>5. \A u \in TxSlots : TxOK(tx'[u])
  BY <1>1 DEF LocksInv
<1> QED BY <1>1, <1>4, <1>5 DEF LocksInv

\* A row is locked by one transaction: the others wait.
LEMMA LockRowKeeps ==
    ASSUME LocksInv, NEW t \in TxSlots, LockRow(t)
    PROVE  LocksInv'
<1>1. /\ tx'[t] = [tx[t] EXCEPT !.locked = @ + 1] /\ (\A u \in TxSlots \ {t} : tx'[u] = tx[u])
      /\ DOMAIN tx' = TxSlots /\ tx' = [u \in TxSlots |-> tx'[u]]
  BY DEF LocksInv, LockRow
<1>2. PICK x : x = tx[t]
  OBVIOUS
<1>3. PICK y : y = tx'[t]
  OBVIOUS
<1>4. TxOK(x) /\ x.locked < Len(x.rows)
  BY <1>2 DEF LocksInv, LockRow
<1>5. /\ y = [family |-> y.family, rows |-> y.rows, locked |-> y.locked]
      /\ y.family = x.family /\ y.rows = x.rows /\ y.locked = x.locked + 1
  BY <1>1, <1>2, <1>3, <1>4 DEF TxOK
<1>6. Len(x.rows) \in Nat /\ x.locked \in Nat
  BY <1>4, LenProperties DEF TxOK
<1>7. TxOK(y)
  BY <1>4, <1>5, <1>6 DEF TxOK
<1>8. Holds(t)' = Holds(t) \cup {x.rows[x.locked + 1]}
  <2>1. Holds(t)' = {x.rows[i] : i \in 1 .. x.locked + 1}
    BY <1>3, <1>5 DEF Holds
  <2>2. Holds(t) = {x.rows[i] : i \in 1 .. x.locked}
    BY <1>2 DEF Holds
  <2>3. 1 .. x.locked + 1 = (1 .. x.locked) \cup {x.locked + 1}
    BY <1>6
  <2> QED BY <2>1, <2>2, <2>3
<1>9. \A u \in TxSlots \ {t} : Holds(u)' = Holds(u)
  BY <1>1 DEF Holds
<1>10. \A u \in TxSlots \ {t} : x.rows[x.locked + 1] \notin Holds(u)
  BY <1>2, <1>4 DEF LockRow, Waits
<1>11. \A v, u \in TxSlots : v # u => Holds(v)' \cap Holds(u)' = {}
  <2> SUFFICES ASSUME NEW v \in TxSlots, NEW u \in TxSlots, v # u
               PROVE  Holds(v)' \cap Holds(u)' = {}
    OBVIOUS
  <2>1. Holds(v) \cap Holds(u) = {}
    BY DEF LocksInv
  <2> QED BY <2>1, <1>8, <1>9, <1>10
<1>12. \A u \in TxSlots : TxOK(tx'[u])
  BY <1>1, <1>3, <1>7 DEF LocksInv
<1> QED BY <1>1, <1>11, <1>12 DEF LocksInv

\* Hence the invariant holds always.
LEMMA LocksInvariant == LocksSpec => []LocksInv
<1>1. LocksInit => LocksInv
  <2> SUFFICES ASSUME LocksInit PROVE LocksInv
    OBVIOUS
  <2>1. \A t \in TxSlots : tx[t] = NoTx
    BY DEF LocksInit
  <2>2. \A t \in TxSlots : Holds(t) = {}
    BY <2>1, NoTxOK DEF Holds
  <2> QED BY <2>1, <2>2, NoTxOK DEF LocksInit, LocksInv
<1>2. LocksInv /\ [LocksNext]_tx => LocksInv'
  <2> SUFFICES ASSUME LocksInv, [LocksNext]_tx PROVE LocksInv'
    OBVIOUS
  <2>1. ASSUME NEW t \in TxSlots, BeginTx(t) PROVE LocksInv'
    <3>1. PICK new \in OrganizationTx \cup AccountTx \cup ProofTx \cup MachineTx : tx' = [tx EXCEPT ![t] = new]
      BY <2>1 DEF BeginTx
    <3>2. Begun(new)
      BY OrganizationOrder, AccountOrder, MachineOrder
    <3>3. Len(new.rows) \in Nat
      BY <3>2, LenProperties DEF Begun
    <3>4. new.locked = 0
      BY <3>2 DEF Begun
    <3>5. TxOK(new)
      BY <3>2, <3>3, <3>4 DEF Begun, TxOK
    <3> QED BY <3>1, <3>4, <3>5, EmptySlotKeeps
  <2>2. ASSUME NEW t \in TxSlots, EndTx(t) \/ AbortTx(t) PROVE LocksInv'
    <3>1. tx' = [tx EXCEPT ![t] = NoTx]
      BY <2>2 DEF EndTx, AbortTx
    <3> QED BY <3>1, NoTxOK, EmptySlotKeeps
  <2>3. CASE UNCHANGED tx
    BY <2>3 DEF LocksInv, Holds
  <2> QED BY <2>1, <2>2, <2>3, LockRowKeeps DEF LocksNext
<1> QED BY <1>1, <1>2, PTL DEF LocksSpec

\* What a transaction waits for is above all it holds.
LEMMA WantedIsAbove ==
    ASSUME LocksInv, NEW t \in TxSlots, NEW u \in TxSlots, Waits(t, u)
    PROVE  /\ tx[t].rows[tx[t].locked + 1] \in LockableRow
           /\ Holds(t) \subseteq LockableRow
           /\ \A r \in Holds(t) : Below(tx[t].family, r, tx[t].rows[tx[t].locked + 1])
<1>1. PICK x : x = tx[t]
  OBVIOUS
<1>2. /\ TxOK(x) /\ x.locked < Len(x.rows) /\ x.rows[x.locked + 1] \in Holds(u) /\ t # u
  BY <1>1 DEF LocksInv, Waits
<1>3. Len(x.rows) \in Nat /\ x.locked \in Nat /\ x.locked + 1 \in 1 .. Len(x.rows) /\ DOMAIN x.rows = 1 .. Len(x.rows)
  BY <1>2, LenProperties DEF TxOK
<1>4. \A i \in 1 .. Len(x.rows) : x.rows[i] \in LockableRow
  BY <1>2, ElementOfSeq DEF TxOK
<1>5. x.rows[x.locked + 1] \notin Holds(t)
  BY <1>2 DEF LocksInv
<1>6. Holds(t) = {x.rows[i] : i \in 1 .. x.locked}
  BY <1>1 DEF Holds
<1>7. (x.locked + 1) - 1 = x.locked
  BY <1>3
<1>8. \A i \in 1 .. x.locked : Below(x.family, x.rows[i], x.rows[x.locked + 1])
  BY <1>2, <1>3, <1>5, <1>6, <1>7 DEF TxOK, Ascends
<1>9. \A i \in 1 .. x.locked : i \in 1 .. Len(x.rows)
  BY <1>3
<1> QED BY <1>1, <1>3, <1>4, <1>6, <1>8, <1>9

\* the row a transaction locks next
Wanted(t) == tx[t].rows[tx[t].locked + 1]

\* Transactions that lock their rows in the same order never wait for one another in
\* a circle: for any rows, and any finite number of transactions at once (a pool of
\* connections), no set of them of one family is deadlocked.
THEOREM OrdersAreSafe == LocksSpec => []OneOrderNeverDeadlocks
<1>1. LocksInv => OneOrderNeverDeadlocks
  <2> SUFFICES ASSUME LocksInv, NEW D \in SUBSET TxSlots, \A t, u \in D : tx[t].family = tx[u].family, Deadlocked(D)
               PROVE  FALSE
    BY DEF OneOrderNeverDeadlocks
  <2>1. PICK d \in D : TRUE
    BY DEF Deadlocked
  <2> DEFINE f == tx[d].family
             Above(t) == {u \in D : Below(f, Wanted(t), Wanted(u))}
             Sets == {Above(t) : t \in D}
  <2>2. \A t \in D : tx[t].family = f
    OBVIOUS
  <2>3. \A t \in D : \E u \in D : Waits(t, u)
    BY DEF Deadlocked
  <2>4. \A t \in D : Wanted(t) \in LockableRow /\ \A r \in Holds(t) : Below(f, r, Wanted(t))
    <3> TAKE t \in D
    <3>1. PICK u \in D : Waits(t, u)
      BY <2>3
    <3> QED BY <3>1, <2>2, WantedIsAbove DEF Wanted
  <2> HIDE DEF f
  <2>5. ASSUME NEW t \in D, NEW u \in D, Waits(t, u)
        PROVE  Below(f, Wanted(t), Wanted(u))
    BY <2>4, <2>5 DEF Waits, Wanted
  <2>6. ASSUME NEW t \in D, NEW u \in D, Waits(t, u)
        PROVE  Above(u) \subseteq Above(t) /\ Above(u) # Above(t)
    <3>1. Below(f, Wanted(t), Wanted(u))
      BY <2>5, <2>6
    <3>2. \A v \in Above(u) : v \in Above(t)
      BY <3>1, <2>4, BelowTransitive
    <3>3. u \in Above(t)
      BY <3>1
    <3>4. u \notin Above(u)
      <4>1. ~Below(f, Wanted(u), Wanted(u))
        BY <2>4, BelowTransitive
      <4> QED BY <4>1
    <3> QED BY <3>2, <3>3, <3>4
  <2>7. IsFiniteSet(D)
    BY LocksAssumption, FS_Subset
  <2>8. IsWellFoundedOn(StrictSubsetOrdering(D), FiniteSubsetsOf(D)) /\ FiniteSubsetsOf(D) = SUBSET D
    BY <2>7, FS_StrictSubsetOrderingWellFounded, FS_FiniteSubsetsOfFinite
  <2>9. Sets \subseteq SUBSET D /\ Sets # {}
    BY <2>1
  <2>10. PICK S \in Sets : \A U \in Sets : <<U, S>> \notin StrictSubsetOrdering(D)
    <3> HIDE DEF Sets
    <3> QED BY <2>8, <2>9, WFMin
  <2>11. PICK t \in D : S = Above(t)
    OBVIOUS
  <2>12. PICK u \in D : Waits(t, u)
    BY <2>3
  <2>13. Above(u) \in Sets /\ Above(u) \subseteq S /\ Above(u) # S
    BY <2>6, <2>11, <2>12
  <2>14. <<Above(u), S>> \in StrictSubsetOrdering(D)
    <3>1. Above(u) \in SUBSET D /\ S \in SUBSET D
      BY <2>9, <2>13
    <3> HIDE DEF Above
    <3> QED BY <3>1, <2>13 DEF StrictSubsetOrdering
  <2> QED BY <2>10, <2>13, <2>14
<1> QED BY <1>1, LocksInvariant, PTL
=============================================================================
