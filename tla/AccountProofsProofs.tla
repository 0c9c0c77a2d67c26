------------------------- MODULE AccountProofsProofs -------------------------
(***************************************************************************)
(* What AccountProofs promises, for any accounts, addresses, tokens and    *)
(* request slots: at most one usable proof of a kind per account, and no   *)
(* usable proof in a mailbox the account has left.  When handlers run one  *)
(* at a time, a verified address has been proved, and so has every address *)
(* a password was reset through.                                           *)
(***************************************************************************)
EXTENDS AccountProofs, TLAPS

\* A stored proof names its account and the address it was mailed to.
StoredProofs ==
    \A p \in ProofIds :
        /\ proofs[p].state # "absent" =>
              /\ proofs[p].kind \in Kinds
              /\ proofs[p].user \in Users
              /\ proofs[p].email \in Emails
        /\ proofs[p].state = "absent" => proofs[p].user = None

\* An account has an address until it is deleted.
LiveAddresses == \A u \in Users : Exists(u) => accounts[u].email \in Emails

ProofInv ==
    ProofTypeOK /\ StoredProofs /\ LiveAddresses /\ OneUsableProof /\ PendingProofsAreCurrent

-----------------------------------------------------------------------------
(* What a transaction may do to the token tables *)

\* Row p keeps its contents, and does not become usable.
Ages(p) ==
    /\ proofs'[p].user = proofs[p].user
    /\ proofs'[p].kind = proofs[p].kind
    /\ proofs'[p].email = proofs[p].email
    /\ proofs'[p].state = "pending" => proofs[p].state = "pending"
    /\ proofs[p].state = "absent" <=> proofs'[p].state = "absent"

\* No row is added.
NoNewProof ==
    /\ proofs' \in [ProofIds -> Proof]
    /\ \A p \in ProofIds : Ages(p)

\* Row p is added, and is the only usable one of its account and kind.
NewProof(p, k, u) ==
    /\ proofs' \in [ProofIds -> Proof]
    /\ \A q \in ProofIds \ {p} :
          Ages(q) /\ ~(proofs'[q].state = "pending" /\ proofs'[q].user = u /\ proofs'[q].kind = k)
    /\ proofs'[p].state = "pending"
    /\ proofs'[p].kind = k
    /\ proofs'[p].user = u
    /\ proofs'[p].email = accounts[u].email

\* The update that revokes pending rows changes nothing but their state.
LEMMA RevokedRows ==
    ASSUME proofs \in [ProofIds -> Proof], NEW P
    PROVE  /\ RevokeProofs(P) \in [ProofIds -> Proof]
           /\ \A p \in ProofIds :
                 /\ RevokeProofs(P)[p].user = proofs[p].user
                 /\ RevokeProofs(P)[p].kind = proofs[p].kind
                 /\ RevokeProofs(P)[p].email = proofs[p].email
                 /\ RevokeProofs(P)[p].state =
                       IF p \in P /\ proofs[p].state = "pending" THEN "revoked"
                       ELSE proofs[p].state
<1> DEFINE Row(p) == IF p \in P /\ proofs[p].state = "pending"
                     THEN [proofs[p] EXCEPT !.state = "revoked"] ELSE proofs[p]
<1>1. ASSUME NEW p \in ProofIds
      PROVE  /\ Row(p) \in Proof
             /\ Row(p).user = proofs[p].user /\ Row(p).kind = proofs[p].kind
             /\ Row(p).email = proofs[p].email
             /\ Row(p).state = IF p \in P /\ proofs[p].state = "pending" THEN "revoked"
                               ELSE proofs[p].state
  BY DEF Proof
<1>2. RevokeProofs(P) = [p \in ProofIds |-> Row(p)]
  BY DEF RevokeProofs
<1> HIDE DEF Row
<1> QED BY <1>1, <1>2

\* Revoking pending rows adds none.
LEMMA RevocationAddsNone ==
    ASSUME proofs \in [ProofIds -> Proof], NEW P, proofs' = RevokeProofs(P)
    PROVE  NoNewProof
BY RevokedRows DEF NoNewProof, Ages

\* Issuing leaves one usable row of its account and kind.
LEMMA IssueAddsOne ==
    ASSUME ProofTypeOK, NEW k \in Kinds, NEW u \in Users, NEW p \in ProofIds,
           accounts[u].email \in Emails, ProofLife \in Nat, Issue(k, u, p)
    PROVE  NewProof(p, k, u)
<1> DEFINE new == [state |-> "pending", kind |-> k, user |-> u, email |-> accounts[u].email,
                   expires |-> now + ProofLife]
<1>1. new \in Proof
  BY DEF Proof, ProofTypeOK
<1>2. PICK old : old = RevokeProofs(Pending(u, k))
  OBVIOUS
<1>3. proofs' = [old EXCEPT ![p] = new]
  BY <1>2 DEF Issue
<1>4. /\ old \in [ProofIds -> Proof]
      /\ \A q \in ProofIds :
            /\ old[q].user = proofs[q].user /\ old[q].kind = proofs[q].kind
            /\ old[q].email = proofs[q].email
            /\ old[q].state = IF q \in Pending(u, k) /\ proofs[q].state = "pending"
                              THEN "revoked" ELSE proofs[q].state
  BY <1>2, RevokedRows DEF ProofTypeOK
<1>5. /\ new.state = "pending" /\ new.kind = k /\ new.user = u
      /\ new.email = accounts[u].email
  OBVIOUS
<1> HIDE DEF new
<1>6. proofs'[p] = new /\ proofs' \in [ProofIds -> Proof]
      /\ \A q \in ProofIds \ {p} : proofs'[q] = old[q]
  BY <1>1, <1>3, <1>4
<1>7. ASSUME NEW q \in ProofIds \ {p}
      PROVE  Ages(q) /\ ~(proofs'[q].state = "pending" /\ proofs'[q].user = u
                          /\ proofs'[q].kind = k)
  BY <1>4, <1>6 DEF Ages, Pending
<1> QED BY <1>5, <1>6, <1>7 DEF NewProof

-----------------------------------------------------------------------------
(* The actions *)

\* Initially no proof is stored.
LEMMA ProofInitInv == ProofInit => ProofInv
<1> SUFFICES ASSUME ProofInit PROVE ProofInv
  OBVIOUS
<1>1. /\ None \in Users \cup {None} /\ None \in Emails \cup {None}
      /\ NoProof \in Proof /\ NoProof.state = "absent" /\ NoProof.user = None
  BY DEF NoProof, Proof
<1>2. Idle \in Slot
  BY DEF Idle, Slot
<1>3. \A u \in Users : accounts[u] \in Account /\ accounts[u].email \in Emails
  BY DEF ProofInit, Account
<1>4. accounts \in [Users -> Account]
  BY <1>3 DEF ProofInit
<1>5. \A p \in ProofIds : proofs[p].state = "absent" /\ proofs[p].user = None
  BY <1>1 DEF ProofInit
<1>6. ProofTypeOK
  BY <1>1, <1>2, <1>4 DEF ProofInit, ProofTypeOK
<1> QED BY <1>3, <1>5, <1>6
        DEF ProofInv, StoredProofs, LiveAddresses, OneUsableProof, PendingProofsAreCurrent, Pending

\* A transaction that adds no proof keeps at most one usable, and keeps the
\* contents of what is stored.
LEMMA NoNewProofKeeps ==
    ASSUME StoredProofs, OneUsableProof, NoNewProof
    PROVE  StoredProofs' /\ OneUsableProof'
<1>1. StoredProofs'
  BY DEF StoredProofs, NoNewProof, Ages
<1>2. ASSUME NEW u \in Users, NEW k \in Kinds, NEW p \in Pending(u, k)', NEW q \in Pending(u, k)'
      PROVE  p = q
  <2>1. p \in Pending(u, k) /\ q \in Pending(u, k)
    BY <1>2 DEF Pending, NoNewProof, Ages
  <2> QED BY <2>1 DEF OneUsableProof
<1> QED BY <1>1, <1>2 DEF OneUsableProof

\* So does one that issues a proof.
LEMMA NewProofKeeps ==
    ASSUME StoredProofs, OneUsableProof, NEW k \in Kinds, NEW u \in Users, NEW p \in ProofIds,
           accounts[u].email \in Emails, NewProof(p, k, u)
    PROVE  StoredProofs' /\ OneUsableProof'
<1>1. ASSUME NEW q \in ProofIds
      PROVE  /\ proofs'[q].state # "absent" =>
                   /\ proofs'[q].kind \in Kinds
                   /\ proofs'[q].user \in Users
                   /\ proofs'[q].email \in Emails
             /\ proofs'[q].state = "absent" => proofs'[q].user = None
  <2>1. CASE q = p
    BY <2>1 DEF NewProof
  <2>2. CASE q # p
    BY <2>2 DEF NewProof, Ages, StoredProofs
  <2> QED BY <2>1, <2>2
<1>2. ASSUME NEW v \in Users, NEW j \in Kinds, NEW a \in Pending(v, j)', NEW b \in Pending(v, j)'
      PROVE  a = b
  <2>1. CASE a = p \/ b = p
    BY <1>2, <2>1 DEF NewProof, Pending
  <2>2. CASE a # p /\ b # p
    <3>1. a \in Pending(v, j) /\ b \in Pending(v, j)
      BY <1>2, <2>2 DEF Pending, NewProof, Ages
    <3> QED BY <3>1 DEF OneUsableProof
  <2> QED BY <2>1, <2>2
<1> QED BY <1>1, <1>2 DEF OneUsableProof, StoredProofs

\* An account changes so that what its proofs rest on stays.
AccountsStay ==
    \A u \in Users :
        /\ Exists(u)' <=> Exists(u)
        /\ accounts'[u].email = accounts[u].email
        /\ accounts[u].verified => accounts'[u].verified

\* No proof goes stale while the accounts keep what the proofs rest on.
LEMMA CurrentStays ==
    ASSUME StoredProofs, PendingProofsAreCurrent, LiveAddresses, NoNewProof, AccountsStay
    PROVE  PendingProofsAreCurrent' /\ LiveAddresses'
<1>1. LiveAddresses'
  BY DEF LiveAddresses, AccountsStay, Exists
<1>2. ASSUME NEW p \in ProofIds, proofs'[p].state = "pending"
      PROVE  /\ Exists(proofs[p].user)'
             /\ proofs'[p].email = accounts'[proofs'[p].user].email
             /\ proofs'[p].kind = "reset" => accounts'[proofs'[p].user].verified
  <2>1. proofs[p].state = "pending" /\ proofs[p].user \in Users /\ proofs'[p].user = proofs[p].user
    BY <1>2 DEF NoNewProof, Ages, StoredProofs
  <2> QED BY <1>2, <2>1 DEF NoNewProof, Ages, AccountsStay, PendingProofsAreCurrent, Exists
<1> QED BY <1>1, <1>2 DEF PendingProofsAreCurrent, Exists

\* Issuing either kind keeps the invariant: a reset is issued to a verified
\* address only.
LEMMA IssueKeeps ==
    ASSUME ProofInv, ProofLife \in Nat, NEW k \in Kinds, NEW u \in Users, NEW p \in ProofIds,
           Exists(u), k = "reset" => accounts[u].verified, Issue(k, u, p), accounts' = accounts
    PROVE  /\ proofs' \in [ProofIds -> Proof]
           /\ StoredProofs' /\ LiveAddresses' /\ OneUsableProof' /\ PendingProofsAreCurrent'
<1>1. accounts[u].email \in Emails
  BY DEF ProofInv, LiveAddresses
<1>2. NewProof(p, k, u)
  BY <1>1, IssueAddsOne DEF ProofInv
<1>3. StoredProofs' /\ OneUsableProof'
  BY <1>1, <1>2, NewProofKeeps DEF ProofInv
<1>4. ASSUME NEW q \in ProofIds, proofs'[q].state = "pending"
      PROVE  /\ accounts'[proofs'[q].user].state # "deleted"
             /\ proofs'[q].email = accounts'[proofs'[q].user].email
             /\ proofs'[q].kind = "reset" => accounts'[proofs'[q].user].verified
  <2>1. CASE q = p
    BY <1>2, <2>1 DEF NewProof, Exists
  <2>2. CASE q # p
    BY <1>2, <1>4, <2>2 DEF NewProof, Ages, ProofInv, PendingProofsAreCurrent, Exists
  <2> QED BY <2>1, <2>2
<1>5. LiveAddresses'
  BY DEF ProofInv, LiveAddresses, Exists
<1> QED BY <1>2, <1>3, <1>4, <1>5 DEF NewProof, PendingProofsAreCurrent, Exists

\* A transaction that adds no proof and keeps the accounts keeps the invariant.
LEMMA QuietKeeps ==
    ASSUME ProofInv, NoNewProof, AccountsStay
    PROVE  StoredProofs' /\ LiveAddresses' /\ OneUsableProof' /\ PendingProofsAreCurrent'
BY NoNewProofKeeps, CurrentStays DEF ProofInv

\* Tables that do not change are a special case.
LEMMA Unchanged ==
    ASSUME ProofTypeOK
    PROVE  /\ proofs' = proofs => NoNewProof
           /\ accounts' = accounts => AccountsStay
BY DEF ProofTypeOK, NoNewProof, Ages, AccountsStay, Exists

\* mark_user_email_verified, and a consumed verification, only set the flag.
LEMMA FlagStep ==
    ASSUME ProofTypeOK, NEW u, accounts' = [accounts EXCEPT ![u].verified = TRUE]
    PROVE  accounts' \in [Users -> Account] /\ AccountsStay
<1>1. ASSUME NEW v \in Users
      PROVE  /\ accounts'[v] \in Account
             /\ accounts'[v].state = accounts[v].state /\ accounts'[v].email = accounts[v].email
             /\ accounts[v].verified => accounts'[v].verified
  BY DEF ProofTypeOK, Account
<1> QED BY <1>1 DEF ProofTypeOK, AccountsStay, Exists

\* Setting a password keeps the rest of the row.
LEMMA PasswordStep ==
    ASSUME ProofTypeOK, NEW u \in Users, accounts' = [accounts EXCEPT ![u].hasPassword = TRUE]
    PROVE  accounts' \in [Users -> Account] /\ AccountsStay
<1>1. ASSUME NEW v \in Users
      PROVE  /\ accounts'[v] \in Account
             /\ accounts'[v].state = "deleted" <=> accounts[v].state = "deleted"
             /\ accounts'[v].email = accounts[v].email
             /\ accounts'[v].verified = accounts[v].verified
  BY DEF ProofTypeOK, Account, Exists
<1> QED BY <1>1 DEF ProofTypeOK, AccountsStay, Exists

\* So does setting the active flag of an account that exists.
LEMMA ActiveStep ==
    ASSUME ProofTypeOK, NEW u \in Users, Exists(u), NEW s \in {"active", "disabled"},
           accounts' = [accounts EXCEPT ![u].state = s]
    PROVE  accounts' \in [Users -> Account] /\ AccountsStay
<1>1. ASSUME NEW v \in Users
      PROVE  /\ accounts'[v] \in Account
             /\ accounts'[v].state = "deleted" <=> accounts[v].state = "deleted"
             /\ accounts'[v].email = accounts[v].email
             /\ accounts'[v].verified = accounts[v].verified
  BY DEF ProofTypeOK, Account, Exists
<1> QED BY <1>1 DEF ProofTypeOK, AccountsStay, Exists

\* An account and its mail: a new address, or none after a deletion, leaves no
\* pending proof of the account behind.
LEMMA LeavingKeeps ==
    ASSUME ProofInv, NoNewProof, NEW u \in Users, accounts' \in [Users -> Account],
           \A v \in Users \ {u} : accounts'[v] = accounts[v],
           accounts'[u].state # "deleted" => accounts'[u].email \in Emails,
           \A p \in ProofIds : proofs[p].user = u => proofs'[p].state # "pending"
    PROVE  StoredProofs' /\ LiveAddresses' /\ OneUsableProof' /\ PendingProofsAreCurrent'
<1>1. StoredProofs' /\ OneUsableProof'
  BY NoNewProofKeeps DEF ProofInv
<1>2. LiveAddresses'
  BY DEF ProofInv, LiveAddresses, Exists
<1>3. ASSUME NEW p \in ProofIds, proofs'[p].state = "pending"
      PROVE  /\ accounts'[proofs'[p].user].state # "deleted"
             /\ proofs'[p].email = accounts'[proofs'[p].user].email
             /\ proofs'[p].kind = "reset" => accounts'[proofs'[p].user].verified
  <2>1. /\ proofs[p].state = "pending" /\ proofs[p].user \in Users \ {u}
        /\ proofs'[p].user = proofs[p].user
    BY <1>3 DEF NoNewProof, Ages, ProofInv, StoredProofs
  <2> QED BY <1>3, <2>1 DEF NoNewProof, Ages, ProofInv, PendingProofsAreCurrent, Exists
<1> QED BY <1>1, <1>2, <1>3 DEF PendingProofsAreCurrent, Exists

\* update_user with a new address: both kinds of proof are revoked.
LEMMA ChangeEmailKeeps ==
    ASSUME ProofInv, NEW r \in Requests, NEW u \in Users, NEW e \in Emails, ChangeEmail(r, u, e)
    PROVE  ProofInv'
<1>1. ASSUME NEW v \in Users
      PROVE  /\ accounts'[v] \in Account
             /\ v # u => accounts'[v] = accounts[v]
             /\ v = u => accounts'[v].email = e
  BY DEF ChangeEmail, ProofInv, ProofTypeOK, Account
<1>2. accounts' \in [Users -> Account]
  BY <1>1 DEF ChangeEmail, ProofInv, ProofTypeOK
<1>3. NoNewProof
  BY RevocationAddsNone DEF ChangeEmail, ProofInv, ProofTypeOK
<1>4. ASSUME NEW p \in ProofIds, proofs[p].user = u PROVE proofs'[p].state # "pending"
  BY <1>4, RevokedRows DEF ChangeEmail, ProofInv, ProofTypeOK, StoredProofs, Pending, Kinds
<1>5. StoredProofs' /\ LiveAddresses' /\ OneUsableProof' /\ PendingProofsAreCurrent'
  BY <1>1, <1>2, <1>3, <1>4, LeavingKeeps
<1> QED BY <1>2, <1>3, <1>5 DEF ProofInv, ProofTypeOK, ChangeEmail, history, NoNewProof

\* delete_user: the account's tokens go with it.
LEMMA DeleteAccountKeeps ==
    ASSUME ProofInv, NEW r \in Requests, NEW u \in Users, DeleteAccount(r, u)
    PROVE  ProofInv'
<1>1. ASSUME NEW v \in Users
      PROVE  /\ accounts'[v] \in Account
             /\ v # u => accounts'[v] = accounts[v]
             /\ v = u => accounts'[v].state = "deleted"
  BY DEF DeleteAccount, ProofInv, ProofTypeOK, Account
<1>2. accounts' \in [Users -> Account]
  BY <1>1 DEF DeleteAccount, ProofInv, ProofTypeOK
<1>3. ASSUME NEW p \in ProofIds
      PROVE  /\ proofs'[p] \in Proof /\ proofs'[p].user = proofs[p].user
             /\ proofs'[p].kind = proofs[p].kind /\ proofs'[p].email = proofs[p].email
             /\ proofs'[p].state = IF proofs[p].user = u THEN "deleted" ELSE proofs[p].state
  BY DEF DeleteAccount, ProofInv, ProofTypeOK, Proof
<1>4. proofs' \in [ProofIds -> Proof]
  BY <1>3 DEF DeleteAccount
<1>5. ASSUME NEW p \in ProofIds PROVE Ages(p)
  <2>1. proofs[p].user = u => proofs[p].state # "absent"
    BY ProofAssumption DEF ProofInv, StoredProofs
  <2> QED BY <1>3, <2>1 DEF Ages
<1>6. StoredProofs' /\ LiveAddresses' /\ OneUsableProof' /\ PendingProofsAreCurrent'
  BY <1>1, <1>2, <1>3, <1>4, <1>5, LeavingKeeps DEF NoNewProof
<1> QED BY <1>2, <1>4, <1>6 DEF ProofInv, ProofTypeOK, DeleteAccount, history

\* The handlers that issue a proof keep the invariant.
LEMMA RequestKeeps ==
    ASSUME ProofInv, NEW r \in Requests, RequestReset(r) \/ RequestVerification(r)
    PROVE  ProofInv'
<1>1. PICK k \in Kinds, u \in Users, p \in ProofIds :
         /\ Exists(u) /\ (k = "reset" => accounts[u].verified)
         /\ Issue(k, u, p)
         /\ req' = [req EXCEPT ![r] = [pc |-> "deliver", proof |-> p, user |-> u]]
  <2>1. CASE RequestReset(r)
    <3>1. PICK id \in Emails \cup {NameOf[v] : v \in Users}, p \in ProofIds :
          \E u \in EligibleUsers(id) :
             /\ Issue("reset", u, p)
             /\ req' = [req EXCEPT ![r] = [pc |-> "deliver", proof |-> p, user |-> u]]
      BY <2>1 DEF RequestReset
    <3>2. \A u \in EligibleUsers(id) : u \in Users /\ Eligible(u)
      BY DEF EligibleUsers
    <3> QED BY <3>1, <3>2 DEF Kinds, Eligible, Active, Exists
  <2>2. CASE RequestVerification(r)
    BY <2>2 DEF RequestVerification, Unverified, Kinds, Active, Exists
  <2> QED BY <2>1, <2>2
<1>2. accounts' = accounts
  BY DEF RequestReset, RequestVerification
<1>3. ProofLife \in Nat
  BY ProofAssumption
<1>4. /\ proofs' \in [ProofIds -> Proof]
      /\ StoredProofs' /\ LiveAddresses' /\ OneUsableProof' /\ PendingProofsAreCurrent'
  BY <1>1, <1>2, <1>3, IssueKeeps
<1>5. [pc |-> "deliver", proof |-> p, user |-> u] \in Slot
  BY DEF Slot, Idle
<1>6. ProofTypeOK'
  BY <1>1, <1>2, <1>4, <1>5 DEF ProofInv, ProofTypeOK, RequestReset, RequestVerification, history
<1> QED BY <1>4, <1>6 DEF ProofInv

\* So do the transactions that consume or revoke one.
LEMMA ConsumeKeeps ==
    ASSUME ProofInv, NEW r \in Requests, NEW p \in ProofIds,
           ConfirmReset(r, p) \/ ConfirmVerification(r, p) \/ RejectProof(r, p)
    PROVE  ProofInv'
<1>1. CASE ConfirmReset(r, p)
  <2>1. PICK old : old = RevokeProofs(Pending(proofs[p].user, "reset"))
    OBVIOUS
  <2>2. PICK spent : spent = [proofs[p] EXCEPT !.state = "consumed"]
    OBVIOUS
  <2>3. /\ spent \in Proof /\ spent.user = proofs[p].user /\ spent.kind = proofs[p].kind
        /\ spent.email = proofs[p].email /\ spent.state = "consumed"
    BY <2>2 DEF ProofInv, ProofTypeOK, Proof
  <2>4. proofs' = [old EXCEPT ![p] = spent]
    BY <1>1, <2>1, <2>2, Zenon DEF ConfirmReset, ConsumeReset
  <2>5. /\ old \in [ProofIds -> Proof]
        /\ \A q \in ProofIds :
              /\ old[q].user = proofs[q].user /\ old[q].kind = proofs[q].kind
              /\ old[q].email = proofs[q].email
              /\ old[q].state = IF q \in Pending(proofs[p].user, "reset") /\ proofs[q].state = "pending"
                                THEN "revoked" ELSE proofs[q].state
    BY <2>1, RevokedRows DEF ProofInv, ProofTypeOK
  <2>6. proofs[p].state = "pending"
    BY <1>1 DEF ConfirmReset, ResetValid, Fresh
  <2>7. NoNewProof
    BY <2>3, <2>4, <2>5, <2>6 DEF NoNewProof, Ages
  <2>8. accounts' = accounts
    BY <1>1 DEF ConfirmReset
  <2>9. AccountsStay
    BY <2>8, Unchanged DEF ProofInv
  <2>10. ProofTypeOK'
    BY <1>1, <2>7 DEF ProofInv, ProofTypeOK, ConfirmReset, ConsumeReset, NoNewProof
  <2> QED BY <2>7, <2>9, <2>10, QuietKeeps DEF ProofInv
<1>2. CASE ConfirmVerification(r, p)
  <2>1. proofs[p].state = "pending"
    BY <1>2 DEF ConfirmVerification, VerifyValid, Fresh
  <2>2. /\ accounts' = [accounts EXCEPT ![proofs[p].user].verified = TRUE]
        /\ proofs' = [proofs EXCEPT ![p].state = "consumed"]
        /\ proven' = proven \cup {<<proofs[p].user, proofs[p].email>>}
        /\ UNCHANGED <<now, inbox, req, resetBy, dropped>>
    BY <1>2, Zenon DEF ConfirmVerification, ConsumeVerification
  <2>3. ASSUME NEW q \in ProofIds
        PROVE  /\ proofs'[q] \in Proof /\ proofs'[q].user = proofs[q].user
               /\ proofs'[q].kind = proofs[q].kind /\ proofs'[q].email = proofs[q].email
               /\ proofs'[q].state = IF q = p THEN "consumed" ELSE proofs[q].state
    <3>1. proofs' = [proofs EXCEPT ![p].state = "consumed"] /\ proofs \in [ProofIds -> Proof]
      BY <2>2 DEF ProofInv, ProofTypeOK
    <3> QED BY <3>1 DEF Proof
  <2>4. proofs' \in [ProofIds -> Proof]
    BY <2>2, <2>3 DEF ProofInv, ProofTypeOK
  <2>5. NoNewProof
    BY <2>1, <2>3, <2>4 DEF NoNewProof, Ages
  <2>6. accounts' \in [Users -> Account] /\ AccountsStay
    BY <2>2, FlagStep DEF ProofInv
  <2>7. proofs[p].user \in Users /\ proofs[p].email \in Emails
    BY <2>1 DEF ProofInv, StoredProofs
  <2>8. ProofTypeOK'
    BY <2>2, <2>4, <2>6, <2>7 DEF ProofInv, ProofTypeOK
  <2> QED BY <2>5, <2>6, <2>8, QuietKeeps DEF ProofInv
<1>3. CASE RejectProof(r, p)
  <2>1. NoNewProof
    BY <1>3, RevocationAddsNone DEF RejectProof, ProofInv, ProofTypeOK
  <2>2. AccountsStay
    BY <1>3, Unchanged DEF RejectProof, ProofInv
  <2>3. ProofTypeOK'
    BY <1>3, <2>1 DEF ProofInv, ProofTypeOK, RejectProof, history, NoNewProof
  <2> QED BY <2>1, <2>2, <2>3, QuietKeeps DEF ProofInv
<1> QED BY <1>1, <1>2, <1>3

\* Account changes that leave the address alone keep the invariant.
LEMMA AccountKeeps ==
    ASSUME ProofInv, NEW r \in Requests, NEW u \in Users,
           \/ SetPassword(r, u) \/ AdminVerify(r, u)
           \/ \E a \in BOOLEAN : SetActive(r, u, a)
    PROVE  ProofInv'
<1>1. CASE SetPassword(r, u)
  <2>1. /\ accounts' = [accounts EXCEPT ![u].hasPassword = TRUE]
        /\ UNCHANGED <<now, proofs, inbox, req, history>>
    BY <1>1, Zenon DEF SetPassword
  <2>2. accounts' \in [Users -> Account] /\ AccountsStay
    BY <2>1, PasswordStep DEF ProofInv
  <2>3. NoNewProof
    BY <2>1, Unchanged DEF ProofInv
  <2>4. ProofTypeOK'
    BY <2>1, <2>2 DEF ProofInv, ProofTypeOK, history
  <2> QED BY <2>2, <2>3, <2>4, QuietKeeps DEF ProofInv
<1>2. CASE AdminVerify(r, u)
  <2>1. /\ Exists(u)
        /\ accounts' = [accounts EXCEPT ![u].verified = TRUE]
        /\ proven' = proven \cup {<<u, accounts[u].email>>}
        /\ UNCHANGED <<now, proofs, inbox, req, resetBy, dropped>>
    BY <1>2, Zenon DEF AdminVerify
  <2>2. accounts' \in [Users -> Account] /\ AccountsStay
    BY <2>1, FlagStep DEF ProofInv
  <2>3. NoNewProof
    BY <2>1, Unchanged DEF ProofInv
  <2>4. ProofTypeOK'
    BY <2>1, <2>2 DEF ProofInv, ProofTypeOK, LiveAddresses
  <2> QED BY <2>2, <2>3, <2>4, QuietKeeps DEF ProofInv
<1>3. ASSUME NEW a \in BOOLEAN, SetActive(r, u, a) PROVE ProofInv'
  <2>1. PICK s \in {"active", "disabled"} :
           /\ accounts' = [accounts EXCEPT ![u].state = s]
           /\ Exists(u) /\ UNCHANGED <<now, proofs, inbox, req, history>>
    BY <1>3 DEF SetActive
  <2>2. accounts' \in [Users -> Account] /\ AccountsStay
    BY <2>1, ActiveStep DEF ProofInv
  <2>3. NoNewProof
    BY <2>1, Unchanged DEF ProofInv
  <2>4. ProofTypeOK'
    BY <2>1, <2>2 DEF ProofInv, ProofTypeOK, history
  <2> QED BY <2>2, <2>3, <2>4, QuietKeeps DEF ProofInv
<1> QED BY <1>1, <1>2, <1>3

\* A slot moves between its program counters.
LEMMA IdleSlot == Idle \in Slot
BY DEF Idle, Slot

\* The later steps of a handler, and a client that goes away, keep the invariant.
LEMMA RunningKeeps ==
    ASSUME ProofInv, NEW r \in Requests, Running(r) \/ Cancel(r)
    PROVE  ProofInv'
<1>1. CASE Deliver(r)
  <2>1. PICK arrives \in BOOLEAN, ok \in BOOLEAN :
           /\ inbox' = IF arrives
                       THEN [inbox EXCEPT ![proofs[req[r].proof].email] = @ \cup {req[r].proof}]
                       ELSE inbox
           /\ req' = [req EXCEPT ![r] = IF ok THEN Idle ELSE [req[r] EXCEPT !.pc = "revoke"]]
    BY <1>1, Zenon DEF Deliver
  <2>2. PICK failed : failed = [req[r] EXCEPT !.pc = "revoke"]
    OBVIOUS
  <2>3. failed \in Slot /\ req[r].proof \in ProofIds
    <3>1. req[r] \in Slot /\ req[r].pc = "deliver"
      BY <1>1 DEF Deliver, ProofInv, ProofTypeOK
    <3>2. req[r] \in [pc : {"deliver", "revoke"}, proof : ProofIds, user : Users]
      BY <3>1 DEF Slot, Idle
    <3>3. failed \in [pc : {"deliver", "revoke"}, proof : ProofIds, user : Users]
      BY <2>2, <3>2
    <3> QED BY <3>2, <3>3 DEF Slot
  <2>4. UNCHANGED <<now, accounts, proofs, proven, resetBy, dropped>>
    BY <1>1, Zenon DEF Deliver, history
  <2>5. req' = [req EXCEPT ![r] = IF ok THEN Idle ELSE failed]
    BY <2>1, <2>2, Zenon
  <2>6. req' \in [Requests -> Slot]
    BY <2>3, <2>5, IdleSlot DEF ProofInv, ProofTypeOK
  <2>7. inbox' \in [Emails -> SUBSET ProofIds]
    BY <2>1, <2>3 DEF ProofInv, ProofTypeOK
  <2>8. ProofTypeOK'
    BY <2>4, <2>6, <2>7 DEF ProofInv, ProofTypeOK
  <2>9. NoNewProof /\ AccountsStay
    BY <2>4, Unchanged DEF ProofInv
  <2> QED BY <2>8, <2>9, QuietKeeps DEF ProofInv
<1>2. CASE RevokeUndelivered(r)
  <2>1. NoNewProof
    BY <1>2, RevocationAddsNone DEF RevokeUndelivered, ProofInv, ProofTypeOK
  <2>2. AccountsStay
    BY <1>2, Unchanged DEF RevokeUndelivered, ProofInv
  <2>3. ProofTypeOK'
    BY <1>2, <2>1, IdleSlot DEF RevokeUndelivered, ProofInv, ProofTypeOK, Return, history, NoNewProof
  <2> QED BY <2>1, <2>2, <2>3, QuietKeeps DEF ProofInv
<1>3. CASE MarkVerified(r)
  <2>1. /\ \/ accounts' = accounts
           \/ accounts' = [accounts EXCEPT ![req[r].user].verified = TRUE]
        /\ req' = [req EXCEPT ![r] = Idle]
        /\ UNCHANGED <<now, proofs, inbox, proven, resetBy, dropped>>
    BY <1>3, Zenon DEF MarkVerified, Return, history
  <2>2. accounts' \in [Users -> Account] /\ AccountsStay
    <3>1. CASE accounts' = accounts
      BY <3>1, Unchanged DEF ProofInv, ProofTypeOK
    <3>2. CASE accounts' = [accounts EXCEPT ![req[r].user].verified = TRUE]
      BY <3>2, FlagStep DEF ProofInv
    <3> QED BY <2>1, <3>1, <3>2, Zenon
  <2>3. NoNewProof
    BY <2>1, Unchanged DEF ProofInv
  <2>4. req' = [req EXCEPT ![r] = Idle] /\ UNCHANGED <<now, proofs, inbox, proven, resetBy, dropped>>
    BY <2>1, Zenon
  <2>5. ProofTypeOK'
    BY <2>2, <2>4, IdleSlot DEF ProofInv, ProofTypeOK
  <2> QED BY <2>2, <2>3, <2>5, QuietKeeps DEF ProofInv
<1>4. CASE Cancel(r)
  <2>1. NoNewProof /\ AccountsStay
    BY <1>4, Unchanged DEF Cancel, ProofInv
  <2>2. ProofTypeOK'
    BY <1>4, IdleSlot DEF Cancel, ProofInv, ProofTypeOK, Return
  <2> QED BY <2>1, <2>2, QuietKeeps DEF ProofInv
<1> QED BY <1>1, <1>2, <1>3, <1>4 DEF Running

\* Matching an upstream profile only starts a handler.
LEMMA MatchKeeps ==
    ASSUME ProofInv, NEW r \in Requests, NEW u \in Users, MatchUpstream(r, u)
    PROVE  ProofInv'
<1>1. [pc |-> "mark", proof |-> None, user |-> u] \in Slot
  BY DEF Slot
<1>2. accounts[u].email \in Emails
  BY DEF MatchUpstream, Active, Exists, ProofInv, LiveAddresses
<1>3. NoNewProof /\ AccountsStay
  BY Unchanged DEF MatchUpstream, ProofInv
<1>4. ProofTypeOK'
  BY <1>1, <1>2 DEF MatchUpstream, ProofInv, ProofTypeOK
<1> QED BY <1>3, <1>4, QuietKeeps DEF ProofInv

\* Every step keeps the invariant.
LEMMA ProofNextInv == ProofInv /\ [ProofNext]_proofVars => ProofInv'
<1> SUFFICES ASSUME ProofInv, [ProofNext]_proofVars PROVE ProofInv'
  OBVIOUS
<1>1. CASE UNCHANGED proofVars \/ Tick
  <2>1. NoNewProof /\ AccountsStay
    BY <1>1, Unchanged DEF Tick, proofVars, ProofInv
  <2>2. ProofTypeOK'
    BY <1>1 DEF Tick, proofVars, history, ProofInv, ProofTypeOK
  <2> QED BY <2>1, <2>2, QuietKeeps DEF ProofInv
<1>2. ASSUME NEW r \in Requests, Starting(r) PROVE ProofInv'
  BY <1>2, RequestKeeps, ConsumeKeeps, AccountKeeps, ChangeEmailKeeps, DeleteAccountKeeps,
     MatchKeeps, Zenon DEF Starting
<1>3. ASSUME NEW r \in Requests, Running(r) \/ Cancel(r) PROVE ProofInv'
  BY <1>3, RunningKeeps
<1> QED BY <1>1, <1>2, <1>3, Zenon DEF ProofNext

-----------------------------------------------------------------------------
(* Results for concurrent handlers *)

\* issue_password_reset_token, issue_email_verification_token: whatever the
\* interleaving, an account has at most one usable proof of each kind.
THEOREM ProofsAreUnique == ProofSpec => []OneUsableProof
<1>1. ProofInv => OneUsableProof
  BY DEF ProofInv
<1> QED BY <1>1, ProofInitInv, ProofNextInv, PTL DEF ProofSpec

\* update_user, delete_user: no pending proof outlives the address it was mailed
\* to, and a pending reset belongs to a verified address.
THEOREM ProofsAreCurrent == ProofSpec => []PendingProofsAreCurrent
<1>1. ProofInv => PendingProofsAreCurrent
  BY DEF ProofInv
<1> QED BY <1>1, ProofInitInv, ProofNextInv, PTL DEF ProofSpec


-----------------------------------------------------------------------------
(* One request at a time *)

\* one slot: the handlers run one after the other
OneAtATime == \E r : Requests = {r}

\* The address an upstream profile was matched with is still the account's.
MarkIsCurrent(row) == row.pc = "mark" => <<row.user, accounts[row.user].email>> \in proven

\* The proof that last replaced a password is stored, and its address was proved.
ResetsAreProved ==
    \A u \in Users : resetBy[u] # None =>
        proofs[resetBy[u]].state # "absent" /\ <<u, proofs[resetBy[u]].email>> \in proven

ProvedInv ==
    /\ ProofInv /\ VerifiedAddressWasProved /\ ResetsAreProved
    /\ \A r \in Requests : MarkIsCurrent(req[r])

\* No address becomes verified, and no verified address changes.
KeepsFlags ==
    \A u \in Users : accounts'[u].verified => accounts[u].verified /\ accounts'[u].email = accounts[u].email

\* Stored rows keep their address.
KeepsRows ==
    \A p \in ProofIds : proofs[p].state # "absent" =>
        proofs'[p].state # "absent" /\ proofs'[p].email = proofs[p].email

\* Transactions that only revoke keep the rows they find.
LEMMA RevocationKeepsRows ==
    ASSUME ProofInv, NEW P, proofs' = RevokeProofs(P) \/ proofs' = proofs
    PROVE  KeepsRows
BY RevokedRows DEF KeepsRows, ProofInv, ProofTypeOK

\* Issuing takes a row that is not stored yet.
LEMMA RequestKeepsRows ==
    ASSUME ProofInv, NEW r \in Requests, RequestReset(r) \/ RequestVerification(r)
    PROVE  KeepsRows
<1>1. ASSUME NEW k, NEW u, NEW p \in ProofIds, proofs[p].state = "absent", Issue(k, u, p)
      PROVE  KeepsRows
  <2>1. PICK old : old = RevokeProofs(Pending(u, k))
    OBVIOUS
  <2>2. old \in [ProofIds -> Proof] /\ \A q \in ProofIds \ {p} : proofs'[q] = old[q]
    BY <1>1, <2>1, RevokedRows DEF Issue, ProofInv, ProofTypeOK
  <2>3. \A q \in ProofIds : old[q].email = proofs[q].email /\ (old[q].state = "revoked" \/ old[q].state = proofs[q].state)
    BY <2>1, RevokedRows DEF ProofInv, ProofTypeOK
  <2> QED BY <1>1, <2>2, <2>3 DEF KeepsRows
<1> QED BY <1>1, Zenon DEF RequestReset, RequestVerification

\* A consumed proof stays stored, as do its siblings.
LEMMA ConfirmKeepsRows ==
    ASSUME ProofInv, NEW r \in Requests, NEW p \in ProofIds, ConfirmReset(r, p) \/ ConfirmVerification(r, p)
    PROVE  KeepsRows
<1>1. PICK spent : spent = [proofs[p] EXCEPT !.state = "consumed"]
  OBVIOUS
<1>2. spent.email = proofs[p].email /\ spent.state = "consumed" /\ proofs \in [ProofIds -> Proof]
  BY <1>1 DEF ProofInv, ProofTypeOK, Proof
<1>3. CASE ConfirmReset(r, p)
  <2>1. PICK old : old = RevokeProofs(Pending(proofs[p].user, "reset"))
    OBVIOUS
  <2>2. proofs' = [old EXCEPT ![p] = spent]
    BY <1>1, <1>3, <2>1, Zenon DEF ConfirmReset, ConsumeReset
  <2>3. /\ old \in [ProofIds -> Proof]
        /\ \A q \in ProofIds : old[q].email = proofs[q].email /\ (old[q].state = "revoked" \/ old[q].state = proofs[q].state)
    BY <1>2, <2>1, RevokedRows
  <2> QED BY <1>2, <2>2, <2>3 DEF KeepsRows
<1>4. CASE ConfirmVerification(r, p)
  <2>1. proofs' = [proofs EXCEPT ![p] = spent]
    BY <1>1, <1>2, <1>4 DEF ConfirmVerification, ConsumeVerification
  <2> QED BY <1>2, <2>1 DEF KeepsRows
<1> QED BY <1>3, <1>4

\* What stays, when the flags and rows stay and no password is reset.
LEMMA ProvedStays ==
    ASSUME ProvedInv, ProofInv', KeepsFlags, KeepsRows, proven \subseteq proven', resetBy' = resetBy
    PROVE  VerifiedAddressWasProved' /\ ResetsAreProved'
<1>1. VerifiedAddressWasProved'
  BY DEF ProvedInv, VerifiedAddressWasProved, KeepsFlags
<1>2. ResetsAreProved'
  BY DEF ProvedInv, ResetsAreProved, KeepsRows, ProofInv, ProofTypeOK
<1> QED BY <1>1, <1>2

\* Neither an address nor its flag is written.
LEMMA SameFlags ==
    ASSUME accounts' = accounts
    PROVE  KeepsFlags
BY DEF KeepsFlags

\* mark_user_email_verified sets one flag.
LEMMA FlagWritten ==
    ASSUME ProvedInv, proven \subseteq proven', NEW u \in Users, <<u, accounts[u].email>> \in proven',
           accounts' = [accounts EXCEPT ![u].verified = TRUE]
    PROVE  VerifiedAddressWasProved'
<1>1. \A v \in Users : accounts'[v].email = accounts[v].email /\ (v # u => accounts'[v] = accounts[v])
  BY DEF ProvedInv, ProofInv, ProofTypeOK, Account
<1> QED BY <1>1 DEF ProvedInv, VerifiedAddressWasProved

-----------------------------------------------------------------------------
(* The actions of the serial server *)

\* A request for a mail.
LEMMA RequestsProve ==
    ASSUME ProvedInv, ProofInv', NEW r \in Requests, RequestReset(r) \/ RequestVerification(r)
    PROVE  VerifiedAddressWasProved' /\ ResetsAreProved' /\ MarkIsCurrent(req[r])'
<1>1. accounts' = accounts /\ proven' = proven /\ resetBy' = resetBy
  BY DEF RequestReset, RequestVerification, history
<1>2. KeepsRows
  BY RequestKeepsRows DEF ProvedInv
<1>3. req'[r].pc = "deliver"
  BY DEF RequestReset, RequestVerification, ProvedInv, ProofInv, ProofTypeOK
<1> QED BY <1>1, <1>2, <1>3, SameFlags, ProvedStays DEF MarkIsCurrent

\* A verified address that was proved is the address the reset was mailed to.
LEMMA ConfirmResetProves ==
    ASSUME ProvedInv, ProofInv', NEW r \in Requests, NEW p \in ProofIds, ConfirmReset(r, p)
    PROVE  VerifiedAddressWasProved' /\ ResetsAreProved' /\ MarkIsCurrent(req[r])'
<1>1. /\ accounts' = accounts /\ proven' = proven /\ req' = req /\ req[r].pc = "idle"
      /\ resetBy' = [resetBy EXCEPT ![proofs[p].user] = p]
  BY DEF ConfirmReset, ConsumeReset, Idles
<1>2. KeepsRows
  BY ConfirmKeepsRows DEF ProvedInv
<1>3. proofs[p].state = "pending" /\ proofs[p].user \in Users
  BY DEF ConfirmReset, ResetValid, Fresh, ProvedInv, ProofInv, StoredProofs
<1>4. accounts[proofs[p].user].verified /\ accounts[proofs[p].user].email = proofs[p].email
  BY DEF ConfirmReset, ResetValid, Eligible
<1>5. <<proofs[p].user, proofs[p].email>> \in proven
  BY <1>3, <1>4 DEF ProvedInv, VerifiedAddressWasProved
<1>6. ResetsAreProved'
  BY <1>1, <1>2, <1>3, <1>5 DEF ProvedInv, ResetsAreProved, KeepsRows, ProofInv, ProofTypeOK
<1>7. VerifiedAddressWasProved'
  BY <1>1 DEF ProvedInv, VerifiedAddressWasProved
<1> QED BY <1>1, <1>6, <1>7 DEF MarkIsCurrent

\* A verification is mailed to the address it proves.
LEMMA ConfirmVerificationProves ==
    ASSUME ProvedInv, ProofInv', NEW r \in Requests, NEW p \in ProofIds, ConfirmVerification(r, p)
    PROVE  VerifiedAddressWasProved' /\ ResetsAreProved' /\ MarkIsCurrent(req[r])'
<1>1. /\ accounts' = [accounts EXCEPT ![proofs[p].user].verified = TRUE]
      /\ proven' = proven \cup {<<proofs[p].user, proofs[p].email>>}
      /\ req' = req /\ resetBy' = resetBy /\ req[r].pc = "idle"
  BY DEF ConfirmVerification, ConsumeVerification, Idles
<1>2. KeepsRows
  BY ConfirmKeepsRows DEF ProvedInv
<1>3. proofs[p].user \in Users /\ accounts[proofs[p].user].email = proofs[p].email
  BY DEF ConfirmVerification, VerifyValid, Fresh, ProvedInv, ProofInv, StoredProofs
<1>4. VerifiedAddressWasProved'
  <2>1. <<proofs[p].user, accounts[proofs[p].user].email>> \in proven' /\ proven \subseteq proven'
    BY <1>1, <1>3
  <2> QED BY <1>1, <1>3, <2>1, FlagWritten
<1>5. ResetsAreProved'
  BY <1>1, <1>2 DEF ProvedInv, ResetsAreProved, KeepsRows, ProofInv, ProofTypeOK
<1> QED BY <1>1, <1>4, <1>5 DEF MarkIsCurrent

\* A refused proof is revoked.
LEMMA RejectProves ==
    ASSUME ProvedInv, ProofInv', NEW r \in Requests, NEW p \in ProofIds, RejectProof(r, p)
    PROVE  VerifiedAddressWasProved' /\ ResetsAreProved' /\ MarkIsCurrent(req[r])'
<1>1. accounts' = accounts /\ proven' = proven /\ resetBy' = resetBy /\ req' = req /\ req[r].pc = "idle"
  BY DEF RejectProof, history, Idles
<1>2. KeepsRows
  BY RevocationKeepsRows DEF RejectProof, ProvedInv
<1> QED BY <1>1, <1>2, SameFlags, ProvedStays DEF MarkIsCurrent

\* A change of status or password leaves address and flag alone.
LEMMA StatusProves ==
    ASSUME ProvedInv, ProofInv', NEW r \in Requests, NEW u \in Users,
           SetPassword(r, u) \/ \E a \in BOOLEAN : SetActive(r, u, a)
    PROVE  VerifiedAddressWasProved' /\ ResetsAreProved' /\ MarkIsCurrent(req[r])'
<1>1. proofs' = proofs /\ proven' = proven /\ resetBy' = resetBy /\ req' = req /\ req[r].pc = "idle"
  BY DEF SetPassword, SetActive, history, Idles
<1>2. KeepsRows
  BY <1>1, RevocationKeepsRows DEF ProvedInv
<1>3. KeepsFlags
  BY DEF SetPassword, SetActive, KeepsFlags, ProvedInv, ProofInv, ProofTypeOK, Account
<1> QED BY <1>1, <1>2, <1>3, ProvedStays DEF MarkIsCurrent

\* An account that changes its address, or goes, is not verified any more.
LEMMA LeavingProves ==
    ASSUME ProvedInv, ProofInv', NEW r \in Requests, NEW u \in Users,
           DeleteAccount(r, u) \/ \E e \in Emails : ChangeEmail(r, u, e)
    PROVE  VerifiedAddressWasProved' /\ ResetsAreProved' /\ MarkIsCurrent(req[r])'
<1>1. proven' = proven /\ resetBy' = resetBy /\ req' = req /\ req[r].pc = "idle"
  BY DEF DeleteAccount, ChangeEmail, history, Idles
<1>2. KeepsFlags
  <2>1. accounts \in [Users -> Account]
    BY DEF ProvedInv, ProofInv, ProofTypeOK
  <2>2. \A v \in Users \ {u} : accounts'[v] = accounts[v]
    BY <2>1 DEF DeleteAccount, ChangeEmail
  <2>3. accounts'[u].verified = FALSE
    <3>1. CASE DeleteAccount(r, u)
      BY <2>1, <3>1 DEF DeleteAccount
    <3>2. CASE \E e \in Emails : ChangeEmail(r, u, e)
      <4>1. PICK e : accounts' = [accounts EXCEPT ![u].email = e, ![u].verified = FALSE]
        BY <3>2 DEF ChangeEmail
      <4> QED BY <2>1, <4>1 DEF Account
    <3> QED BY <3>1, <3>2
  <2> QED BY <2>2, <2>3 DEF KeepsFlags
<1>3. KeepsRows
  <2>1. CASE DeleteAccount(r, u)
    BY <2>1 DEF DeleteAccount, KeepsRows, ProvedInv, ProofInv, ProofTypeOK, Proof
  <2>2. CASE \E e \in Emails : ChangeEmail(r, u, e)
    BY <2>2, RevocationKeepsRows DEF ChangeEmail, ProvedInv
  <2> QED BY <2>1, <2>2
<1> QED BY <1>1, <1>2, <1>3, ProvedStays DEF MarkIsCurrent

\* An administrator vouches for the address the account has.
LEMMA AdminVerifyProves ==
    ASSUME ProvedInv, ProofInv', NEW r \in Requests, NEW u \in Users, AdminVerify(r, u)
    PROVE  VerifiedAddressWasProved' /\ ResetsAreProved' /\ MarkIsCurrent(req[r])'
<1>1. /\ accounts' = [accounts EXCEPT ![u].verified = TRUE]
      /\ proven' = proven \cup {<<u, accounts[u].email>>}
      /\ proofs' = proofs /\ req' = req /\ resetBy' = resetBy /\ req[r].pc = "idle"
  BY DEF AdminVerify, Idles
<1>2. VerifiedAddressWasProved'
  <2>1. <<u, accounts[u].email>> \in proven' /\ proven \subseteq proven'
    BY <1>1
  <2> QED BY <1>1, <2>1, FlagWritten
<1>3. ResetsAreProved'
  BY <1>1 DEF ProvedInv, ResetsAreProved
<1> QED BY <1>1, <1>2, <1>3 DEF MarkIsCurrent

\* The signed profile names the address the account has.
LEMMA MatchProves ==
    ASSUME ProvedInv, ProofInv', NEW r \in Requests, NEW u \in Users, MatchUpstream(r, u)
    PROVE  VerifiedAddressWasProved' /\ ResetsAreProved' /\ MarkIsCurrent(req[r])'
<1>1. /\ accounts' = accounts /\ proven' = proven \cup {<<u, accounts[u].email>>}
      /\ proofs' = proofs /\ resetBy' = resetBy
  BY DEF MatchUpstream
<1>2. req'[r].user = u
  BY DEF MatchUpstream, ProvedInv, ProofInv, ProofTypeOK
<1>3. KeepsRows
  BY <1>1, RevocationKeepsRows DEF ProvedInv
<1> QED BY <1>1, <1>2, <1>3, SameFlags, ProvedStays DEF MarkIsCurrent

\* The flag is set for the address that was matched: nothing came in between.
LEMMA MarkProves ==
    ASSUME ProvedInv, ProofInv', NEW r \in Requests, MarkVerified(r)
    PROVE  VerifiedAddressWasProved' /\ ResetsAreProved' /\ MarkIsCurrent(req[r])'
<1>1. /\ \/ accounts' = accounts
         \/ accounts' = [accounts EXCEPT ![req[r].user].verified = TRUE]
      /\ req' = [req EXCEPT ![r] = Idle]
      /\ UNCHANGED <<proofs, proven, resetBy>> /\ req[r].pc = "mark"
  BY Zenon DEF MarkVerified, Return, history
<1>2. req[r].user \in Users /\ <<req[r].user, accounts[req[r].user].email>> \in proven
  BY <1>1 DEF ProvedInv, MarkIsCurrent, ProofInv, ProofTypeOK, Slot, Idle
<1>3. VerifiedAddressWasProved'
  <2>1. CASE accounts' = accounts
    BY <1>1, <2>1 DEF ProvedInv, VerifiedAddressWasProved
  <2>2. CASE accounts' = [accounts EXCEPT ![req[r].user].verified = TRUE]
    <3>1. <<req[r].user, accounts[req[r].user].email>> \in proven' /\ proven \subseteq proven'
      BY <1>1, <1>2
    <3> QED BY <1>2, <2>2, <3>1, FlagWritten
  <2> QED BY <1>1, <2>1, <2>2, Zenon
<1>4. ResetsAreProved'
  BY <1>1 DEF ProvedInv, ResetsAreProved
<1>5. req'[r].pc = "idle"
  BY <1>1 DEF ProvedInv, ProofInv, ProofTypeOK, Idle
<1> QED BY <1>3, <1>4, <1>5 DEF MarkIsCurrent

\* Mails, withdrawn proofs and dropped handlers.
LEMMA MailProves ==
    ASSUME ProvedInv, ProofInv', NEW r \in Requests, Deliver(r) \/ RevokeUndelivered(r) \/ Cancel(r)
    PROVE  VerifiedAddressWasProved' /\ ResetsAreProved' /\ MarkIsCurrent(req[r])'
<1>1. accounts' = accounts /\ proven' = proven /\ resetBy' = resetBy
  BY DEF Deliver, RevokeUndelivered, Cancel, history
<1>2. KeepsRows
  BY RevocationKeepsRows DEF Deliver, RevokeUndelivered, Cancel, ProvedInv
<1>3. req'[r].pc # "mark"
  <2>1. CASE Deliver(r)
    BY <2>1 DEF Deliver, Idle, ProvedInv, ProofInv, ProofTypeOK, Slot
  <2>2. CASE RevokeUndelivered(r) \/ Cancel(r)
    BY <2>2 DEF RevokeUndelivered, Cancel, Return, Idle, ProvedInv, ProofInv, ProofTypeOK
  <2> QED BY <2>1, <2>2
<1> QED BY <1>1, <1>2, <1>3, SameFlags, ProvedStays DEF MarkIsCurrent

\* Every step of the serial server keeps the invariant.
LEMMA ProvedStep ==
    ASSUME OneAtATime, ProvedInv, [ProofNext]_proofVars
    PROVE  ProvedInv'
<1>1. ProofInv'
  BY ProofNextInv DEF ProvedInv
<1>2. PICK r : Requests = {r}
  BY DEF OneAtATime
<1>3. r \in Requests
  BY <1>2
<1>4. CASE UNCHANGED proofVars \/ Tick
  <2>1. UNCHANGED <<accounts, proofs, req, proven, resetBy>>
    BY <1>4 DEF proofVars, Tick, history
  <2> QED BY <1>1, <2>1 DEF ProvedInv, VerifiedAddressWasProved, ResetsAreProved, MarkIsCurrent
<1>5. ASSUME Starting(r) \/ Running(r) \/ Cancel(r)
      PROVE  VerifiedAddressWasProved' /\ ResetsAreProved' /\ MarkIsCurrent(req[r])'
  BY <1>1, <1>3, <1>5, RequestsProve, ConfirmResetProves, ConfirmVerificationProves, RejectProves, StatusProves,
     LeavingProves, AdminVerifyProves, MatchProves, MarkProves, MailProves, Zenon DEF Starting, Running
<1>6. CASE \E x \in Requests : Starting(x) \/ Running(x) \/ Cancel(x)
  BY <1>1, <1>2, <1>5, <1>6 DEF ProvedInv
<1> QED BY <1>4, <1>6, Zenon DEF ProofNext

\* Initially nothing is verified and nothing was reset.
LEMMA ProvedStart ==
    ASSUME ProofInit
    PROVE  ProvedInv
<1>1. ProofInv
  BY ProofInitInv
<1>2. \A u \in Users : ~accounts[u].verified /\ resetBy[u] = None
  BY DEF ProofInit
<1>3. \A r \in Requests : req[r].pc = "idle"
  BY DEF ProofInit, Idle
<1> QED BY <1>1, <1>2, <1>3 DEF ProvedInv, VerifiedAddressWasProved, ResetsAreProved, MarkIsCurrent

-----------------------------------------------------------------------------
(* Results for serial handlers *)

\* With one handler at a time, an address is marked verified only after it, and
\* not an earlier one, was proved (resolve_oidc_upstream_user,
\* consume_email_verification_token, verify_user_email_handler).
THEOREM SerialVerification ==
    ASSUME OneAtATime
    PROVE  ProofSpec => []VerifiedAddressWasProved
<1>1. ProofInit => ProvedInv
  BY ProvedStart
<1>2. ProvedInv /\ [ProofNext]_proofVars => ProvedInv'
  BY ProvedStep
<1>3. ProvedInv => VerifiedAddressWasProved
  BY DEF ProvedInv
<1> QED BY <1>1, <1>2, <1>3, PTL DEF ProofSpec

\* With one handler at a time, a password is only replaced through an address
\* that had been proved (consume_password_reset_token).
THEOREM SerialReset ==
    ASSUME OneAtATime
    PROVE  ProofSpec => []ResetThroughProvedAddress
<1>1. ProofInit => ProvedInv
  BY ProvedStart
<1>2. ProvedInv /\ [ProofNext]_proofVars => ProvedInv'
  BY ProvedStep
<1>3. ProvedInv => ResetThroughProvedAddress
  BY DEF ProvedInv, ResetsAreProved, ResetThroughProvedAddress
<1> QED BY <1>1, <1>2, <1>3, PTL DEF ProofSpec
=============================================================================
