---------------------------- MODULE AccountProofs ----------------------------
(***************************************************************************)
(* One-time proofs sent by mail: password-reset tokens and e-mail          *)
(* verification tokens, with the account changes that must invalidate them *)
(* and the mail delivery that may fail after the proof is stored.          *)
(*                                                                         *)
(* Issuing, consuming and changing an account are each one transaction     *)
(* that locks the account row.  A request handler issues a proof in one    *)
(* step, hands the mail to the provider in a second, and revokes the proof *)
(* in a third when the provider reports a failure.  Every handler runs in  *)
(* a request slot: one slot serialises the server.  What a password is,    *)
(* and the sessions its replacement revokes, are in AuthFlow.              *)
(***************************************************************************)
EXTENDS Common

CONSTANTS
    Users,        \* user ids
    Emails,       \* addresses
    NameOf,       \* NameOf[u]: users.username; it may look like an address
    ProofIds,     \* rows of password_reset_tokens and email_verification_tokens
    Requests,     \* request slots
    AllowCancel,  \* whether a handler may be cut short: client gone, statement failed
    ProofLife     \* config.token_expiry_seconds, in model time units

ASSUME ProofAssumption ==
    /\ AllowCancel \in BOOLEAN
    /\ ProofLife \in Nat \ {0}
    /\ None \notin Users \cup Emails \cup ProofIds

VARIABLES
    accounts,  \* accounts[u]: the users row
    proofs,    \* proofs[p]: the row of either table
    inbox,     \* inbox[e]: the proofs mailed to address e
    req,       \* req[r]: the handler running in slot r
    proven,    \* history: pairs <<u, e>> such that e was proved to be u's address
    resetBy,   \* history: resetBy[u] is the proof that last replaced u's password
    dropped    \* history: the proofs whose handler was cut short

history == <<proven, resetBy, dropped>>
proofVars == <<now, accounts, proofs, inbox, req, history>>

Kinds == {"reset", "verify"}

Account == [state : {"active", "disabled", "deleted"}, email : Emails \cup {None},
            verified : BOOLEAN, hasPassword : BOOLEAN]
Proof == [state : {"absent", "pending", "consumed", "revoked", "deleted"},
          kind : Kinds \cup {None}, user : Users \cup {None},
          email : Emails \cup {None}, expires : Nat]
NoProof == [state |-> "absent", kind |-> None, user |-> None, email |-> None,
            expires |-> 0]
Idle == [pc |-> "idle", proof |-> None, user |-> None]
Slot == {Idle} \cup [pc : {"deliver", "revoke"}, proof : ProofIds, user : Users]
               \cup [pc : {"mark"}, proof : {None}, user : Users]

ProofTypeOK ==
    /\ now \in Nat
    /\ accounts \in [Users -> Account]
    /\ proofs \in [ProofIds -> Proof]
    /\ inbox \in [Emails -> SUBSET ProofIds]
    /\ req \in [Requests -> Slot]
    /\ proven \subseteq Users \X Emails
    /\ resetBy \in [Users -> ProofIds \cup {None}]
    /\ dropped \subseteq ProofIds

\* Accounts start with distinct addresses, locally registered (unverified, with
\* a password) or provisioned from outside (no password).
ProofInit ==
    /\ now = 0
    /\ accounts \in [Users -> [state : {"active"}, email : Emails, verified : {FALSE},
                               hasPassword : BOOLEAN]]
    /\ \A u, v \in Users : accounts[u].email = accounts[v].email => u = v
    /\ proofs = [p \in ProofIds |-> NoProof]
    /\ inbox = [e \in Emails |-> {}]
    /\ req = [r \in Requests |-> Idle]
    /\ proven = {}
    /\ resetBy = [u \in Users |-> None]
    /\ dropped = {}

-----------------------------------------------------------------------------
Exists(u) == accounts[u].state # "deleted"
Active(u) == accounts[u].state = "active"

Pending(u, k) ==
    {p \in ProofIds : proofs[p].state = "pending" /\ proofs[p].user = u /\ proofs[p].kind = k}

\* UPDATE ... SET revoked_at = COALESCE(revoked_at, NOW()) over pending rows
RevokeProofs(P) ==
    [p \in ProofIds |-> IF p \in P /\ proofs[p].state = "pending"
                        THEN [proofs[p] EXCEPT !.state = "revoked"] ELSE proofs[p]]

Idles(r) == req[r].pc = "idle"
Return(r) == req' = [req EXCEPT ![r] = Idle]

-----------------------------------------------------------------------------
(* Issuing *)

\* fault: an unverified address may receive a reset
EligibleUnverified(u) == Active(u) /\ accounts[u].hasPassword

Eligible(u) == Active(u) /\ accounts[u].verified /\ accounts[u].hasPassword

\* eligible_user: by address first, then by username
EligibleUsers(id) ==
    LET byEmail == {u \in Users : Eligible(u) /\ accounts[u].email = id}
    IN  IF byEmail # {} THEN byEmail ELSE {u \in Users : Eligible(u) /\ NameOf[u] = id}

\* fault: older proofs stay pending
IssueBeside(k, u, p) ==
    proofs' = [proofs EXCEPT ![p] =
        [state |-> "pending", kind |-> k, user |-> u, email |-> accounts[u].email,
         expires |-> now + ProofLife]]

\* The transaction of both issuers: revoke what is pending, insert the new row.
Issue(k, u, p) ==
    proofs' = [RevokeProofs(Pending(u, k)) EXCEPT ![p] =
        [state |-> "pending", kind |-> k, user |-> u, email |-> accounts[u].email,
         expires |-> now + ProofLife]]

\* request_password_reset up to the mail; an unknown identifier changes nothing
RequestReset(r) ==
    /\ Idles(r)
    /\ \E id \in Emails \cup {NameOf[u] : u \in Users}, p \in ProofIds :
          \E u \in EligibleUsers(id) :
             /\ proofs[p].state = "absent"
             /\ Issue("reset", u, p)
             /\ req' = [req EXCEPT ![r] = [pc |-> "deliver", proof |-> p, user |-> u]]
    /\ UNCHANGED <<now, accounts, inbox, history>>

\* issue_email_verification_token refuses an inactive or verified account
Unverified(u) == Active(u) /\ ~accounts[u].verified

\* request_email_verification up to the mail
RequestVerification(r) ==
    /\ Idles(r)
    /\ \E u \in Users, p \in ProofIds :
          /\ Unverified(u)
          /\ proofs[p].state = "absent"
          /\ Issue("verify", u, p)
          /\ req' = [req EXCEPT ![r] = [pc |-> "deliver", proof |-> p, user |-> u]]
    /\ UNCHANGED <<now, accounts, inbox, history>>

\* deliver_mail: the provider may report a failure for a mail that arrives
Deliver(r) ==
    /\ req[r].pc = "deliver"
    /\ \E arrives, ok \in BOOLEAN :
          /\ ok => arrives
          /\ inbox' = IF arrives
                      THEN [inbox EXCEPT ![proofs[req[r].proof].email] = @ \cup {req[r].proof}]
                      ELSE inbox
          /\ req' = [req EXCEPT ![r] = IF ok THEN Idle ELSE [req[r] EXCEPT !.pc = "revoke"]]
    /\ UNCHANGED <<now, accounts, proofs, history>>

\* fault: a delivery failure is only audited
ForgetUndelivered(r) ==
    /\ req[r].pc = "revoke"
    /\ Return(r)
    /\ UNCHANGED <<now, accounts, proofs, inbox, history>>

\* revoke_password_reset_token, revoke_email_verification_token
RevokeUndelivered(r) ==
    /\ req[r].pc = "revoke"
    /\ proofs' = RevokeProofs({req[r].proof})
    /\ Return(r)
    /\ UNCHANGED <<now, accounts, inbox, history>>

-----------------------------------------------------------------------------
(* Consuming: whoever reads the mail may present the proof *)

Known == UNION {inbox[e] : e \in Emails}

Fresh(p) == proofs[p].state = "pending" /\ proofs[p].expires > now

ResetValid(p) ==
    /\ Fresh(p)
    /\ Eligible(proofs[p].user)
    /\ accounts[proofs[p].user].email = proofs[p].email

VerifyValid(p) ==
    /\ Fresh(p)
    /\ Active(proofs[p].user)
    /\ accounts[proofs[p].user].email = proofs[p].email

\* consume_password_reset_token, answering Reset
ConsumeReset(p) ==
    /\ proofs' = [RevokeProofs(Pending(proofs[p].user, "reset")) EXCEPT
                     ![p] = [proofs[p] EXCEPT !.state = "consumed"]]
    /\ resetBy' = [resetBy EXCEPT ![proofs[p].user] = p]

\* consume_email_verification_token, answering Verified
ConsumeVerification(p) ==
    /\ accounts' = [accounts EXCEPT ![proofs[p].user].verified = TRUE]
    /\ proofs' = [proofs EXCEPT ![p].state = "consumed"]
    /\ proven' = proven \cup {<<proofs[p].user, proofs[p].email>>}

\* confirm_password_reset
ConfirmReset(r, p) ==
    /\ Idles(r)
    /\ p \in Known /\ proofs[p].kind = "reset"
    /\ ResetValid(p)
    /\ ConsumeReset(p)
    /\ UNCHANGED <<now, accounts, inbox, req, proven, dropped>>

\* confirm_email_verification
ConfirmVerification(r, p) ==
    /\ Idles(r)
    /\ p \in Known /\ proofs[p].kind = "verify"
    /\ VerifyValid(p)
    /\ ConsumeVerification(p)
    /\ UNCHANGED <<now, inbox, req, resetBy, dropped>>

\* either handler, answering Invalid: a proof still pending is revoked on the spot
RejectProof(r, p) ==
    /\ Idles(r)
    /\ p \in Known /\ proofs[p].state = "pending"
    /\ IF proofs[p].kind = "reset" THEN ~ResetValid(p) ELSE ~VerifyValid(p)
    /\ proofs' = RevokeProofs({p})
    /\ UNCHANGED <<now, accounts, inbox, req, history>>

-----------------------------------------------------------------------------
(* Account changes *)

FreeAddress(e) == \A v \in Users : accounts[v].email # e      \* users.email is UNIQUE

\* faults: the flag, or the proofs mailed to the old address, survive a new one
ChangeEmailKeepingFlag(r, u, e) ==
    /\ Idles(r) /\ Exists(u) /\ FreeAddress(e)
    /\ accounts' = [accounts EXCEPT ![u].email = e]
    /\ proofs' = RevokeProofs(Pending(u, "reset") \cup Pending(u, "verify"))
    /\ UNCHANGED <<now, inbox, req, history>>
ChangeEmailKeepingProofs(r, u, e) ==
    /\ Idles(r) /\ Exists(u) /\ FreeAddress(e)
    /\ accounts' = [accounts EXCEPT ![u].email = e, ![u].verified = FALSE]
    /\ UNCHANGED <<now, proofs, inbox, req, history>>

\* update_user with a new address
ChangeEmail(r, u, e) ==
    /\ Idles(r) /\ Exists(u) /\ FreeAddress(e)
    /\ accounts' = [accounts EXCEPT ![u].email = e, ![u].verified = FALSE]
    /\ proofs' = RevokeProofs(Pending(u, "reset") \cup Pending(u, "verify"))
    /\ UNCHANGED <<now, inbox, req, history>>

\* update_user with active; pending proofs stay
SetActive(r, u, a) ==
    /\ Idles(r) /\ Exists(u)
    /\ accounts' = [accounts EXCEPT ![u].state = IF a THEN "active" ELSE "disabled"]
    /\ UNCHANGED <<now, proofs, inbox, req, history>>

\* reset_user_password, or update_user with a password, gives an account that
\* had none (an external identity) a local password; pending proofs stay
SetPassword(r, u) ==
    /\ Idles(r) /\ Exists(u)
    /\ accounts' = [accounts EXCEPT ![u].hasPassword = TRUE]
    /\ UNCHANGED <<now, proofs, inbox, req, history>>

\* delete_user: both token tables cascade
DeleteAccount(r, u) ==
    /\ Idles(r) /\ Exists(u)
    /\ accounts' = [accounts EXCEPT ![u] =
          [state |-> "deleted", email |-> None, verified |-> FALSE, hasPassword |-> FALSE]]
    /\ proofs' = [p \in ProofIds |-> IF proofs[p].user = u
                                     THEN [proofs[p] EXCEPT !.state = "deleted"]
                                     ELSE proofs[p]]
    /\ UNCHANGED <<now, inbox, req, history>>

-----------------------------------------------------------------------------
(* mark_user_email_verified *)

\* verify_user_email_handler: an administrator vouches for the current address
AdminVerify(r, u) ==
    /\ Idles(r) /\ Exists(u)
    /\ accounts' = [accounts EXCEPT ![u].verified = TRUE]
    /\ proven' = proven \cup {<<u, accounts[u].email>>}
    /\ UNCHANGED <<now, proofs, inbox, req, resetBy, dropped>>

\* resolve_oidc_upstream_user read an account whose address the signed upstream
\* profile names as verified ...
MatchUpstream(r, u) ==
    /\ Idles(r) /\ Active(u)
    /\ req' = [req EXCEPT ![r] = [pc |-> "mark", proof |-> None, user |-> u]]
    /\ proven' = proven \cup {<<u, accounts[u].email>>}
    /\ UNCHANGED <<now, accounts, proofs, inbox, resetBy, dropped>>

\* ... and sets the flag in a later statement, whatever the address is then.
MarkVerified(r) ==
    /\ req[r].pc = "mark"
    /\ accounts' = IF Exists(req[r].user)
                   THEN [accounts EXCEPT ![req[r].user].verified = TRUE] ELSE accounts
    /\ Return(r)
    /\ UNCHANGED <<now, proofs, inbox, history>>

\* The client disconnects and the handler's future is dropped at an await, or
\* the statement that revokes an undelivered proof fails and is only logged.
Cancel(r) ==
    /\ AllowCancel
    /\ ~Idles(r)
    /\ Return(r)
    /\ dropped' = dropped \cup ({req[r].proof} \cap ProofIds)
    /\ UNCHANGED <<now, accounts, proofs, inbox, proven, resetBy>>

Tick ==
    /\ now < MaxTime
    /\ now' = now + 1
    /\ UNCHANGED <<accounts, proofs, inbox, req, history>>

-----------------------------------------------------------------------------
Running(r) == Deliver(r) \/ RevokeUndelivered(r) \/ MarkVerified(r)

Starting(r) ==
    \/ RequestReset(r) \/ RequestVerification(r)
    \/ \E p \in ProofIds : ConfirmReset(r, p) \/ ConfirmVerification(r, p) \/ RejectProof(r, p)
    \/ \E u \in Users :
          \/ SetPassword(r, u) \/ DeleteAccount(r, u) \/ AdminVerify(r, u) \/ MatchUpstream(r, u)
          \/ \E e \in Emails : ChangeEmail(r, u, e)
          \/ \E a \in BOOLEAN : SetActive(r, u, a)

ProofNext == Tick \/ \E r \in Requests : Starting(r) \/ Running(r) \/ Cancel(r)

\* The runtime polls a handler until it returns, unless its client disconnects.
ProofSpec ==
    /\ ProofInit
    /\ [][ProofNext]_proofVars
    /\ \A r \in Requests : WF_proofVars(Running(r))

-----------------------------------------------------------------------------
(* Correctness *)

\* "Concurrent requests leave at most one usable proof": an account never has
\* two pending proofs of a kind.
OneUsableProof ==
    \A u \in Users, k \in Kinds : \A p, q \in Pending(u, k) : p = q

\* A proof that is still pending was mailed to the account's present address,
\* and a reset proof only while that address is verified: neither an address
\* change nor a deletion leaves a proof behind in an old mailbox.
PendingProofsAreCurrent ==
    \A p \in ProofIds : proofs[p].state = "pending" =>
        /\ Exists(proofs[p].user)
        /\ proofs[p].email = accounts[proofs[p].user].email
        /\ proofs[p].kind = "reset" => accounts[proofs[p].user].verified

\* An address is marked verified only after it, not an earlier one, was proved:
\* "only when the signed upstream profile matches it exactly".
VerifiedAddressWasProved ==
    \A u \in Users : accounts[u].verified => <<u, accounts[u].email>> \in proven

\* A password is only ever replaced by mail through an address that had been
\* proved to belong to the account.
ResetThroughProvedAddress ==
    \A u \in Users : resetBy[u] # None => <<u, proofs[resetBy[u]].email>> \in proven

\* "Revoke a token after delivery fails so an undelivered token cannot be
\* reused": unless the handler is cut short, a proof reported undelivered does
\* not stay pending, even if the mail arrived after all.
UndeliveredProofIsRevoked ==
    \A r \in Requests, p \in ProofIds :
        (req[r].pc = "revoke" /\ req[r].proof = p)
            ~> (proofs[p].state # "pending" \/ p \in dropped)
=============================================================================
