---------------------------- MODULE MCCredentials ----------------------------
(***************************************************************************)
(* The components that decide who a caller is, on small instances.  They   *)
(* share the clock and no row, so each behaviour runs one of them while    *)
(* the others rest; the clock of each goes as far as it needs.             *)
(***************************************************************************)
EXTENDS AccountProofs, Mfa, LoginLock, UpstreamLogin, CustomerSupport

CONSTANTS e2, s1, f1, o1

\* a username that looks like an address the account may also own
MCNameOf == [u \in Users |-> e2]

MCQuota == [k \in Keys |-> IF k = "global" THEN 3 ELSE 2]

\* the local user's address, verified or not, and one nobody has
MCProfiles ==
    {[subject |-> s1, mail |-> LocalMail, verified |-> v] : v \in BOOLEAN}
    \cup {[subject |-> s1, mail |-> e2, verified |-> TRUE]}

\* a grant that ends within the run and one that does not
MCGrantArgs == {[who |-> f1, org |-> o1, ops |-> {"a"}, expires |-> e] : e \in {1, 3}}

VARIABLE focus   \* the component that runs

limitVars == <<production, redisUp, quotaVars, lockVars>>
accountVars == <<accounts, proofs, inbox, req, history>>
credentialVars == <<now, accountVars, mfaVars, limitVars, upVars, supportVars, focus>>

Horizon == [proofs |-> 1, mfa |-> 1, quota |-> 3, lock |-> 3, upstream |-> 0, support |-> 2]

CredentialInit ==
    /\ focus \in DOMAIN Horizon
    /\ ProofInit /\ MfaInit /\ QuotaInit /\ LockInit /\ UpInit /\ SupportInit
    /\ focus # "proofs" => \A u \in Users : accounts[u].hasPassword /\ accounts[u].email # e2
    /\ focus \notin {"quota", "lock"} => production /\ redisUp

\* the components other than c stay as they are, and its clock is bounded
Rest(c) ==
    /\ c # "proofs" => UNCHANGED accountVars
    /\ c # "mfa" => UNCHANGED mfaVars
    /\ c \notin {"quota", "lock"} => UNCHANGED limitVars
    /\ c = "quota" => UNCHANGED lockVars
    /\ c # "upstream" => UNCHANGED upVars
    /\ c # "support" => UNCHANGED supportVars
    /\ now' <= Horizon[c]
    /\ UNCHANGED focus

CredentialNext ==
    \/ focus = "proofs" /\ ProofNext /\ Rest("proofs")
    \/ focus = "mfa" /\ MfaNext /\ Rest("mfa")
    \/ focus = "quota" /\ QuotaNext /\ Rest("quota")
    \/ focus = "lock" /\ LockNext /\ Rest("lock")
    \/ focus = "upstream" /\ UpNext /\ Rest("upstream")
    \/ focus = "support" /\ SupportNext /\ Rest("support")

CredentialSpec ==
    /\ CredentialInit
    /\ [][CredentialNext]_credentialVars
    /\ \A r \in Requests : WF_proofVars(Running(r))
=============================================================================
