-------------------------------- MODULE Mfa --------------------------------
(***************************************************************************)
(* TOTP enrollment and recent-MFA proofs of one user (every table is keyed *)
(* by the user).  Each handler reads the credential, checks a code against *)
(* the seed it read and then writes in a transaction of its own; a slot    *)
(* runs one handler and holds what it read.  A seed is a number; a code is *)
(* the pair of its seed and time step, one step per clock tick.  The       *)
(* request quota of the handlers is in RateLimit.                          *)
(***************************************************************************)
EXTENDS Common

CONSTANTS
    MfaSlots,      \* handlers that may run at once
    AccessTokens,  \* jti of the user's access tokens
    MaxSeeds,      \* bound on the seeds that are ever generated
    RecentTime,    \* MFA_RECENT_VERIFICATION_SECONDS, in model time units
    CodeCount      \* RECOVERY_CODE_COUNT

ASSUME MfaAssumption == MaxSeeds \in Nat /\ RecentTime \in Nat \ {0} /\ CodeCount \in Nat

VARIABLES
    cred,       \* mfa_totp_credentials: {} or one row
    recovery,   \* mfa_recovery_codes with used_at IS NULL: <<enrolled seed, n>>
    recent,     \* recent[t]: expires_at of the token's proof, 0 when there is none
    seeds,      \* how many seeds were generated
    mfaJobs,    \* mfaJobs[j]: the handler in slot j and what it read
    spent,      \* history: <<seed, step>> pairs accepted for that seed
    replay,     \* history: such a pair was accepted twice
    overtaken   \* history: a handler wrote although the credential had changed since it read it

mfaVars == <<cred, recovery, recent, seeds, mfaJobs, spent, replay, overtaken>>

\* last: last_verified_step + 1, 0 for NULL
Credential == [seed : 1 .. MaxSeeds, enabled : BOOLEAN, last : Nat]
Handler == [op : {"none", "enroll", "confirm", "totp", "recovery", "reset"},
            seed : 0 .. MaxSeeds, step : Nat, code : Nat \X Nat, token : AccessTokens,
            until : Nat, read : SUBSET (Nat \X BOOLEAN)]
IdleHandler == [op |-> "none", seed |-> 0, step |-> 0, code |-> <<0, 0>>,
                token |-> CHOOSE t \in AccessTokens : TRUE, until |-> 0, read |-> {}]

MfaInit ==
    /\ cred = {} /\ recovery = {}
    /\ recent = [t \in AccessTokens |-> 0]
    /\ seeds = 0
    /\ mfaJobs = [j \in MfaSlots |-> IdleHandler]
    /\ spent = {}
    /\ replay = FALSE /\ overtaken = FALSE

\* what a handler knows of the credential it read
Snapshot == {<<c.seed, c.enabled>> : c \in cred}

MfaEnabled(rows) == \E c \in rows : c.enabled

\* verify_totp_code: the adjacent steps are accepted, saturating at zero
CodeSteps == {IF now = 0 THEN 0 ELSE now - 1, now, now + 1}

\* require_recent_mfa_for_enabled_user
RecentMfa(t) == MfaEnabled(cred) => recent[t] > now

-----------------------------------------------------------------------------
(* What the handlers read before their write *)

Start(j, job) ==
    /\ mfaJobs[j].op = "none"
    /\ mfaJobs' = [mfaJobs EXCEPT ![j] = job]
    /\ UNCHANGED <<now, cred, recovery, recent, spent, replay, overtaken>>

\* start_totp_enrollment
StartEnroll(j) ==
    /\ ~MfaEnabled(cred)
    /\ seeds < MaxSeeds
    /\ seeds' = seeds + 1
    /\ Start(j, [IdleHandler EXCEPT !.op = "enroll", !.seed = seeds + 1, !.read = Snapshot])

\* verify_totp_enrollment, with a code of the pending seed
StartConfirm(j) ==
    /\ \E c \in cred, k \in CodeSteps :
          /\ ~c.enabled
          /\ Start(j, [IdleHandler EXCEPT !.op = "confirm", !.seed = c.seed, !.step = k, !.read = Snapshot])
    /\ UNCHANGED seeds

\* verify_recent_mfa with a TOTP code or a recovery code
StartVerify(j, t) ==
    /\ \E c \in cred :
          /\ c.enabled
          /\ \/ \E k \in CodeSteps :
                   Start(j, [IdleHandler EXCEPT !.op = "totp", !.seed = c.seed, !.step = k,
                             !.token = t, !.until = now + RecentTime, !.read = Snapshot])
             \/ \E code \in recovery :
                   Start(j, [IdleHandler EXCEPT !.op = "recovery", !.code = code,
                             !.token = t, !.until = now + RecentTime, !.read = Snapshot])
    /\ UNCHANGED seeds

\* reset_totp_enrollment
StartReset(j, t) ==
    /\ RecentMfa(t)
    /\ Start(j, [IdleHandler EXCEPT !.op = "reset", !.token = t, !.read = Snapshot])
    /\ UNCHANGED seeds

-----------------------------------------------------------------------------
(* Their transactions *)

\* the slot is free again; a write on top of a newer credential is recorded
Finish(j, wrote) ==
    /\ mfaJobs' = [mfaJobs EXCEPT ![j] = IdleHandler]
    /\ overtaken' = (overtaken \/ (wrote /\ mfaJobs[j].read # Snapshot))
    /\ UNCHANGED <<now, seeds>>

\* a code of the current seed counts as spent
Spend(j) ==
    LET pair == <<mfaJobs[j].seed, mfaJobs[j].step>>
        counts == \E c \in cred : c.seed = mfaJobs[j].seed
    IN  /\ spent' = IF counts THEN spent \cup {pair} ELSE spent
        /\ replay' = (replay \/ (counts /\ pair \in spent))

\* save_pending_totp_credential: unconditional upsert
SavePending(j) ==
    /\ mfaJobs[j].op = "enroll"
    /\ cred' = {[seed |-> mfaJobs[j].seed, enabled |-> FALSE, last |-> 0]}
    /\ Finish(j, TRUE)
    /\ UNCHANGED <<recovery, recent, spent, replay>>

\* DELETE and INSERT of mfa_recovery_codes
ReplaceRecoveryCodes(seed) == {<<seed, n>> : n \in 1 .. CodeCount}

\* enable_totp_credential_with_recovery_codes
Enable(j) ==
    /\ mfaJobs[j].op = "confirm"
    /\ \E c \in cred :
          /\ ~c.enabled
          /\ cred' = {[seed |-> c.seed, enabled |-> TRUE, last |-> mfaJobs[j].step + 1]}
          /\ recovery' = ReplaceRecoveryCodes(c.seed)
    /\ Spend(j)
    /\ Finish(j, TRUE)
    /\ UNCHANGED recent

\* fault: the step comparison is dropped, so the UPDATE always matches
StepIsFreshAlways(c, k) == c.enabled

\* the conditions of the UPDATE that consumes a step
StepIsFresh(c, k) == c.enabled /\ c.last < k + 1

\* save_recent_verification
SaveRecent(j) == recent' = [recent EXCEPT ![mfaJobs[j].token] = mfaJobs[j].until]

\* consume_totp_step_and_record_recent_verification
ConsumeTotp(j) ==
    /\ mfaJobs[j].op = "totp"
    /\ \E c \in cred :
          /\ StepIsFresh(c, mfaJobs[j].step)
          /\ cred' = {[seed |-> c.seed, enabled |-> TRUE, last |-> mfaJobs[j].step + 1]}
    /\ SaveRecent(j)
    /\ Spend(j)
    /\ Finish(j, TRUE)
    /\ UNCHANGED recovery

\* consume_recovery_code_and_record_recent_verification: the credential is not
\* looked at again
ConsumeRecovery(j) ==
    /\ mfaJobs[j].op = "recovery"
    /\ mfaJobs[j].code \in recovery
    /\ recovery' = recovery \ {mfaJobs[j].code}
    /\ SaveRecent(j)
    /\ Finish(j, TRUE)
    /\ UNCHANGED <<cred, spent, replay>>

\* fault: the proofs made with the removed factor stay valid
DeleteCredentialOnly(j) ==
    /\ mfaJobs[j].op = "reset"
    /\ cred # {} /\ cred' = {}
    /\ Finish(j, TRUE)
    /\ UNCHANGED <<recovery, recent, spent, replay>>

\* delete_totp_credential
DeleteCredential(j) ==
    /\ mfaJobs[j].op = "reset"
    /\ cred # {} /\ cred' = {}
    /\ recent' = [t \in AccessTokens |-> 0]
    /\ Finish(j, TRUE)
    /\ UNCHANGED <<recovery, spent, replay>>

\* no row matched: the handler answers with a conflict or "already used"
Rejected(j) ==
    /\ \/ mfaJobs[j].op = "confirm" /\ ~\E c \in cred : ~c.enabled
       \/ mfaJobs[j].op = "totp" /\ ~\E c \in cred : StepIsFresh(c, mfaJobs[j].step)
       \/ mfaJobs[j].op = "recovery" /\ mfaJobs[j].code \notin recovery
       \/ mfaJobs[j].op = "reset" /\ cred = {}
    /\ Finish(j, FALSE)
    /\ UNCHANGED <<cred, recovery, recent, spent, replay>>

MfaTick == Advance /\ UNCHANGED mfaVars

-----------------------------------------------------------------------------
MfaNext ==
    \/ \E j \in MfaSlots :
          \/ StartEnroll(j) \/ StartConfirm(j)
          \/ \E t \in AccessTokens : StartVerify(j, t) \/ StartReset(j, t)
          \/ SavePending(j) \/ Enable(j) \/ ConsumeTotp(j) \/ ConsumeRecovery(j)
          \/ DeleteCredential(j) \/ Rejected(j)
    \/ MfaTick

MfaSpec == now = 0 /\ MfaInit /\ [][MfaNext]_<<now, mfaVars>>

-----------------------------------------------------------------------------
(* Correctness *)

\* "Consume a valid TOTP time step": however verifications, confirmations and
\* re-enrollments interleave, a code of the stored seed is accepted once.
TotpCodeUsedOnce == ~replay

\* "Resetting an MFA method invalidates proofs created by that method
\* immediately": unless a handler was overtaken, a live proof and the recovery
\* codes in force belong to the enabled credential.
ProofsBelongToFactor ==
    ~overtaken =>
        /\ (\E t \in AccessTokens : recent[t] > now) => MfaEnabled(cred)
        /\ \A c \in cred, code \in recovery : c.enabled => code[1] = c.seed
=============================================================================
