-------------------------- MODULE CredentialProofs --------------------------
(***************************************************************************)
(* What the second factor, the support access, the upstream login and the  *)
(* limits on requests and wrong passwords promise, for any number of       *)
(* handlers, tokens, grants, requests, users and source edits.  Each       *)
(* component has its own inductive invariant:                              *)
(*                                                                         *)
(*   - MfaInv: a seed that is being enrolled was never stored or used, and *)
(*     last_verified_step covers every accepted code of the stored seed;   *)
(*   - FactorInv: what a handler read decides what it may still write;     *)
(*   - SupportInv: a request has seen every condition that holds, hence    *)
(*     whatever a check found, and what it has passed stays true because   *)
(*     a grant is only ever revoked;                                       *)
(*   - UpInv: readings of the source at one edit agree, the cached one     *)
(*     too, so the keys a callback used are of the trust it rechecks;      *)
(*   - QuotaInv: the requests of a bucket are in one of the two counters,  *)
(*     and those of the bucket before add at most one quota;               *)
(*   - LockInv: a wrong password that is answered has been counted, and    *)
(*     once the account is locked only the attempts that were past the     *)
(*     check by then are answered.                                         *)
(***************************************************************************)
EXTENDS Mfa, CustomerSupport, UpstreamLogin, LoginLock, FiniteSetTheorems, SequenceTheorems, TLAPS

-----------------------------------------------------------------------------
(* The second factor *)

Enrolling(j) == mfaJobs[j].op = "enroll"

MfaTypes ==
    /\ cred \subseteq Credential /\ \A c, d \in cred : c = d
    /\ seeds \in Nat /\ DOMAIN mfaJobs = MfaSlots
    /\ spent \subseteq Nat \X Nat
    /\ \A j \in MfaSlots : mfaJobs[j].op \in {"confirm", "totp"} => mfaJobs[j].seed \in Nat /\ mfaJobs[j].step \in Nat

\* A seed that is being enrolled is in no row and was never used.
SeedsAreFresh ==
    /\ \A c \in cred : c.seed <= seeds
    /\ \A p \in spent : p[1] <= seeds
    /\ \A j \in MfaSlots : Enrolling(j) =>
          /\ mfaJobs[j].seed \in 1 .. MaxSeeds /\ mfaJobs[j].seed <= seeds
          /\ \A c \in cred : c.seed # mfaJobs[j].seed
          /\ \A p \in spent : p[1] # mfaJobs[j].seed
          /\ \A i \in MfaSlots \ {j} : Enrolling(i) => mfaJobs[i].seed # mfaJobs[j].seed

\* last_verified_step covers every code of the stored seed that was accepted.
LastCoversSpent == \A c \in cred : \A p \in spent : p[1] = c.seed => c.enabled /\ p[2] + 1 <= c.last

MfaInv == MfaTypes /\ SeedsAreFresh /\ LastCoversSpent /\ ~replay

-----------------------------------------------------------------------------
\* A handler that is not an enrollment starts, or a slot becomes free.
LEMMA SlotKeeps ==
    ASSUME MfaInv, NEW j \in MfaSlots, NEW job, mfaJobs' = [mfaJobs EXCEPT ![j] = job],
           UNCHANGED <<cred, seeds, spent, replay>>,
           job.op # "enroll", job.op \in {"confirm", "totp"} => job.seed \in Nat /\ job.step \in Nat
    PROVE  MfaInv'
<1>1. mfaJobs'[j] = job /\ DOMAIN mfaJobs' = MfaSlots /\ \A i \in MfaSlots \ {j} : mfaJobs'[i] = mfaJobs[i]
  BY DEF MfaInv, MfaTypes
<1>2. MfaTypes'
  BY <1>1 DEF MfaInv, MfaTypes
<1>3. SeedsAreFresh'
  BY <1>1 DEF MfaInv, SeedsAreFresh, Enrolling
<1> QED BY <1>2, <1>3 DEF MfaInv, LastCoversSpent

\* A new seed is one more than all the others.
LEMMA EnrollKeeps ==
    ASSUME MfaInv, NEW j \in MfaSlots, StartEnroll(j)
    PROVE  MfaInv'
<1>1. /\ seeds' = seeds + 1 /\ seeds < MaxSeeds
      /\ mfaJobs' = [mfaJobs EXCEPT ![j] = [IdleHandler EXCEPT !.op = "enroll", !.seed = seeds + 1, !.read = Snapshot]]
      /\ UNCHANGED <<cred, spent, replay>>
  BY DEF StartEnroll, Start
<1>2. mfaJobs'[j].op = "enroll" /\ mfaJobs'[j].seed = seeds + 1 /\ DOMAIN mfaJobs' = MfaSlots
      /\ \A i \in MfaSlots \ {j} : mfaJobs'[i] = mfaJobs[i]
  BY <1>1 DEF MfaInv, MfaTypes, IdleHandler
<1>3. MfaTypes'
  BY <1>1, <1>2 DEF MfaInv, MfaTypes
<1>4. /\ seeds \in Nat /\ \A c \in cred : c.seed \in Nat /\ c.seed <= seeds
      /\ \A p \in spent : p[1] \in Nat /\ p[1] <= seeds
      /\ \A i \in MfaSlots : Enrolling(i) => mfaJobs[i].seed \in Nat /\ mfaJobs[i].seed <= seeds
  BY DEF MfaInv, MfaTypes, SeedsAreFresh, Credential
<1>5. SeedsAreFresh'
  <2>1. (\A c \in cred : c.seed # seeds + 1 /\ c.seed <= seeds + 1) /\ (\A p \in spent : p[1] # seeds + 1 /\ p[1] <= seeds + 1)
        /\ \A i \in MfaSlots : Enrolling(i) => mfaJobs[i].seed # seeds + 1 /\ mfaJobs[i].seed <= seeds + 1
    BY <1>4
  <2>2. seeds + 1 \in 1 .. MaxSeeds
    BY <1>1, <1>4, MfaAssumption
  <2>3. \A i \in MfaSlots \ {j} : (Enrolling(i)' <=> Enrolling(i)) /\ mfaJobs'[i] = mfaJobs[i]
    BY <1>2 DEF Enrolling
  <2>4. seeds + 1 <= seeds + 1
    BY <1>4
  <2> QED BY <1>1, <1>2, <2>1, <2>2, <2>3, <2>4 DEF MfaInv, SeedsAreFresh
<1> QED BY <1>1, <1>3, <1>5 DEF MfaInv, LastCoversSpent

\* The seed of a pending row was never used.
LEMMA SavePendingKeeps ==
    ASSUME MfaInv, NEW j \in MfaSlots, SavePending(j)
    PROVE  MfaInv'
<1>1. /\ Enrolling(j) /\ mfaJobs' = [mfaJobs EXCEPT ![j] = IdleHandler]
      /\ cred' = {[seed |-> mfaJobs[j].seed, enabled |-> FALSE, last |-> 0]}
      /\ UNCHANGED <<seeds, spent, replay>>
  BY DEF SavePending, Finish, Enrolling
<1>2. mfaJobs'[j].op = "none" /\ DOMAIN mfaJobs' = MfaSlots /\ \A i \in MfaSlots \ {j} : mfaJobs'[i] = mfaJobs[i]
  BY <1>1 DEF MfaInv, MfaTypes, IdleHandler
<1>3. mfaJobs[j].seed \in 1 .. MaxSeeds /\ mfaJobs[j].seed <= seeds /\ \A p \in spent : p[1] # mfaJobs[j].seed
  BY <1>1 DEF MfaInv, SeedsAreFresh
<1>4. MfaTypes'
  BY <1>1, <1>2, <1>3 DEF MfaInv, MfaTypes, Credential
<1>5. SeedsAreFresh'
  BY <1>1, <1>2, <1>3 DEF MfaInv, SeedsAreFresh, Enrolling
<1> QED BY <1>1, <1>3, <1>4, <1>5 DEF MfaInv, LastCoversSpent

\* A code that is accepted is beyond the steps that were accepted for its seed.
LEMMA AcceptKeeps ==
    ASSUME MfaInv, NEW j \in MfaSlots, mfaJobs[j].op \in {"confirm", "totp"}, NEW c \in cred,
           c.enabled => c.last < mfaJobs[j].step + 1,
           cred' = {[seed |-> c.seed, enabled |-> TRUE, last |-> mfaJobs[j].step + 1]},
           Spend(j), mfaJobs' = [mfaJobs EXCEPT ![j] = IdleHandler], UNCHANGED seeds
    PROVE  MfaInv'
<1> DEFINE pair == <<mfaJobs[j].seed, mfaJobs[j].step>>
<1>1. mfaJobs[j].seed \in Nat /\ mfaJobs[j].step \in Nat /\ c \in Credential /\ c.seed \in Nat /\ c.last \in Nat
  BY DEF MfaInv, MfaTypes, Credential
<1>2. mfaJobs'[j].op = "none" /\ DOMAIN mfaJobs' = MfaSlots /\ \A i \in MfaSlots \ {j} : mfaJobs'[i] = mfaJobs[i]
  BY DEF MfaInv, MfaTypes, IdleHandler
<1>3. spent' = spent \/ (spent' = spent \cup {pair} /\ mfaJobs[j].seed = c.seed)
  BY DEF Spend, MfaInv, MfaTypes
<1>4. \A p \in spent : p[1] \in Nat /\ p[2] \in Nat
  BY DEF MfaInv, MfaTypes
<1>5. \A p \in spent : p[1] = c.seed => p[2] + 1 < mfaJobs[j].step + 1
  BY <1>1, <1>4 DEF MfaInv, LastCoversSpent
<1>6. ~replay'
  <2>1. mfaJobs[j].seed = c.seed => pair \notin spent
    BY <1>1, <1>5
  <2>2. \A d \in cred : d = c
    BY DEF MfaInv, MfaTypes
  <2> QED BY <2>1, <2>2 DEF Spend, MfaInv
<1>7. MfaTypes'
  BY <1>1, <1>2, <1>3 DEF MfaInv, MfaTypes, Credential
<1>8. SeedsAreFresh'
  <2>1. c.seed <= seeds /\ \A p \in spent' : p[1] <= seeds
    BY <1>3 DEF MfaInv, SeedsAreFresh
  <2>2. \A i \in MfaSlots : Enrolling(i)' => i # j /\ Enrolling(i) /\ mfaJobs'[i] = mfaJobs[i]
    BY <1>2 DEF Enrolling
  <2>3. \A i \in MfaSlots : Enrolling(i) => \A p \in spent' : p[1] # mfaJobs[i].seed
    BY <1>3 DEF MfaInv, SeedsAreFresh
  <2> QED BY <2>1, <2>2, <2>3 DEF MfaInv, SeedsAreFresh
<1>9. LastCoversSpent'
  <2>1. \A p \in spent' : p[1] = c.seed => p[2] + 1 <= mfaJobs[j].step + 1
    BY <1>1, <1>3, <1>4, <1>5
  <2> QED BY <2>1 DEF LastCoversSpent
<1> QED BY <1>6, <1>7, <1>8, <1>9 DEF MfaInv

\* What a handler that starts has read, unless it enrolls.
ReadsCode(job) == job.op # "enroll" /\ (job.op \in {"confirm", "totp"} => job.seed \in Nat /\ job.step \in Nat)

\* A handler that reads the credential for a code or for a reset.
LEMMA StartsKeep ==
    ASSUME MfaInv, now \in Nat, NEW j \in MfaSlots, NEW t, StartConfirm(j) \/ StartVerify(j, t) \/ StartReset(j, t)
    PROVE  MfaInv'
<1>1. (\A k \in CodeSteps : k \in Nat) /\ \A c \in cred : c.seed \in Nat
  BY DEF CodeSteps, MfaInv, MfaTypes, Credential
<1>2. UNCHANGED seeds
  BY DEF StartConfirm, StartVerify, StartReset
<1>3. ASSUME NEW job, Start(j, job), ReadsCode(job)
      PROVE  MfaInv'
  BY <1>2, <1>3, SlotKeeps DEF Start, ReadsCode
<1>4. CASE StartConfirm(j)
  <2>1. PICK c \in cred, k \in CodeSteps :
          Start(j, [IdleHandler EXCEPT !.op = "confirm", !.seed = c.seed, !.step = k, !.read = Snapshot])
    BY <1>4 DEF StartConfirm
  <2>2. ReadsCode([IdleHandler EXCEPT !.op = "confirm", !.seed = c.seed, !.step = k, !.read = Snapshot])
    BY <1>1 DEF IdleHandler, ReadsCode
  <2> QED BY <1>3, <2>1, <2>2
<1>5. CASE StartVerify(j, t)
  <2>1. ASSUME NEW c \in cred, NEW k \in CodeSteps
        PROVE  ReadsCode([IdleHandler EXCEPT !.op = "totp", !.seed = c.seed, !.step = k,
                          !.token = t, !.until = now + RecentTime, !.read = Snapshot])
    BY <1>1, <2>1 DEF IdleHandler, ReadsCode
  <2>2. ASSUME NEW code \in recovery
        PROVE  ReadsCode([IdleHandler EXCEPT !.op = "recovery", !.code = code,
                          !.token = t, !.until = now + RecentTime, !.read = Snapshot])
    BY DEF IdleHandler, ReadsCode
  <2> QED BY <1>3, <1>5, <2>1, <2>2, Zenon DEF StartVerify
<1>6. CASE StartReset(j, t)
  <2>1. ReadsCode([IdleHandler EXCEPT !.op = "reset", !.token = t, !.read = Snapshot])
    BY DEF IdleHandler, ReadsCode
  <2> QED BY <1>3, <1>6, <2>1 DEF StartReset
<1> QED BY <1>4, <1>5, <1>6

\* A write that accepts no code.
LEMMA OtherWritesKeep ==
    ASSUME MfaInv, NEW j \in MfaSlots, ConsumeRecovery(j) \/ DeleteCredential(j) \/ Rejected(j)
    PROVE  MfaInv'
<1>1. mfaJobs' = [mfaJobs EXCEPT ![j] = IdleHandler] /\ UNCHANGED <<seeds, spent, replay>> /\ (cred' = cred \/ cred' = {})
  BY DEF ConsumeRecovery, DeleteCredential, Rejected, Finish
<1>2. IdleHandler.op = "none"
  BY DEF IdleHandler
<1>3. mfaJobs'[j].op = "none" /\ DOMAIN mfaJobs' = MfaSlots /\ \A i \in MfaSlots \ {j} : mfaJobs'[i] = mfaJobs[i]
  BY <1>1, <1>2 DEF MfaInv, MfaTypes
<1>4. MfaTypes'
  BY <1>1, <1>3 DEF MfaInv, MfaTypes
<1>5. SeedsAreFresh'
  BY <1>1, <1>3 DEF MfaInv, SeedsAreFresh, Enrolling
<1> QED BY <1>1, <1>4, <1>5 DEF MfaInv, LastCoversSpent

\* The clock only ticks.
ClockRuns == now \in Nat

\* The clock only runs forward.
LEMMA ClockKeeps ==
    ASSUME ClockRuns, [MfaNext]_<<now, mfaVars>>
    PROVE  ClockRuns'
<1>1. ASSUME NEW j, NEW t, StartEnroll(j) \/ StartConfirm(j) \/ StartVerify(j, t) \/ StartReset(j, t)
      PROVE  now' = now
  BY <1>1 DEF StartEnroll, StartConfirm, StartVerify, StartReset, Start
<1>2. ASSUME NEW j, SavePending(j) \/ Enable(j) \/ ConsumeTotp(j) \/ ConsumeRecovery(j) \/ DeleteCredential(j) \/ Rejected(j)
      PROVE  now' = now
  BY <1>2 DEF SavePending, Enable, ConsumeTotp, ConsumeRecovery, DeleteCredential, Rejected, Finish
<1>3. MfaNext => now' = now \/ MfaTick
  BY <1>1, <1>2, Zenon DEF MfaNext
<1>4. MfaTick => now' = now + 1
  BY DEF MfaTick, Advance
<1> QED BY <1>3, <1>4 DEF ClockRuns

\* A TOTP code of the stored seed is accepted once: consume_totp_step compares and
\* moves last_verified_step in one statement, and an enrollment stores a new seed.
THEOREM TotpSafe == MfaSpec => []TotpCodeUsedOnce
<1>1. now = 0 /\ MfaInit => ClockRuns /\ MfaInv
  <2> SUFFICES ASSUME now = 0, MfaInit PROVE ClockRuns /\ MfaInv
    OBVIOUS
  <2>1. cred = {} /\ seeds = 0 /\ spent = {} /\ replay = FALSE /\ mfaJobs = [j \in MfaSlots |-> IdleHandler] /\ IdleHandler.op = "none"
    BY DEF MfaInit, IdleHandler
  <2> QED BY <2>1 DEF MfaInv, MfaTypes, SeedsAreFresh, LastCoversSpent, Enrolling, ClockRuns
<1>2. ASSUME ClockRuns, MfaInv, [MfaNext]_<<now, mfaVars>>
      PROVE  ClockRuns' /\ MfaInv'
  <2>1. ASSUME NEW j \in MfaSlots, Enable(j)
        PROVE  MfaInv'
    <3>1. PICK c \in cred : ~c.enabled /\ cred' = {[seed |-> c.seed, enabled |-> TRUE, last |-> mfaJobs[j].step + 1]}
      BY <2>1 DEF Enable
    <3> QED BY <1>2, <2>1, <3>1, AcceptKeeps DEF Enable, Finish
  <2>2. ASSUME NEW j \in MfaSlots, ConsumeTotp(j)
        PROVE  MfaInv'
    <3>1. PICK c \in cred : c.last < mfaJobs[j].step + 1 /\ cred' = {[seed |-> c.seed, enabled |-> TRUE, last |-> mfaJobs[j].step + 1]}
      BY <2>2 DEF ConsumeTotp, StepIsFresh
    <3> QED BY <1>2, <2>2, <3>1, AcceptKeeps DEF ConsumeTotp, Finish
  <2>3. ASSUME MfaTick \/ UNCHANGED <<now, mfaVars>>
        PROVE  MfaInv'
    BY <1>2, <2>3 DEF MfaTick, mfaVars, MfaInv, MfaTypes, SeedsAreFresh, LastCoversSpent, Enrolling
  <2>4. now \in Nat
    BY <1>2 DEF ClockRuns
  <2>5. MfaInv'
    BY <1>2, <2>1, <2>2, <2>3, <2>4, EnrollKeeps, StartsKeep, SavePendingKeeps, OtherWritesKeep, Zenon DEF MfaNext
  <2> QED BY <1>2, <2>5, ClockKeeps
<1>3. MfaInv => TotpCodeUsedOnce
  BY DEF MfaInv, TotpCodeUsedOnce
<1> QED BY <1>1, <1>2, <1>3, PTL DEF MfaSpec

-----------------------------------------------------------------------------
\* What a handler read decides what it may write.
JobsFit ==
    \A j \in MfaSlots :
        /\ mfaJobs[j].op = "enroll" => \A x \in mfaJobs[j].read : ~x[2]
        /\ mfaJobs[j].op = "recovery" => \E x \in mfaJobs[j].read : x[2]
        /\ mfaJobs[j].op \in {"totp", "recovery"} => mfaJobs[j].until \in Nat

ProofTypes ==
    /\ \A c, d \in cred : c = d
    /\ DOMAIN mfaJobs = MfaSlots
    /\ recent \in [AccessTokens -> Nat]
    /\ overtaken \in BOOLEAN

FactorInv == ProofTypes /\ JobsFit /\ ProofsBelongToFactor

\* The snapshot tells whether the factor is enabled.
LEMMA SnapshotShows ==
    ASSUME MfaEnabled(cred)
    PROVE  \E x \in Snapshot : x[2]
<1>1. PICK c \in cred : c.enabled
  BY DEF MfaEnabled
<1>2. <<c.seed, c.enabled>> \in Snapshot
  BY DEF Snapshot
<1>3. <<c.seed, c.enabled>>[2]
  BY <1>1
<1> QED BY <1>2, <1>3, Zenon

\* A write on what was read finds the credential as it was.
LEMMA ReadIsCurrent ==
    ASSUME NEW j, Finish(j, TRUE), ~overtaken'
    PROVE  ~overtaken /\ mfaJobs[j].read = Snapshot
BY Zenon DEF Finish

\* What a slot holds after a handler starts or ends.
LEMMA SlotTypes ==
    ASSUME FactorInv, NEW j \in MfaSlots, NEW job, mfaJobs' = [mfaJobs EXCEPT ![j] = job],
           job.op = "enroll" => \A x \in job.read : ~x[2],
           job.op = "recovery" => \E x \in job.read : x[2],
           job.op \in {"totp", "recovery"} => job.until \in Nat
    PROVE  DOMAIN mfaJobs' = MfaSlots /\ JobsFit'
<1>1. mfaJobs'[j] = job /\ DOMAIN mfaJobs' = MfaSlots /\ \A i \in MfaSlots \ {j} : mfaJobs'[i] = mfaJobs[i]
  BY DEF FactorInv, ProofTypes
<1> QED BY <1>1 DEF FactorInv, JobsFit

\* A handler ends and its slot promises nothing.
LEMMA FreeSlot ==
    ASSUME FactorInv, NEW j \in MfaSlots, NEW wrote \in BOOLEAN, Finish(j, wrote)
    PROVE  DOMAIN mfaJobs' = MfaSlots /\ JobsFit' /\ overtaken' \in BOOLEAN /\ now' = now
<1>1. mfaJobs' = [mfaJobs EXCEPT ![j] = IdleHandler] /\ now' = now
  BY DEF Finish
<1>2. IdleHandler.op = "none"
  BY DEF IdleHandler
<1>3. overtaken' \in BOOLEAN
  BY Zenon DEF Finish, FactorInv, ProofTypes
<1> QED BY <1>1, <1>2, <1>3, SlotTypes

\* A handler that starts writes nothing.
LEMMA StartKeepsFactor ==
    ASSUME FactorInv, NEW j \in MfaSlots, NEW job, Start(j, job),
           job.op = "enroll" => \A x \in job.read : ~x[2],
           job.op = "recovery" => \E x \in job.read : x[2],
           job.op \in {"totp", "recovery"} => job.until \in Nat
    PROVE  FactorInv'
<1>1. mfaJobs' = [mfaJobs EXCEPT ![j] = job] /\ UNCHANGED <<now, cred, recovery, recent, overtaken>>
  BY DEF Start
<1>2. DOMAIN mfaJobs' = MfaSlots /\ JobsFit'
  BY <1>1, SlotTypes
<1> QED BY <1>1, <1>2 DEF FactorInv, ProofTypes, ProofsBelongToFactor, MfaEnabled

\* A handler that starts reads the factor as it is.
LEMMA StartsKeepFactor ==
    ASSUME FactorInv, now \in Nat, NEW j \in MfaSlots, NEW t,
           StartEnroll(j) \/ StartConfirm(j) \/ StartVerify(j, t) \/ StartReset(j, t)
    PROVE  FactorInv'
<1>0. now + RecentTime \in Nat
  BY MfaAssumption
<1>1. CASE StartEnroll(j)
  <2> DEFINE job == [IdleHandler EXCEPT !.op = "enroll", !.seed = seeds + 1, !.read = Snapshot]
  <2>1. Start(j, job) /\ ~MfaEnabled(cred)
    BY <1>1 DEF StartEnroll
  <2>2. job.op = "enroll" /\ job.read = Snapshot
    BY DEF IdleHandler
  <2>3. \A x \in Snapshot : ~x[2]
    BY <2>1 DEF Snapshot, MfaEnabled
  <2> HIDE DEF job
  <2> QED BY <2>1, <2>2, <2>3, StartKeepsFactor
<1>2. CASE StartConfirm(j)
  <2>1. PICK c \in cred, k \in CodeSteps :
          Start(j, [IdleHandler EXCEPT !.op = "confirm", !.seed = c.seed, !.step = k, !.read = Snapshot])
    BY <1>2 DEF StartConfirm
  <2> DEFINE job == [IdleHandler EXCEPT !.op = "confirm", !.seed = c.seed, !.step = k, !.read = Snapshot]
  <2>2. job.op = "confirm"
    BY DEF IdleHandler
  <2>3. Start(j, job)
    BY <2>1
  <2> HIDE DEF job
  <2> QED BY <2>2, <2>3, StartKeepsFactor
<1>3. CASE StartVerify(j, t)
  <2>1. PICK c \in cred :
          /\ c.enabled
          /\ \/ \E k \in CodeSteps :
                   Start(j, [IdleHandler EXCEPT !.op = "totp", !.seed = c.seed, !.step = k,
                             !.token = t, !.until = now + RecentTime, !.read = Snapshot])
             \/ \E code \in recovery :
                   Start(j, [IdleHandler EXCEPT !.op = "recovery", !.code = code,
                             !.token = t, !.until = now + RecentTime, !.read = Snapshot])
    BY <1>3 DEF StartVerify
  <2>2. \E x \in Snapshot : x[2]
    BY <2>1, SnapshotShows DEF MfaEnabled
  <2>3. ASSUME NEW k \in CodeSteps,
               Start(j, [IdleHandler EXCEPT !.op = "totp", !.seed = c.seed, !.step = k,
                         !.token = t, !.until = now + RecentTime, !.read = Snapshot])
        PROVE  FactorInv'
    <3> DEFINE job == [IdleHandler EXCEPT !.op = "totp", !.seed = c.seed, !.step = k,
                       !.token = t, !.until = now + RecentTime, !.read = Snapshot]
    <3>1. job.op = "totp" /\ job.until = now + RecentTime
      BY DEF IdleHandler
    <3>2. Start(j, job)
      BY <2>3
    <3> HIDE DEF job
    <3> QED BY <1>0, <3>1, <3>2, StartKeepsFactor
  <2>4. ASSUME NEW code \in recovery,
               Start(j, [IdleHandler EXCEPT !.op = "recovery", !.code = code,
                         !.token = t, !.until = now + RecentTime, !.read = Snapshot])
        PROVE  FactorInv'
    <3> DEFINE job == [IdleHandler EXCEPT !.op = "recovery", !.code = code,
                       !.token = t, !.until = now + RecentTime, !.read = Snapshot]
    <3>1. job.op = "recovery" /\ job.until = now + RecentTime /\ job.read = Snapshot
      BY DEF IdleHandler
    <3>2. Start(j, job)
      BY <2>4
    <3> HIDE DEF job
    <3> QED BY <1>0, <2>2, <3>1, <3>2, StartKeepsFactor
  <2> QED BY <2>1, <2>3, <2>4
<1>4. CASE StartReset(j, t)
  <2> DEFINE job == [IdleHandler EXCEPT !.op = "reset", !.token = t, !.read = Snapshot]
  <2>1. job.op = "reset" /\ Start(j, job)
    BY <1>4 DEF IdleHandler, StartReset
  <2> HIDE DEF job
  <2> QED BY <2>1, StartKeepsFactor
<1> QED BY <1>1, <1>2, <1>3, <1>4

\* Enrollment replaces a credential that was not in force, so no proof was.
LEMMA PendingKeepsFactor ==
    ASSUME FactorInv, NEW j \in MfaSlots, SavePending(j)
    PROVE  FactorInv'
<1>1. /\ mfaJobs[j].op = "enroll" /\ Finish(j, TRUE) /\ UNCHANGED <<recovery, recent>>
      /\ cred' = {[seed |-> mfaJobs[j].seed, enabled |-> FALSE, last |-> 0]}
  BY DEF SavePending
<1>2. DOMAIN mfaJobs' = MfaSlots /\ JobsFit' /\ overtaken' \in BOOLEAN /\ now' = now
  BY <1>1, FreeSlot
<1>3. ProofTypes'
  BY <1>1, <1>2 DEF FactorInv, ProofTypes
<1>4. ~overtaken' => ~overtaken /\ ~MfaEnabled(cred)
  <2>1. \A x \in mfaJobs[j].read : ~x[2]
    BY <1>1 DEF FactorInv, JobsFit
  <2>2. MfaEnabled(cred) => \E x \in Snapshot : x[2]
    BY SnapshotShows
  <2> QED BY <1>1, <2>1, <2>2, ReadIsCurrent
<1>5. ProofsBelongToFactor'
  BY <1>1, <1>2, <1>4 DEF FactorInv, ProofsBelongToFactor, MfaEnabled
<1> QED BY <1>2, <1>3, <1>5 DEF FactorInv

\* A confirmed enrollment enables the factor and replaces the recovery codes.
LEMMA EnableKeepsFactor ==
    ASSUME FactorInv, NEW j \in MfaSlots, Enable(j)
    PROVE  FactorInv'
<1>1. PICK c \in cred : /\ cred' = {[seed |-> c.seed, enabled |-> TRUE, last |-> mfaJobs[j].step + 1]}
                        /\ recovery' = ReplaceRecoveryCodes(c.seed)
  BY DEF Enable
<1>2. Finish(j, TRUE) /\ UNCHANGED recent
  BY DEF Enable
<1>3. DOMAIN mfaJobs' = MfaSlots /\ JobsFit' /\ overtaken' \in BOOLEAN /\ now' = now
  BY <1>2, FreeSlot
<1>4. ProofTypes'
  BY <1>1, <1>2, <1>3 DEF FactorInv, ProofTypes
<1>5. ProofsBelongToFactor'
  BY <1>1, <1>2 DEF ProofsBelongToFactor, MfaEnabled, ReplaceRecoveryCodes
<1> QED BY <1>3, <1>4, <1>5 DEF FactorInv

\* A proof is saved while the credential is in force.
LEMMA VerifyKeepsFactor ==
    ASSUME FactorInv, NEW j \in MfaSlots, ConsumeTotp(j) \/ ConsumeRecovery(j)
    PROVE  FactorInv'
<1>1. Finish(j, TRUE) /\ SaveRecent(j) /\ recovery' \subseteq recovery /\ mfaJobs[j].op \in {"totp", "recovery"}
  BY DEF ConsumeTotp, ConsumeRecovery
<1>2. DOMAIN mfaJobs' = MfaSlots /\ JobsFit' /\ overtaken' \in BOOLEAN /\ now' = now
  BY <1>1, FreeSlot
<1>3. recent' \in [AccessTokens -> Nat]
  BY <1>1 DEF SaveRecent, FactorInv, ProofTypes, JobsFit
<1>4. CASE ConsumeTotp(j)
  <2>1. PICK c \in cred : c.enabled /\ cred' = {[seed |-> c.seed, enabled |-> TRUE, last |-> mfaJobs[j].step + 1]}
    BY <1>4 DEF ConsumeTotp, StepIsFresh
  <2>2. ProofTypes'
    BY <1>2, <1>3, <2>1 DEF ProofTypes
  <2>3. ~overtaken' => ~overtaken
    BY <1>1, ReadIsCurrent
  <2>4. ProofsBelongToFactor'
    BY <1>1, <2>1, <2>3 DEF FactorInv, ProofsBelongToFactor, MfaEnabled
  <2> QED BY <1>2, <2>2, <2>4 DEF FactorInv
<1>5. CASE ConsumeRecovery(j)
  <2>1. UNCHANGED cred /\ mfaJobs[j].op = "recovery"
    BY <1>5 DEF ConsumeRecovery
  <2>2. ProofTypes'
    BY <1>2, <1>3, <2>1 DEF FactorInv, ProofTypes
  <2>3. ~overtaken' => ~overtaken /\ MfaEnabled(cred)
    <3>1. PICK x \in mfaJobs[j].read : x[2]
      BY <2>1 DEF FactorInv, JobsFit
    <3>2. x \in Snapshot => MfaEnabled(cred)
      BY <3>1 DEF Snapshot, MfaEnabled
    <3> QED BY <1>1, <3>2, ReadIsCurrent
  <2>4. ProofsBelongToFactor'
    BY <1>1, <2>1, <2>3 DEF FactorInv, ProofsBelongToFactor, MfaEnabled
  <2> QED BY <1>2, <2>2, <2>4 DEF FactorInv
<1> QED BY <1>4, <1>5

\* A reset removes the credential and every proof made with it.
LEMMA ResetKeepsFactor ==
    ASSUME FactorInv, now \in Nat, NEW j \in MfaSlots, DeleteCredential(j)
    PROVE  FactorInv'
<1>1. Finish(j, TRUE) /\ cred' = {} /\ recent' = [t \in AccessTokens |-> 0]
  BY DEF DeleteCredential
<1>2. DOMAIN mfaJobs' = MfaSlots /\ JobsFit' /\ overtaken' \in BOOLEAN /\ now' = now
  BY <1>1, FreeSlot
<1>3. ProofTypes'
  BY <1>1, <1>2 DEF ProofTypes
<1>4. \A t \in AccessTokens : ~(recent'[t] > now')
  BY <1>1, <1>2
<1>5. ProofsBelongToFactor'
  BY <1>1, <1>4 DEF ProofsBelongToFactor
<1> QED BY <1>2, <1>3, <1>5 DEF FactorInv

\* A rejected code changes nothing.
LEMMA RejectedKeepsFactor ==
    ASSUME FactorInv, NEW j \in MfaSlots, Rejected(j)
    PROVE  FactorInv'
<1>1. Finish(j, FALSE) /\ UNCHANGED <<cred, recovery, recent>>
  BY DEF Rejected
<1>2. DOMAIN mfaJobs' = MfaSlots /\ JobsFit' /\ overtaken' \in BOOLEAN /\ now' = now
  BY <1>1, FreeSlot
<1>3. ~overtaken' => ~overtaken
  BY <1>1, Zenon DEF Finish
<1> QED BY <1>1, <1>2, <1>3 DEF FactorInv, ProofTypes, ProofsBelongToFactor, MfaEnabled

\* Time changes no factor.
LEMMA TickKeepsFactor ==
    ASSUME FactorInv, now \in Nat, MfaTick
    PROVE  FactorInv'
<1>1. now' = now + 1 /\ UNCHANGED <<cred, recovery, recent, mfaJobs, overtaken>>
  BY DEF MfaTick, Advance, mfaVars
<1>2. \A t \in AccessTokens : recent[t] > now' => recent[t] > now
  BY <1>1 DEF FactorInv, ProofTypes
<1>3. ProofsBelongToFactor'
  BY <1>1, <1>2 DEF FactorInv, ProofsBelongToFactor, MfaEnabled
<1> QED BY <1>1, <1>3 DEF FactorInv, ProofTypes, JobsFit

\* A proof of a recent factor is of the factor in force, and so are the recovery
\* codes, for any number of handlers and tokens: delete_totp_credential ends the
\* proofs and enable_totp_credential_with_recovery_codes replaces the codes.
THEOREM FactorSafe == MfaSpec => []ProofsBelongToFactor
<1>1. now = 0 /\ MfaInit => ClockRuns /\ FactorInv
  <2> SUFFICES ASSUME now = 0, MfaInit PROVE ClockRuns /\ FactorInv
    OBVIOUS
  <2>1. /\ cred = {} /\ recent = [t \in AccessTokens |-> 0] /\ overtaken = FALSE
        /\ mfaJobs = [j \in MfaSlots |-> IdleHandler] /\ IdleHandler.op = "none"
    BY DEF MfaInit, IdleHandler
  <2>2. \A t \in AccessTokens : ~(recent[t] > now)
    BY <2>1
  <2> QED BY <2>1, <2>2 DEF FactorInv, ProofTypes, JobsFit, ProofsBelongToFactor, ClockRuns
<1>2. ASSUME ClockRuns, FactorInv, [MfaNext]_<<now, mfaVars>>
      PROVE  ClockRuns' /\ FactorInv'
  <2>1. now \in Nat
    BY <1>2 DEF ClockRuns
  <2>2. ASSUME UNCHANGED <<now, mfaVars>>
        PROVE  FactorInv'
    BY <1>2, <2>2 DEF mfaVars, FactorInv, ProofTypes, JobsFit, ProofsBelongToFactor, MfaEnabled
  <2>3. FactorInv'
    BY <1>2, <2>1, <2>2, StartsKeepFactor, PendingKeepsFactor, EnableKeepsFactor, VerifyKeepsFactor, ResetKeepsFactor,
       RejectedKeepsFactor, TickKeepsFactor, Zenon DEF MfaNext
  <2> QED BY <1>2, <2>3, ClockKeeps
<1>3. FactorInv => ProofsBelongToFactor
  BY DEF FactorInv
<1> QED BY <1>1, <1>2, <1>3, PTL DEF MfaSpec

-----------------------------------------------------------------------------
(* Customer support *)

Conditions == {"grant", "org", "staff"}
SupportJwt == [who : Staff, grant : Grants, org : Customers, ops : SUBSET ReadOps, exp : Nat]
RequestStep ==
    {"none", "grant", "org", "staff", "decide", "fetch", "disclose", "deny", "answered", "refused", "failed"}
SupportRequest ==
    [step : RequestStep, kind : {"exchange", "read", None}, who : Staff \cup {None}, jwt : SupportJwt \cup {None},
     path : Customers \cup {None}, op : ReadOps \cup {None}, second : BOOLEAN, seen : SUBSET Conditions]

SupportTypes ==
    /\ now \in Nat /\ started \in Nat
    /\ grants \in [Grants -> GrantRow \cup {None}]
    /\ customers \in [Customers -> BOOLEAN]
    /\ requests \in [Request -> SupportRequest]
    /\ supportJwts \subseteq SupportJwt

\* What the table says of a request's grant.
GrantMatches(r) == grants[r.jwt.grant].who = r.who /\ grants[r.jwt.grant].org = r.jwt.org

\* A request that has begun is about a grant that exists, and has seen whatever
\* holds now.
BegunWell(r) ==
    r.step # "none" =>
        /\ r.kind \in {"exchange", "read"} /\ r.jwt \in SupportJwt /\ r.who \in Staff
        /\ grants[r.jwt.grant] # None
        /\ Holding(r, customers, staff) \subseteq r.seen

\* What a request has passed by the time it is at its step.
Passed(r) ==
    /\ r.step \in {"org", "staff", "decide"} => "grant" \in r.seen /\ GrantMatches(r)
    /\ r.step \in {"staff", "decide"} => "org" \in r.seen
    /\ r.step = "decide" => "staff" \in r.seen
    /\ r.second => r.step # "none" /\ r.seen = Conditions /\ GrantMatches(r) /\ r.path = r.jwt.org
    /\ r.step \in {"fetch", "disclose"} => r.kind = "read"
    /\ r.step \in {"fetch", "disclose", "answered"} /\ r.kind = "read" => r.second /\ r.op \in grants[r.jwt.grant].ops

\* A token is about a grant that exists and ends with it.
TokensEnd == \A t \in supportJwts : grants[t.grant] # None /\ t.exp <= grants[t.grant].expires

GrantsAreAudited ==
    \A g \in Grants :
        /\ grants[g] # None <=> Audit(0, g, "created", "allow") \in audits
        /\ grants[g] # None /\ grants[g].revoked <=> Audit(0, g, "revoked", "allow") \in audits

AnswersAreAudited ==
    \A i \in Request :
        /\ At(i, "answered") => Audit(i, requests[i].jwt.grant, Event(requests[i]), "allow") \in audits
        /\ At(i, "refused") => Audit(i, requests[i].jwt.grant, Event(requests[i]), "deny") \in audits

SupportInv ==
    /\ SupportTypes
    /\ \A i \in Request : BegunWell(requests[i]) /\ Passed(requests[i])
    /\ TokensEnd /\ GrantsAreAudited /\ AnswersAreAudited

-----------------------------------------------------------------------------
\* The conditions, one by one.
LEMMA HoldingFacts ==
    ASSUME NEW r, NEW active, NEW eligible
    PROVE  /\ "grant" \in Holding(r, active, eligible) <=> GrantIsLive(r.jwt.grant)
           /\ "org" \in Holding(r, active, eligible) <=> active[r.jwt.org]
           /\ "staff" \in Holding(r, active, eligible) <=> eligible[r.who] = Full
           /\ Holding(r, active, eligible) \subseteq Conditions
<1> DEFINE Holds(c) == CASE c = "grant" -> GrantIsLive(r.jwt.grant)
                         [] c = "org"   -> active[r.jwt.org]
                         [] OTHER       -> eligible[r.who] = Full
<1>1. Holding(r, active, eligible) = {c \in Conditions : Holds(c)}
  BY DEF Holding, Conditions
<1>2. (Holds("grant") <=> GrantIsLive(r.jwt.grant)) /\ (Holds("org") <=> active[r.jwt.org]) /\ (Holds("staff") <=> eligible[r.who] = Full)
  OBVIOUS
<1> HIDE DEF Holds
<1> QED BY <1>1, <1>2 DEF Conditions

\* Grants are created once, and then only revoked.
GrantsGrow ==
    \A g \in Grants : grants[g] # None =>
        /\ grants'[g] # None
        /\ grants'[g].who = grants[g].who /\ grants'[g].org = grants[g].org
        /\ grants'[g].ops = grants[g].ops /\ grants'[g].expires = grants[g].expires
        /\ grants[g].revoked => grants'[g].revoked

\* A grant that is live was live before.
LEMMA LiveShrinks ==
    ASSUME SupportTypes, GrantsGrow, NEW g \in Grants, grants[g] # None, now' \in Nat, now <= now', GrantIsLive(g)'
    PROVE  GrantIsLive(g)
<1>1. grants[g] \in GrantRow /\ grants[g].expires \in Nat /\ now \in Nat
  BY DEF SupportTypes, GrantRow
<1>2. grants'[g].expires = grants[g].expires /\ (grants[g].revoked => grants'[g].revoked)
  BY DEF GrantsGrow
<1>3. ~grants'[g].revoked /\ grants'[g].expires > now'
  BY DEF GrantIsLive
<1>4. ~grants[g].revoked
  BY <1>2, <1>3
<1> QED BY <1>1, <1>2, <1>3, <1>4 DEF GrantIsLive

\* A request that is left alone, or only sees more, stays as good as it was.
LEMMA RequestStays ==
    ASSUME SupportTypes, GrantsGrow, now' \in Nat, now <= now', NEW r \in SupportRequest, NEW s \in SupportRequest,
           BegunWell(r), r.step # "none",
           s.kind = r.kind, s.who = r.who, s.jwt = r.jwt, r.seen \subseteq s.seen,
           customers' = customers \/ (customers'[r.jwt.org] => "org" \in s.seen),
           staff' = staff \/ (staff'[r.who] = Full => "staff" \in s.seen)
    PROVE  /\ BegunWell(s)'
           /\ Passed(r) /\ s.step = r.step /\ s.second = r.second /\ s.path = r.path /\ s.op = r.op => Passed(s)'
<1>1. r.jwt \in SupportJwt /\ r.jwt.grant \in Grants /\ grants[r.jwt.grant] # None /\ r.kind \in {"exchange", "read"} /\ r.who \in Staff
      /\ Holding(r, customers, staff) \subseteq r.seen
  BY DEF BegunWell, SupportJwt
<1>2. /\ GrantIsLive(r.jwt.grant)' => "grant" \in s.seen
      /\ customers'[r.jwt.org] => "org" \in s.seen
      /\ staff'[r.who] = Full => "staff" \in s.seen
  BY <1>1, LiveShrinks, HoldingFacts
<1>3. grants'[r.jwt.grant] # None /\ grants'[r.jwt.grant].who = grants[r.jwt.grant].who
      /\ grants'[r.jwt.grant].org = grants[r.jwt.grant].org /\ grants'[r.jwt.grant].ops = grants[r.jwt.grant].ops
  BY <1>1 DEF GrantsGrow
<1>4. Holding(s, customers, staff)' \subseteq s.seen
  <2>1. \A c \in Holding(s, customers, staff)' : c \in Conditions
    BY DEF Holding, Conditions
  <2>2. /\ "grant" \in Holding(s, customers, staff)' <=> GrantIsLive(s.jwt.grant)'
        /\ "org" \in Holding(s, customers, staff)' <=> customers'[s.jwt.org]
        /\ "staff" \in Holding(s, customers, staff)' <=> staff'[s.who] = Full
    BY DEF Holding, Conditions
  <2> QED BY <1>2, <2>1, <2>2 DEF Conditions
<1>5. BegunWell(s)'
  BY <1>1, <1>3, <1>4 DEF BegunWell
<1>6. ASSUME Passed(r), s.step = r.step, s.second = r.second, s.path = r.path, s.op = r.op
      PROVE  Passed(s)'
  <2>1. r.seen = Conditions => s.seen = Conditions
    BY DEF SupportRequest
  <2> QED BY <1>3, <1>6, <2>1 DEF Passed, GrantMatches
<1> QED BY <1>5, <1>6

\* Requests that a step does not touch stay as good as they were.
LEMMA UntouchedRequests ==
    ASSUME SupportInv, GrantsGrow, now' \in Nat, now <= now', UNCHANGED <<customers, staff, requests>>
    PROVE  \A i \in Request : BegunWell(requests[i])' /\ Passed(requests[i])'
<1> SUFFICES ASSUME NEW i \in Request
             PROVE  BegunWell(requests[i])' /\ Passed(requests[i])'
  OBVIOUS
<1>1. PICK r : r = requests[i] /\ r = requests'[i]
  OBVIOUS
<1>2. r \in SupportRequest /\ BegunWell(r) /\ Passed(r) /\ SupportTypes
  BY <1>1 DEF SupportInv, SupportTypes
<1>3. CASE r.step # "none"
  BY <1>1, <1>2, <1>3, RequestStays
<1>4. CASE r.step = "none"
  BY <1>1, <1>2, <1>4 DEF BegunWell, Passed
<1> QED BY <1>3, <1>4

\* The grants, the organizations and the staff stay.
LEMMA NoGrantChanges ==
    ASSUME SupportTypes, UNCHANGED grants
    PROVE  GrantsGrow
BY DEF SupportTypes, GrantsGrow

\* What To does.
LEMMA ToFacts ==
    ASSUME SupportTypes, NEW i \in Request, NEW step \in RequestStep, To(i, step)
    PROVE  /\ requests' \in [Request -> SupportRequest]
           /\ \A j \in Request \ {i} : requests'[j] = requests[j]
           /\ requests'[i].step = step /\ requests'[i].kind = requests[i].kind /\ requests'[i].who = requests[i].who
           /\ requests'[i].jwt = requests[i].jwt /\ requests'[i].path = requests[i].path /\ requests'[i].op = requests[i].op
           /\ requests'[i].second = requests[i].second /\ requests'[i].seen = requests[i].seen
           /\ UNCHANGED <<now, grants, customers, staff, started>>
<1>1. requests' = [requests EXCEPT ![i].step = step] /\ UNCHANGED <<now, grants, customers, staff, started>>
  BY DEF To
<1>2. requests[i] \in SupportRequest
  BY DEF SupportTypes
<1> QED BY <1>1, <1>2 DEF SupportTypes, SupportRequest

\* One request goes on, to a step whose conditions it has passed.
LEMMA RequestGoesOn ==
    ASSUME SupportInv, NEW i \in Request, requests[i].step # "none",
           requests' \in [Request -> SupportRequest],
           \A j \in Request \ {i} : requests'[j] = requests[j],
           requests'[i].kind = requests[i].kind, requests'[i].who = requests[i].who, requests'[i].jwt = requests[i].jwt,
           requests'[i].seen = requests[i].seen,
           UNCHANGED <<now, grants, customers, staff, started>>,
           Passed(requests[i])'
    PROVE  \A j \in Request : BegunWell(requests[j])' /\ Passed(requests[j])'
<1> SUFFICES ASSUME NEW j \in Request
             PROVE  BegunWell(requests[j])' /\ Passed(requests[j])'
  OBVIOUS
<1>1. PICK r, s : r = requests[j] /\ s = requests'[j]
  OBVIOUS
<1>2. r \in SupportRequest /\ s \in SupportRequest /\ BegunWell(r) /\ Passed(r) /\ SupportTypes /\ now \in Nat
  BY <1>1 DEF SupportInv, SupportTypes
<1>3. GrantsGrow /\ now' \in Nat /\ now <= now'
  BY <1>2, NoGrantChanges
<1>4. CASE j = i
  <2>1. BegunWell(s)'
    BY <1>1, <1>2, <1>3, <1>4, RequestStays
  <2> QED BY <1>1, <1>4, <2>1
<1>5. CASE j # i /\ r.step # "none"
  BY <1>1, <1>2, <1>3, <1>5, RequestStays
<1>6. CASE j # i /\ r.step = "none"
  BY <1>1, <1>2, <1>6 DEF BegunWell, Passed
<1> QED BY <1>4, <1>5, <1>6

\* A step that writes no audit row and ends no request.
LEMMA QuietStepKeeps ==
    ASSUME SupportInv, NEW i \in Request, requests[i].step # "none",
           requests' \in [Request -> SupportRequest],
           \A j \in Request \ {i} : requests'[j] = requests[j],
           requests'[i].kind = requests[i].kind, requests'[i].who = requests[i].who, requests'[i].jwt = requests[i].jwt,
           requests'[i].seen = requests[i].seen,
           UNCHANGED <<now, grants, customers, staff, started, supportJwts, audits>>,
           Passed(requests[i])', requests'[i].step \notin {"answered", "refused"}
    PROVE  SupportInv'
<1>1. \A j \in Request : BegunWell(requests[j])' /\ Passed(requests[j])'
  BY RequestGoesOn
<1>2. SupportTypes'
  BY DEF SupportInv, SupportTypes
<1>3. AnswersAreAudited'
  BY DEF SupportInv, AnswersAreAudited, At, Event
<1> QED BY <1>1, <1>2, <1>3 DEF SupportInv, TokensEnd, GrantsAreAudited

\* The same, for a step taken with To.
LEMMA QuietToKeeps ==
    ASSUME SupportInv, NEW i \in Request, NEW step \in RequestStep \ {"answered", "refused"}, To(i, step), requests[i].step # "none",
           UNCHANGED <<supportJwts, audits>>, Passed(requests[i])'
    PROVE  SupportInv'
<1>1. SupportTypes
  BY DEF SupportInv
<1> QED BY <1>1, ToFacts, QuietStepKeeps

-----------------------------------------------------------------------------
(* The checks of a request *)

\* Giving up, where nothing else has to hold.
LEMMA EndIsPassed ==
    ASSUME SupportInv, NEW i \in Request, NEW step \in {"grant", "deny", "refused", "failed"}, To(i, step), requests[i].step # "none"
    PROVE  Passed(requests[i])'
<1>1. Passed(requests[i]) /\ SupportTypes
  BY DEF SupportInv
<1>2. step \in RequestStep
  BY DEF RequestStep
<1> QED BY <1>1, <1>2, ToFacts DEF Passed, GrantMatches

\* The grant is live when the request passes it, so the request has seen it live.
LEMMA CheckGrantKeeps ==
    ASSUME SupportInv, NEW i \in Request, CheckGrant(i)
    PROVE  SupportInv'
<1>1. requests[i].step = "grant" /\ UNCHANGED <<supportJwts, audits>>
  BY DEF CheckGrant, At
<1>2. CASE To(i, "deny")
  BY <1>1, <1>2, EndIsPassed, QuietToKeeps DEF RequestStep
<1>3. CASE To(i, "org") /\ Matches(requests[i])
  <2>1. Passed(requests[i]) /\ SupportTypes /\ BegunWell(requests[i])
    BY DEF SupportInv
  <2>2. GrantMatches(requests[i]) /\ "grant" \in requests[i].seen
    BY <1>1, <1>3, <2>1, HoldingFacts DEF Matches, GrantMatches, BegunWell
  <2>3. "org" \in RequestStep
    BY DEF RequestStep
  <2>4. Passed(requests[i])'
    BY <1>3, <2>1, <2>2, <2>3, ToFacts DEF Passed, GrantMatches
  <2> QED BY <1>1, <1>3, <2>3, <2>4, QuietToKeeps
<1> QED BY <1>2, <1>3 DEF CheckGrant

\* The same for the organization.
LEMMA CheckCustomerKeeps ==
    ASSUME SupportInv, NEW i \in Request, CheckCustomer(i)
    PROVE  SupportInv'
<1>1. requests[i].step = "org" /\ UNCHANGED <<supportJwts, audits>>
  BY DEF CheckCustomer, At
<1>2. CASE To(i, "deny")
  BY <1>1, <1>2, EndIsPassed, QuietToKeeps DEF RequestStep
<1>3. CASE To(i, "staff") /\ customers[requests[i].jwt.org]
  <2>1. Passed(requests[i]) /\ SupportTypes /\ BegunWell(requests[i])
    BY DEF SupportInv
  <2>2. "org" \in requests[i].seen
    BY <1>1, <1>3, <2>1, HoldingFacts DEF BegunWell
  <2>3. "staff" \in RequestStep
    BY DEF RequestStep
  <2>4. Passed(requests[i])'
    BY <1>1, <1>3, <2>1, <2>2, <2>3, ToFacts DEF Passed, GrantMatches
  <2> QED BY <1>1, <1>3, <2>3, <2>4, QuietToKeeps
<1> QED BY <1>2, <1>3 DEF CheckCustomer

\* The same for the user.
LEMMA CheckStaffKeeps ==
    ASSUME SupportInv, NEW i \in Request, CheckStaff(i)
    PROVE  SupportInv'
<1>1. requests[i].step = "staff" /\ UNCHANGED <<supportJwts, audits>>
  BY DEF CheckStaff, At
<1>2. CASE To(i, "deny")
  BY <1>1, <1>2, EndIsPassed, QuietToKeeps DEF RequestStep
<1>3. CASE To(i, "decide") /\ staff[requests[i].who] = Full
  <2>1. Passed(requests[i]) /\ SupportTypes /\ BegunWell(requests[i])
    BY DEF SupportInv
  <2>2. "staff" \in requests[i].seen
    BY <1>1, <1>3, <2>1, HoldingFacts DEF BegunWell
  <2>3. "decide" \in RequestStep
    BY DEF RequestStep
  <2>4. Passed(requests[i])'
    BY <1>1, <1>3, <2>1, <2>2, <2>3, ToFacts DEF Passed, GrantMatches
  <2> QED BY <1>1, <1>3, <2>3, <2>4, QuietToKeeps
<1> QED BY <1>2, <1>3 DEF CheckStaff

\* The first live check is over when the scope is compared, the second when the
\* operation is.
LEMMA DecideKeeps ==
    ASSUME SupportInv, NEW i \in Request, Decide(i)
    PROVE  SupportInv'
<1>1. requests[i].step = "decide" /\ requests[i].kind = "read" /\ UNCHANGED <<supportJwts, audits>>
  BY DEF Decide, At
<1>2. Passed(requests[i]) /\ SupportTypes /\ BegunWell(requests[i]) /\ requests[i] \in SupportRequest
  BY DEF SupportInv, SupportTypes
<1>3. requests[i].seen = Conditions /\ GrantMatches(requests[i])
  BY <1>1, <1>2 DEF Passed, Conditions, SupportRequest
<1>4. CASE To(i, "deny")
  BY <1>1, <1>4, EndIsPassed, QuietToKeeps DEF RequestStep
<1>5. CASE To(i, "fetch") /\ requests[i].second /\ requests[i].op \in grants[requests[i].jwt.grant].ops
  <2>1. "fetch" \in RequestStep
    BY DEF RequestStep
  <2>2. Passed(requests[i])'
    BY <1>1, <1>2, <1>3, <1>5, <2>1, ToFacts DEF Passed, GrantMatches
  <2> QED BY <1>1, <1>5, <2>1, <2>2, QuietToKeeps
<1>6. CASE /\ requests[i].path = requests[i].jwt.org
           /\ requests' = [requests EXCEPT ![i] = [requests[i] EXCEPT !.step = "grant", !.second = TRUE]]
           /\ UNCHANGED <<now, grants, customers, staff, approver, started, changes>>
  <2> DEFINE r == [requests[i] EXCEPT !.step = "grant", !.second = TRUE]
  <2>1. /\ r \in SupportRequest /\ r.step = "grant" /\ r.second /\ r.kind = requests[i].kind /\ r.who = requests[i].who
        /\ r.jwt = requests[i].jwt /\ r.path = requests[i].path /\ r.op = requests[i].op /\ r.seen = requests[i].seen
    BY <1>2 DEF SupportRequest, RequestStep
  <2> HIDE DEF r
  <2>2. requests' = [requests EXCEPT ![i] = r]
    BY <1>6 DEF r
  <2>3. requests' \in [Request -> SupportRequest] /\ (\A j \in Request \ {i} : requests'[j] = requests[j]) /\ requests'[i] = r
    BY <1>2, <2>1, <2>2 DEF SupportTypes
  <2>4. Passed(requests[i])'
    BY <1>3, <1>6, <2>1, <2>3 DEF Passed, GrantMatches
  <2> QED BY <1>1, <1>6, <2>1, <2>3, <2>4, QuietStepKeeps
<1> QED BY <1>4, <1>5, <1>6 DEF Decide

-----------------------------------------------------------------------------
(* Answers *)

\* The row and the end of the request.
LEMMA RecordKeeps ==
    ASSUME SupportInv, NEW i \in Request, requests[i].step # "none",
           NEW outcome, NEW answer, <<outcome, answer>> \in {<<"allow", "answered">>, <<"deny", "refused">>},
           Record(i, outcome, answer), Passed(requests[i])', supportJwts' \subseteq SupportJwt, TokensEnd'
    PROVE  SupportInv'
<1>1. PICK written \in BOOLEAN, end \in {answer, "failed"} :
        /\ end = answer => written
        /\ To(i, end)
        /\ audits' = IF written THEN audits \cup {Audit(i, requests[i].jwt.grant, Event(requests[i]), outcome)} ELSE audits
  BY DEF Record
<1>2. end \in RequestStep /\ SupportTypes
  BY DEF RequestStep, SupportInv
<1>3. /\ requests' \in [Request -> SupportRequest]
      /\ \A j \in Request \ {i} : requests'[j] = requests[j]
      /\ requests'[i].step = end /\ requests'[i].kind = requests[i].kind /\ requests'[i].who = requests[i].who
      /\ requests'[i].jwt = requests[i].jwt /\ requests'[i].op = requests[i].op /\ requests'[i].seen = requests[i].seen
      /\ UNCHANGED <<now, grants, customers, staff, started>>
  BY <1>1, <1>2, ToFacts
<1>4. \A j \in Request : BegunWell(requests[j])' /\ Passed(requests[j])'
  BY <1>3, RequestGoesOn
<1>5. SupportTypes'
  BY <1>2, <1>3 DEF SupportTypes
<1>6. \A g, event, o : Audit(0, g, event, o) \in audits' <=> Audit(0, g, event, o) \in audits
  <2>1. i # 0
    BY SupportAssumption DEF Request
  <2> QED BY <1>1, <2>1 DEF Audit
<1>7. GrantsAreAudited'
  BY <1>3, <1>6 DEF SupportInv, GrantsAreAudited
<1>8. AnswersAreAudited'
  <2>1. audits \subseteq audits'
    BY <1>1
  <2>2. ASSUME NEW j \in Request \ {i}
        PROVE  /\ At(j, "answered")' => Audit(j, requests'[j].jwt.grant, Event(requests[j])', "allow") \in audits'
               /\ At(j, "refused")' => Audit(j, requests'[j].jwt.grant, Event(requests[j])', "deny") \in audits'
    BY <1>3, <2>1, <2>2 DEF SupportInv, AnswersAreAudited, At, Event
  <2>3. end = answer => Audit(i, requests'[i].jwt.grant, Event(requests[i])', outcome) \in audits'
    BY <1>1, <1>3 DEF Event
  <2>4. /\ At(i, "answered")' => Audit(i, requests'[i].jwt.grant, Event(requests[i])', "allow") \in audits'
        /\ At(i, "refused")' => Audit(i, requests'[i].jwt.grant, Event(requests[i])', "deny") \in audits'
    BY <1>1, <1>3, <2>3 DEF At
  <2> QED BY <2>2, <2>4 DEF AnswersAreAudited, Audit
<1> QED BY <1>4, <1>5, <1>7, <1>8 DEF SupportInv

\* Which step a record leaves, and that it was earned.
LEMMA RecordIsPassed ==
    ASSUME SupportInv, NEW i \in Request, NEW outcome, NEW answer \in {"answered", "refused"}, Record(i, outcome, answer),
           requests[i].step # "none", answer = "answered" => requests[i].kind = "exchange" \/ requests[i].step = "disclose"
    PROVE  Passed(requests[i])'
<1>1. PICK end \in {answer, "failed"} : To(i, end)
  BY DEF Record
<1>2. end \in RequestStep /\ SupportTypes /\ Passed(requests[i])
  BY DEF RequestStep, SupportInv
<1>3. CASE end \in {"refused", "failed"}
  BY <1>1, <1>3, EndIsPassed
<1>4. CASE end = "answered"
  BY <1>1, <1>2, <1>4, ToFacts DEF Passed, GrantMatches
<1> QED BY <1>3, <1>4

\* A read answers with its row, or does not answer.
LEMMA DiscloseKeeps ==
    ASSUME SupportInv, NEW i \in Request, Disclose(i) \/ Deny(i)
    PROVE  SupportInv'
<1>1. UNCHANGED <<supportJwts, grants>>
  BY DEF Disclose, Deny, Record, To
<1>2. supportJwts' \subseteq SupportJwt /\ TokensEnd'
  BY <1>1 DEF SupportInv, SupportTypes, TokensEnd
<1>3. CASE Disclose(i)
  BY <1>2, <1>3, RecordIsPassed, RecordKeeps DEF Disclose, At
<1>4. CASE Deny(i)
  BY <1>2, <1>4, RecordIsPassed, RecordKeeps DEF Deny, At
<1> QED BY <1>3, <1>4

\* The token takes the earlier of two ends.
LEMMA ExchangeKeeps ==
    ASSUME SupportInv, NEW i \in Request, Exchange(i)
    PROVE  SupportInv'
<1> DEFINE g == grants[requests[i].jwt.grant]
           exp == IF now + SupportTtl < g.expires THEN now + SupportTtl ELSE g.expires
<1>1. requests[i].step = "decide" /\ requests[i].kind = "exchange"
  BY DEF Exchange, At
<1>2. BegunWell(requests[i]) /\ SupportTypes
  BY DEF SupportInv
<1>3. requests[i].jwt \in SupportJwt /\ requests[i].jwt.grant \in Grants /\ g # None
  BY <1>1, <1>2 DEF BegunWell, SupportJwt
<1>4. g \in GrantRow /\ g.expires \in Nat /\ g.ops \in SUBSET ReadOps /\ now \in Nat
  BY <1>2, <1>3 DEF SupportTypes, GrantRow
<1>5. exp \in Nat /\ exp <= g.expires
  BY <1>4, SupportAssumption
<1>6. CASE exp <= now
  <2>1. To(i, "failed") /\ UNCHANGED <<supportJwts, audits>>
    BY <1>6 DEF Exchange
  <2> QED BY <1>1, <2>1, EndIsPassed, QuietToKeeps DEF RequestStep
<1>7. CASE ~(exp <= now)
  <2>1. Record(i, "allow", "answered") /\ (supportJwts' = supportJwts \/ supportJwts' = supportJwts \cup {[requests[i].jwt EXCEPT !.ops = g.ops, !.exp = exp]})
    BY <1>7 DEF Exchange
  <2>2. UNCHANGED grants
    BY <2>1 DEF Record, To
  <2> DEFINE t == [requests[i].jwt EXCEPT !.ops = g.ops, !.exp = exp]
  <2> HIDE DEF exp
  <2>3. t \in SupportJwt /\ t.grant = requests[i].jwt.grant /\ t.exp = exp
    BY <1>3, <1>4, <1>5 DEF SupportJwt
  <2> HIDE DEF t
  <2>4. supportJwts' \subseteq SupportJwt
    BY <1>2, <2>1, <2>3 DEF SupportTypes, t
  <2>5. TokensEnd'
    BY <1>3, <1>5, <2>1, <2>2, <2>3 DEF SupportInv, TokensEnd, t
  <2> QED BY <1>1, <2>1, <2>4, <2>5, RecordIsPassed, RecordKeeps
<1> QED BY <1>6, <1>7

\* A read finds its data or none.
LEMMA FetchKeeps ==
    ASSUME SupportInv, NEW i \in Request, Fetch(i)
    PROVE  SupportInv'
<1>1. requests[i].step = "fetch" /\ UNCHANGED <<supportJwts, audits>>
  BY DEF Fetch, At
<1>2. CASE To(i, "deny")
  BY <1>1, <1>2, EndIsPassed, QuietToKeeps DEF RequestStep
<1>3. CASE To(i, "disclose")
  <2>1. Passed(requests[i]) /\ SupportTypes /\ "disclose" \in RequestStep
    BY DEF SupportInv, RequestStep
  <2>2. Passed(requests[i])'
    BY <1>1, <1>3, <2>1, ToFacts DEF Passed, GrantMatches
  <2> QED BY <1>1, <1>3, <2>1, <2>2, QuietToKeeps
<1> QED BY <1>2, <1>3 DEF Fetch

-----------------------------------------------------------------------------
(* Requests begin *)

\* A request begins with nothing passed and sees whatever holds.
LEMMA BeginKeeps ==
    ASSUME SupportInv, NEW r \in SupportRequest, r.step = "grant", r.kind \in {"exchange", "read"}, ~r.second,
           r.jwt \in SupportJwt, r.who \in Staff, grants[r.jwt.grant] # None, StartRequest(r)
    PROVE  SupportInv'
<1> DEFINE i == started + 1
<1>0. PICK s : s = [r EXCEPT !.seen = Holding(r, customers, staff)]
  OBVIOUS
<1>1. /\ i \in Request /\ started' = started + 1 /\ requests' = [requests EXCEPT ![i] = s]
      /\ UNCHANGED <<now, grants, customers, staff, supportJwts, audits>>
  BY <1>0, SupportAssumption DEF StartRequest, Request, SupportInv, SupportTypes
<1>2. Holding(r, customers, staff) \subseteq Conditions
  BY HoldingFacts
<1>3. s \in SupportRequest /\ s.step = "grant" /\ s.kind = r.kind /\ ~s.second /\ s.jwt = r.jwt /\ s.who = r.who
      /\ s.seen = Holding(r, customers, staff)
  BY <1>0, <1>2 DEF SupportRequest
<1>4. Holding(s, customers, staff) = Holding(r, customers, staff)
  BY <1>3 DEF Holding
<1> HIDE DEF i
<1>5. SupportTypes'
  BY <1>1, <1>3 DEF SupportInv, SupportTypes
<1>6. requests'[i] = s /\ \A j \in Request \ {i} : requests'[j] = requests[j]
  BY <1>1 DEF SupportInv, SupportTypes
<1>7. ASSUME NEW j \in Request
      PROVE  BegunWell(requests[j])' /\ Passed(requests[j])'
  <2>1. CASE j = i
    <3>1. BegunWell(s) /\ Passed(s)
      BY <1>3, <1>4 DEF BegunWell, Passed
    <3>2. BegunWell(s)' /\ Passed(s)'
      BY <1>1, <3>1 DEF BegunWell, Passed, GrantMatches, Holding, GrantIsLive
    <3> QED BY <1>6, <2>1, <3>2
  <2>2. CASE j # i
    <3>1. PICK q : q = requests[j] /\ q = requests'[j]
      BY <1>6, <2>2
    <3>2. BegunWell(q)' /\ Passed(q)'
      BY <1>1, <3>1 DEF SupportInv, BegunWell, Passed, GrantMatches, Holding, GrantIsLive
    <3> QED BY <3>1, <3>2
  <2> QED BY <2>1, <2>2
<1>8. AnswersAreAudited'
  BY <1>1, <1>3, <1>6 DEF SupportInv, AnswersAreAudited, At, Event
<1> QED BY <1>1, <1>5, <1>7, <1>8 DEF SupportInv, TokensEnd, GrantsAreAudited

\* An exchange begins.
LEMMA StartExchangeKeeps ==
    ASSUME SupportInv, NEW p \in Staff, NEW g \in Grants, StartExchange(p, g)
    PROVE  SupportInv'
<1> DEFINE t == [who |-> p, grant |-> g, org |-> grants[g].org, ops |-> {}, exp |-> 0]
           r == NewRequest("exchange", p, grants[g].org, None, t)
<1>1. grants[g] # None /\ StartRequest(r)
  BY DEF StartExchange
<1>2. grants[g] \in GrantRow /\ grants[g].org \in Customers
  BY <1>1 DEF SupportInv, SupportTypes, GrantRow
<1>3. t \in SupportJwt /\ t.grant = g
  BY <1>2 DEF SupportJwt
<1> HIDE DEF t
<1>4. r = [step |-> "grant", kind |-> "exchange", who |-> p, jwt |-> t, path |-> grants[g].org, op |-> None, second |-> FALSE, seen |-> {}]
  BY DEF NewRequest
<1> HIDE DEF r
<1>5. r \in SupportRequest /\ r.step = "grant" /\ r.kind = "exchange" /\ ~r.second /\ r.jwt = t /\ r.who = p
  BY <1>2, <1>3, <1>4 DEF SupportRequest, RequestStep
<1> QED BY <1>1, <1>3, <1>5, BeginKeeps

\* A read begins with a token that was handed out.
LEMMA StartReadKeeps ==
    ASSUME SupportInv, NEW t \in supportJwts, NEW o \in Customers, NEW op \in ReadOps, StartRead(t, o, op)
    PROVE  SupportInv'
<1> DEFINE r == NewRequest("read", t.who, o, op, t)
<1>1. StartRequest(r)
  BY DEF StartRead
<1>2. t \in SupportJwt /\ t.who \in Staff /\ grants[t.grant] # None
  BY DEF SupportInv, SupportTypes, SupportJwt, TokensEnd
<1>3. r = [step |-> "grant", kind |-> "read", who |-> t.who, jwt |-> t, path |-> o, op |-> op, second |-> FALSE, seen |-> {}]
  BY DEF NewRequest
<1> HIDE DEF r
<1>4. r \in SupportRequest /\ r.step = "grant" /\ r.kind = "read" /\ ~r.second /\ r.jwt = t /\ r.who = t.who
  BY <1>2, <1>3 DEF SupportRequest, RequestStep
<1> QED BY <1>1, <1>2, <1>4, BeginKeeps

-----------------------------------------------------------------------------
(* Grants *)

\* A grant is created or revoked, with its row.
LEMMA GrantWrittenKeeps ==
    ASSUME SupportInv, NEW g \in Grants, NEW row \in GrantRow, NEW event \in {"created", "revoked"},
           grants' = [grants EXCEPT ![g] = row],
           audits' = audits \cup {Audit(0, g, event, "allow")},
           event = "created" => grants[g] = None /\ ~row.revoked,
           event = "revoked" => /\ grants[g] # None /\ row.revoked /\ row.who = grants[g].who /\ row.org = grants[g].org
                                /\ row.ops = grants[g].ops /\ row.expires = grants[g].expires,
           UNCHANGED <<now, customers, staff, requests, started, supportJwts>>
    PROVE  SupportInv'
<1>1. SupportTypes /\ now \in Nat /\ row # None
  BY SupportAssumption DEF SupportInv, SupportTypes
<1>2. grants'[g] = row /\ \A h \in Grants \ {g} : grants'[h] = grants[h]
  BY <1>1 DEF SupportTypes
<1>3. GrantsGrow
  BY <1>1, <1>2 DEF GrantsGrow
<1>4. SupportTypes'
  BY <1>1 DEF SupportTypes
<1>5. \A i \in Request : BegunWell(requests[i])' /\ Passed(requests[i])'
  BY <1>1, <1>3, UntouchedRequests
<1>6. TokensEnd'
  <2>1. \A t \in supportJwts : t.grant \in Grants
    BY <1>1 DEF SupportTypes, SupportJwt
  <2> QED BY <1>3, <2>1 DEF SupportInv, TokensEnd, GrantsGrow
<1>7. AnswersAreAudited'
  BY DEF SupportInv, AnswersAreAudited, At, Event
<1>8. GrantsAreAudited'
  <2> SUFFICES ASSUME NEW h \in Grants
               PROVE  /\ grants'[h] # None <=> Audit(0, h, "created", "allow") \in audits'
                      /\ grants'[h] # None /\ grants'[h].revoked <=> Audit(0, h, "revoked", "allow") \in audits'
    BY DEF GrantsAreAudited, Audit
  <2>1. /\ grants[h] # None <=> Audit(0, h, "created", "allow") \in audits
        /\ grants[h] # None /\ grants[h].revoked <=> Audit(0, h, "revoked", "allow") \in audits
    BY DEF SupportInv, GrantsAreAudited
  <2>2. \A e \in {"created", "revoked"} :
            Audit(0, h, e, "allow") \in audits' <=> Audit(0, h, e, "allow") \in audits \/ (h = g /\ e = event)
    BY DEF Audit
  <2>3. CASE h # g
    BY <1>2, <2>1, <2>2, <2>3
  <2>4. CASE h = g /\ event = "created"
    BY <1>1, <1>2, <2>1, <2>2, <2>4
  <2>5. CASE h = g /\ event = "revoked"
    BY <1>1, <1>2, <2>1, <2>2, <2>5
  <2> QED BY <2>3, <2>4, <2>5
<1> QED BY <1>4, <1>5, <1>6, <1>7, <1>8 DEF SupportInv

\* A grant is created where there was none.
LEMMA CreateGrantKeeps ==
    ASSUME SupportInv, NEW g \in Grants, NEW arg \in GrantArgs, CreateGrant(g, arg)
    PROVE  SupportInv'
<1> DEFINE row == [who |-> arg.who, org |-> arg.org, ops |-> arg.ops, expires |-> arg.expires, revoked |-> FALSE]
<1>1. row \in GrantRow /\ ~row.revoked
  BY SupportAssumption DEF GrantRow
<1>2. /\ grants[g] = None /\ grants' = [grants EXCEPT ![g] = row] /\ audits' = audits \cup {Audit(0, g, "created", "allow")}
      /\ UNCHANGED <<now, customers, staff, requests, started, supportJwts>>
  BY DEF CreateGrant
<1> HIDE DEF row
<1> QED BY <1>1, <1>2, GrantWrittenKeeps

\* A revocation changes nothing else of the grant.
LEMMA RevokeGrantKeeps ==
    ASSUME SupportInv, NEW g \in Grants, RevokeGrant(g)
    PROVE  SupportInv'
<1> DEFINE row == [grants[g] EXCEPT !.revoked = TRUE]
<1>1. grants[g] # None /\ grants \in [Grants -> GrantRow \cup {None}] /\ grants[g] \in GrantRow
  BY DEF RevokeGrant, SupportInv, SupportTypes
<1>2. row \in GrantRow /\ row.revoked /\ row.who = grants[g].who /\ row.org = grants[g].org
      /\ row.ops = grants[g].ops /\ row.expires = grants[g].expires
  BY <1>1 DEF GrantRow
<1>3. /\ grants' = [grants EXCEPT ![g] = row] /\ audits' = audits \cup {Audit(0, g, "revoked", "allow")}
      /\ UNCHANGED <<now, customers, staff, requests, started, supportJwts>>
  BY DEF RevokeGrant
<1> HIDE DEF row
<1> QED BY <1>1, <1>2, <1>3, GrantWrittenKeeps

-----------------------------------------------------------------------------
(* The world changes *)

\* A request that has not begun is the empty one; one that has begun has a kind.
LEMMA ChangeKeeps ==
    ASSUME SupportInv, Change, customers' \in [Customers -> BOOLEAN]
    PROVE  SupportInv'
<1>1. SupportTypes /\ now \in Nat /\ UNCHANGED <<now, grants, started, supportJwts, audits>>
  BY DEF SupportInv, SupportTypes, Change
<1>2. ASSUME NEW i \in Request
      PROVE  /\ requests'[i] \in SupportRequest /\ BegunWell(requests[i])' /\ Passed(requests[i])'
             /\ requests'[i].step = requests[i].step /\ requests'[i].jwt = requests[i].jwt
             /\ requests'[i].kind = requests[i].kind /\ requests'[i].op = requests[i].op
  <2>1. PICK r, s : r = requests[i] /\ s = requests'[i]
    OBVIOUS
  <2>2. r \in SupportRequest /\ BegunWell(r) /\ Passed(r)
    BY <1>1, <2>1 DEF SupportInv, SupportTypes
  <2>3. CASE r.kind = None
    <3>1. s = r
      BY <2>1, <2>3 DEF Change, Observe
    <3>2. r.step = "none"
      BY <2>2, <2>3, SupportAssumption DEF BegunWell
    <3>3. BegunWell(r)' /\ Passed(r)'
      BY <2>2, <3>2 DEF BegunWell, Passed
    <3> QED BY <2>1, <2>2, <3>1, <3>3
  <2>4. CASE r.kind # None
    <3> DEFINE more == Holding(r, customers', staff')
    <3>1. s = [r EXCEPT !.seen = r.seen \cup more]
      BY <2>1, <2>4 DEF Change, Observe
    <3>2. more \subseteq Conditions /\ (customers'[r.jwt.org] => "org" \in more) /\ (staff'[r.who] = Full => "staff" \in more)
      BY HoldingFacts
    <3> HIDE DEF more
    <3>3. /\ s \in SupportRequest /\ s.step = r.step /\ s.kind = r.kind /\ s.who = r.who /\ s.jwt = r.jwt /\ s.path = r.path
          /\ s.op = r.op /\ s.second = r.second /\ s.seen = r.seen \cup more
      BY <2>2, <3>1, <3>2 DEF SupportRequest
    <3>4. CASE r.step # "none"
      <4>1. GrantsGrow
        BY <1>1, NoGrantChanges
      <4>2. BegunWell(s)' /\ Passed(s)'
        BY <1>1, <2>2, <3>2, <3>3, <3>4, <4>1, RequestStays
      <4> QED BY <2>1, <3>3, <4>2
    <3>5. CASE r.step = "none"
      <4>1. BegunWell(s)' /\ Passed(s)'
        BY <2>2, <3>3, <3>5 DEF BegunWell, Passed
      <4> QED BY <2>1, <3>3, <4>1
    <3> QED BY <3>4, <3>5
  <2> QED BY <2>3, <2>4
<1>3. SupportTypes'
  <2>1. requests' = [i \in Request |-> requests'[i]]
    BY DEF Change, Observe
  <2>2. requests' \in [Request -> SupportRequest]
    BY <1>2, <2>1
  <2> QED BY <1>1, <2>2 DEF SupportTypes
<1>4. AnswersAreAudited'
  BY <1>1, <1>2 DEF SupportInv, AnswersAreAudited, At, Event
<1> QED BY <1>1, <1>2, <1>3, <1>4 DEF SupportInv, TokensEnd, GrantsAreAudited

\* A step that leaves the tables alone, time included.
LEMMA IdleKeeps ==
    ASSUME SupportInv, UNCHANGED <<grants, customers, staff, requests, started, supportJwts, audits>>, now' \in Nat, now <= now'
    PROVE  SupportInv'
<1>1. SupportTypes /\ SupportTypes'
  BY DEF SupportInv, SupportTypes
<1>2. \A i \in Request : BegunWell(requests[i])' /\ Passed(requests[i])'
  BY <1>1, NoGrantChanges, UntouchedRequests
<1>3. AnswersAreAudited'
  BY DEF SupportInv, AnswersAreAudited, At, Event
<1> QED BY <1>1, <1>2, <1>3 DEF SupportInv, TokensEnd, GrantsAreAudited

\* Every step keeps the invariant.
LEMMA SupportStep ==
    ASSUME SupportInv, [SupportNext]_<<now, supportVars>>
    PROVE  SupportInv'
<1>1. now \in Nat /\ customers \in [Customers -> BOOLEAN]
  BY DEF SupportInv, SupportTypes
<1>2. CASE Approve \/ RefuseApproved
  BY <1>1, <1>2, IdleKeeps DEF Approve, RefuseApproved
<1>3. CASE UNCHANGED <<now, supportVars>>
  BY <1>1, <1>3, IdleKeeps DEF supportVars
<1>4. CASE SupportTick
  <2>1. now' \in Nat /\ now <= now'
    BY <1>1, <1>4 DEF SupportTick, Advance
  <2> QED BY <1>4, <2>1, IdleKeeps DEF SupportTick, supportVars
<1>5. CASE \E o \in Customers : ChangeCustomer(o)
  BY <1>1, <1>5, ChangeKeeps DEF ChangeCustomer
<1>6. CASE \E p \in Staff, requirement \in Full : ChangeStaff(p, requirement)
  BY <1>1, <1>6, ChangeKeeps DEF ChangeStaff
<1>7. CASE ChangeApprover
  BY <1>1, <1>7, ChangeKeeps DEF ChangeApprover
<1>8. CASE \E g \in Grants :
             \/ \E arg \in GrantArgs : CreateGrant(g, arg)
             \/ RevokeGrant(g)
             \/ \E p \in Staff : StartExchange(p, g)
  BY <1>8, CreateGrantKeeps, RevokeGrantKeeps, StartExchangeKeeps
<1>9. CASE \E t \in supportJwts, o \in Customers, op \in ReadOps : StartRead(t, o, op)
  BY <1>9, StartReadKeeps
<1>10. CASE \E i \in Request :
              \/ CheckGrant(i) \/ CheckCustomer(i) \/ CheckStaff(i) \/ Decide(i)
              \/ Exchange(i) \/ Fetch(i) \/ Disclose(i) \/ Deny(i)
  BY <1>10, CheckGrantKeeps, CheckCustomerKeeps, CheckStaffKeeps, DecideKeeps, ExchangeKeeps, FetchKeeps, DiscloseKeeps
<1> QED BY <1>2, <1>3, <1>4, <1>5, <1>6, <1>7, <1>8, <1>9, <1>10, Zenon DEF SupportNext

\* The invariant holds before the first grant.
LEMMA SupportStart ==
    ASSUME now = 0, SupportInit
    PROVE  SupportInv
<1>1. requests = [i \in Request |-> NoRequest] /\ NoRequest \in SupportRequest
  BY DEF SupportInit, NoRequest, SupportRequest, RequestStep
<1>2. SupportTypes
  BY <1>1 DEF SupportInit, SupportTypes
<1>3. \A i \in Request : requests[i].step = "none" /\ ~requests[i].second
  BY <1>1 DEF NoRequest
<1>4. \A i \in Request : BegunWell(requests[i]) /\ Passed(requests[i])
  BY <1>3 DEF BegunWell, Passed
<1>5. GrantsAreAudited /\ TokensEnd
  BY DEF SupportInit, GrantsAreAudited, TokensEnd
<1>6. AnswersAreAudited
  BY <1>3 DEF AnswersAreAudited, At
<1> QED BY <1>2, <1>4, <1>5, <1>6 DEF SupportInv

\* Hence it holds always.
LEMMA SupportInvariant == SupportSpec => []SupportInv
<1>1. now = 0 /\ SupportInit => SupportInv
  BY SupportStart
<1>2. SupportInv /\ [SupportNext]_<<now, supportVars>> => SupportInv'
  BY SupportStep
<1> QED BY <1>1, <1>2, PTL DEF SupportSpec

\* Data is disclosed only to the grantee, for the granted organization and
\* operation, and only by a request that saw the grant live, the organization
\* active and the user eligible: authorize_customer_support_read checks the grant
\* twice, each statement on its own, between any changes of the tables.
THEOREM DisclosureSafe == SupportSpec => []DisclosureIsAuthorized
<1>1. SupportInv => DisclosureIsAuthorized
  <2> SUFFICES ASSUME SupportInv, NEW i \in Request, requests[i].kind = "read", requests[i].step = "answered"
               PROVE  /\ requests[i].seen = {"grant", "org", "staff"}
                      /\ grants[requests[i].jwt.grant].who = requests[i].who
                      /\ grants[requests[i].jwt.grant].org = requests[i].path
                      /\ requests[i].op \in grants[requests[i].jwt.grant].ops
    BY DEF DisclosureIsAuthorized
  <2>1. Passed(requests[i])
    BY DEF SupportInv
  <2> QED BY <2>1 DEF Passed, GrantMatches, Conditions
<1> QED BY <1>1, SupportInvariant, PTL

\* Every grant, revocation, token, disclosure and refusal has its audit row, and
\* no token outlives its grant, whichever statement fails.
THEOREM AuditSafe == SupportSpec => []SupportIsAudited
<1>1. SupportInv => SupportIsAudited
  BY DEF SupportInv, SupportIsAudited, GrantsAreAudited, AnswersAreAudited, TokensEnd
<1> QED BY <1>1, SupportInvariant, PTL

-----------------------------------------------------------------------------
(* Upstream login *)

Version == 0 .. MaxEdits
Resolving == {"lookup", "email", "create", "join", "bind", "link", "cleanup", "session"}
Unfinished == {"join", "bind", "cleanup"}
UpJob ==
    [at : {"idle", "source"}]
      \cup [at : {"begin"}, trust : Version]
      \cup [at : {"exchange"}, trust : Version, edits : Version]
      \cup [at : {"recheck"}, trust : Version, keys : Version, subject : Subjects, mail : Mails, verified : BOOLEAN]
      \cup [at : Resolving, policy : Source, trust : Version, keys : Version, subject : Subjects, mail : Mails,
            verified : BOOLEAN, user : UpUsers]
      \cup [at : {"revoke"}, user : UpUsers]
Person == [row : {"live"}, mail : Mails] \cup [row : {"none", "deleted"}]

UpTypes ==
    /\ source \in Source
    /\ cache \subseteq [edits : Version, trust : Version]
    /\ mapping \in [Subjects -> UpUsers \cup {None}]
    /\ people \in [UpUsers -> Person]
    /\ upJobs \in [UpSlots -> UpJob]
    /\ \A x \in upSessions : x.user \in UpUsers /\ x.subject \in Subjects

\* What was read of the source is of an earlier edit, or is the present.
FromSource(e) == e.edits <= source.edits /\ (e.edits = source.edits => e.trust = source.trust)

CacheIsSound == (\A e, f \in cache : e = f) /\ (\A e \in cache : FromSource(e))

JobIsSound(job) ==
    /\ job.at = "exchange" => FromSource(job) /\ \A e \in cache : e.edits = job.edits => e.trust = job.trust
    /\ job.at \in {"recheck"} \cup Resolving => job.keys = job.trust
    /\ job.at \in Resolving => job.policy.trust = job.trust

\* Two requests that read the source at the same edit read the same trust.
JobsAgree ==
    \A j, k \in UpSlots :
        upJobs[j].at = "exchange" /\ upJobs[k].at = "exchange" /\ upJobs[j].edits = upJobs[k].edits =>
            upJobs[j].trust = upJobs[k].trust

UpInv ==
    /\ UpTypes
    /\ CacheIsSound /\ JobsAgree /\ \A j \in UpSlots : JobIsSound(upJobs[j])
    /\ SourceStateMatchesTrust
    /\ NoStrandedUser

\* What each stage of a request carries.
LEMMA JobFields ==
    ASSUME NEW job \in UpJob
    PROVE  /\ job.at = "begin" => job.trust \in Version
           /\ job.at = "exchange" => job.trust \in Version /\ job.edits \in Version
           /\ job.at = "recheck" => /\ job.trust \in Version /\ job.keys \in Version /\ job.subject \in Subjects /\ job.mail \in Mails
                                    /\ job.verified \in BOOLEAN
           /\ job.at \in Resolving =>
                job \in [at : Resolving, policy : Source, trust : Version, keys : Version, subject : Subjects, mail : Mails,
                         verified : BOOLEAN, user : UpUsers]
           /\ job.at = "revoke" => job.user \in UpUsers
BY DEF UpJob, Resolving

\* A request moves on to `at`, for the user u or for the one it has.
LEMMA MovesOn ==
    ASSUME NEW j, upJobs[j] \in UpJob, upJobs[j].at \in Resolving, NEW at \in Resolving, NEW u \in UpUsers, JobIsSound(upJobs[j]),
           Found(j, u, at) \/ (GoTo(j, at) /\ u = upJobs[j].user)
    PROVE  \E next \in UpJob : Put(j, next) /\ JobIsSound(next) /\ next.at = at /\ next.user = u
<1> DEFINE R == [at : Resolving, policy : Source, trust : Version, keys : Version, subject : Subjects, mail : Mails,
                 verified : BOOLEAN, user : UpUsers]
<1>1. upJobs[j] \in R /\ R \subseteq UpJob
  BY JobFields DEF UpJob
<1>2. \E next \in R : /\ Put(j, next) /\ next.at = at /\ next.user = u
                      /\ next.keys = upJobs[j].keys /\ next.trust = upJobs[j].trust /\ next.policy = upJobs[j].policy
  <2>1. CASE Found(j, u, at)
    <3> DEFINE next == [upJobs[j] EXCEPT !.at = at, !.user = u]
    <3>1. /\ next \in R /\ next.at = at /\ next.user = u
          /\ next.keys = upJobs[j].keys /\ next.trust = upJobs[j].trust /\ next.policy = upJobs[j].policy
      BY <1>1
    <3>2. Put(j, next)
      BY <2>1 DEF Found
    <3> HIDE DEF next
    <3> QED BY <3>1, <3>2
  <2>2. CASE GoTo(j, at) /\ u = upJobs[j].user
    <3> DEFINE next == [upJobs[j] EXCEPT !.at = at]
    <3>1. /\ next \in R /\ next.at = at /\ next.user = upJobs[j].user
          /\ next.keys = upJobs[j].keys /\ next.trust = upJobs[j].trust /\ next.policy = upJobs[j].policy
      BY <1>1
    <3>2. Put(j, next)
      BY <2>2 DEF GoTo
    <3> HIDE DEF next
    <3> QED BY <2>2, <3>1, <3>2
  <2> QED BY <2>1, <2>2
<1>3. at # "exchange"
  BY DEF Resolving
<1> QED BY <1>1, <1>2, <1>3 DEF JobIsSound

\* A request takes its slot and leaves the others alone.
LEMMA PutFacts ==
    ASSUME UpTypes, NEW j \in UpSlots, NEW job \in UpJob, Put(j, job)
    PROVE  upJobs' \in [UpSlots -> UpJob] /\ upJobs'[j] = job /\ \A k \in UpSlots \ {j} : upJobs'[k] = upJobs[k]
BY DEF UpTypes, Put

\* Replacing one request leaves what the requests have read sound.
LEMMA JobsStaySound ==
    ASSUME UpInv, NEW j \in UpSlots, NEW job \in UpJob, Put(j, job), JobIsSound(job),
           job.at = "exchange" => job.edits = source.edits /\ job.trust = source.trust,
           UNCHANGED <<source, cache>>
    PROVE  CacheIsSound' /\ JobsAgree' /\ \A k \in UpSlots : JobIsSound(upJobs[k])'
<1>1. /\ UpTypes /\ upJobs'[j] = job /\ \A k \in UpSlots \ {j} : upJobs'[k] = upJobs[k]
  BY PutFacts DEF UpInv
<1>2. CacheIsSound'
  BY DEF UpInv, CacheIsSound, FromSource
<1>3. ASSUME NEW k \in UpSlots
      PROVE  JobIsSound(upJobs[k])'
  <2>1. PICK q : q = upJobs'[k] /\ JobIsSound(q)
    BY <1>1 DEF UpInv
  <2>2. JobIsSound(q)'
    BY <2>1 DEF JobIsSound, FromSource
  <2> QED BY <2>1, <2>2
<1>4. JobsAgree'
  <2>1. \A k \in UpSlots \ {j} : upJobs'[k].at = "exchange" /\ upJobs'[k].edits = source.edits => upJobs'[k].trust = source.trust
    BY <1>1 DEF UpInv, JobIsSound, FromSource
  <2> QED BY <1>1, <2>1 DEF UpInv, JobsAgree
<1> QED BY <1>2, <1>3, <1>4

\* A step of a request that only moves itself, or ends a transaction.
LEMMA JobStepKeeps ==
    ASSUME UpInv, NEW j \in UpSlots, NEW job \in UpJob, Put(j, job), JobIsSound(job),
           job.at = "exchange" => job.edits = source.edits /\ job.trust = source.trust,
           UNCHANGED <<source, cache, people, mapping, upSessions, crashed>>, auths' \subseteq auths,
           upJobs[j].at # "revoke",
           upJobs[j].at \in Unfinished => job.at \in Unfinished /\ job.user = upJobs[j].user
    PROVE  UpInv'
<1>1. UpTypes /\ upJobs' \in [UpSlots -> UpJob] /\ upJobs'[j] = job /\ \A k \in UpSlots \ {j} : upJobs'[k] = upJobs[k]
  BY PutFacts DEF UpInv
<1>2. UpTypes'
  BY <1>1 DEF UpTypes
<1>3. CacheIsSound' /\ JobsAgree' /\ \A k \in UpSlots : JobIsSound(upJobs[k])'
  BY JobsStaySound
<1>4. SourceStateMatchesTrust'
  <2>1. \A k \in UpSlots : upJobs[k].at = "revoke" => upJobs'[k] = upJobs[k]
    BY <1>1
  <2> QED BY <2>1 DEF UpInv, SourceStateMatchesTrust
<1>5. NoStrandedUser'
  <2>1. \A k \in UpSlots : upJobs[k].at \in Unfinished => upJobs'[k].at \in Unfinished /\ upJobs'[k].user = upJobs[k].user
    BY <1>1
  <2> QED BY <2>1 DEF UpInv, NoStrandedUser, IsLive, Unfinished
<1> QED BY <1>2, <1>3, <1>4, <1>5 DEF UpInv

\* An empty slot promises nothing.
LEMMA IdleIsSound ==
    IdleRequest \in UpJob /\ JobIsSound(IdleRequest) /\ IdleRequest.at = "idle"
BY DEF IdleRequest, UpJob, JobIsSound, Resolving

\* The request ends where nothing hangs on it.
LEMMA EndKeeps ==
    ASSUME UpInv, NEW j \in UpSlots, End(j), upJobs[j].at \notin Unfinished \cup {"revoke"},
           UNCHANGED <<source, cache, people, mapping, upSessions, crashed>>, auths' \subseteq auths
    PROVE  UpInv'
BY IdleIsSound, JobStepKeeps DEF End

\* A transaction begins with the trust of the source as it is.
LEMMA TransactionBeginKeeps ==
    ASSUME UpInv, NEW j \in UpSlots, Begin(j)
    PROVE  UpInv'
<1> DEFINE job == [at |-> "begin", trust |-> source.trust]
<1>1. Put(j, job) /\ upJobs[j].at = "idle" /\ UNCHANGED <<source, cache, auths, people, mapping, upSessions, crashed>>
  BY DEF Begin
<1>2. job \in UpJob /\ JobIsSound(job) /\ job.at = "begin"
  BY DEF UpJob, JobIsSound, Resolving, UpInv, UpTypes, Source, Version
<1> HIDE DEF job
<1> QED BY <1>1, <1>2, JobStepKeeps DEF Unfinished

\* A callback consumes its transaction.
LEMMA ConsumeKeeps ==
    ASSUME UpInv, NEW j \in UpSlots, Consume(j)
    PROVE  UpInv'
<1> DEFINE job == [at |-> "source"]
<1>1. auths' \subseteq auths /\ upJobs[j].at = "idle" /\ UNCHANGED <<source, cache, people, mapping, upSessions, crashed>>
  BY DEF Consume
<1>2. job \in UpJob /\ JobIsSound(job) /\ job.at = "source"
  BY DEF UpJob, JobIsSound, Resolving
<1> HIDE DEF job
<1>3. CASE Put(j, job)
  BY <1>1, <1>2, <1>3, JobStepKeeps DEF Unfinished
<1>4. CASE End(j)
  BY <1>1, <1>4, EndKeeps DEF Unfinished
<1> QED BY <1>3, <1>4 DEF Consume, job

\* A callback reads the source as it is.
LEMMA ReadSourceKeeps ==
    ASSUME UpInv, NEW j \in UpSlots, ReadSource(j)
    PROVE  UpInv'
<1> DEFINE job == [at |-> "exchange", trust |-> source.trust, edits |-> source.edits]
<1>1. upJobs[j].at = "source" /\ UNCHANGED <<source, cache, auths, people, mapping, upSessions, crashed>>
  BY DEF ReadSource
<1>2. source.edits \in Nat /\ source.trust \in Version /\ source.edits \in Version
  BY DEF UpInv, UpTypes, Source, Version
<1>3. job \in UpJob /\ job.at = "exchange" /\ job.edits = source.edits /\ job.trust = source.trust
  BY <1>2 DEF UpJob
<1>4. JobIsSound(job)
  BY <1>2, <1>3 DEF JobIsSound, FromSource, UpInv, CacheIsSound, Resolving
<1> HIDE DEF job
<1>5. CASE Put(j, job)
  BY <1>1, <1>3, <1>4, <1>5, JobStepKeeps DEF Unfinished
<1>6. CASE End(j)
  BY <1>1, <1>6, EndKeeps DEF Unfinished
<1> QED BY <1>5, <1>6 DEF ReadSource, job

\* The second reading shows the trust of the first.
LEMMA RecheckKeeps ==
    ASSUME UpInv, NEW j \in UpSlots, Recheck(j)
    PROVE  UpInv'
<1> DEFINE job == [at |-> "lookup", policy |-> source, trust |-> upJobs[j].trust,
                   keys |-> upJobs[j].keys, subject |-> upJobs[j].subject, mail |-> upJobs[j].mail,
                   verified |-> upJobs[j].verified, user |-> LocalUser]
<1>1. upJobs[j].at = "recheck" /\ UNCHANGED <<source, cache, auths, people, mapping, upSessions, crashed>>
  BY DEF Recheck
<1>2. JobIsSound(upJobs[j]) /\ upJobs[j] \in UpJob /\ source \in Source
  BY DEF UpInv, UpTypes
<1>3. job \in UpJob
  BY <1>1, <1>2, JobFields DEF UpJob, Resolving, UpUsers
<1>4. CASE Put(j, job) /\ TrustIsUnchanged(j)
  <2>1. JobIsSound(job) /\ job.at = "lookup"
    BY <1>1, <1>2, <1>4 DEF JobIsSound, TrustIsUnchanged
  <2> HIDE DEF job
  <2> QED BY <1>1, <1>3, <1>4, <2>1, JobStepKeeps DEF Unfinished
<1>5. CASE End(j)
  BY <1>1, <1>5, EndKeeps DEF Unfinished
<1> QED BY <1>4, <1>5 DEF Recheck

\* Found and GoTo
LEMMA ResolvingStepKeeps ==
    ASSUME UpInv, NEW j \in UpSlots, NEW at \in Resolving, NEW u \in UpUsers, upJobs[j].at \in Resolving,
           Found(j, u, at) \/ GoTo(j, at),
           UNCHANGED <<source, cache, auths, people, mapping, upSessions, crashed>>,
           upJobs[j].at \in Unfinished => at \in Unfinished /\ GoTo(j, at)
    PROVE  UpInv'
<1>1. upJobs[j] \in UpJob /\ JobIsSound(upJobs[j]) /\ upJobs[j].at # "revoke" /\ at # "exchange"
  BY DEF UpInv, UpTypes, Resolving
<1>2. CASE GoTo(j, at)
  <2>1. upJobs[j].user \in UpUsers
    BY <1>1, JobFields
  <2>2. PICK job \in UpJob : Put(j, job) /\ JobIsSound(job) /\ job.at = at /\ job.user = upJobs[j].user
    BY <1>1, <1>2, <2>1, MovesOn
  <2> QED BY <1>1, <2>2, JobStepKeeps
<1>3. CASE Found(j, u, at) /\ upJobs[j].at \notin Unfinished
  <2>1. PICK job \in UpJob : Put(j, job) /\ JobIsSound(job) /\ job.at = at
    BY <1>1, <1>3, MovesOn
  <2> QED BY <1>1, <1>3, <2>1, JobStepKeeps
<1> QED BY <1>2, <1>3

\* A linked subject, or none.
LEMMA FindMappingKeeps ==
    ASSUME UpInv, NEW j \in UpSlots, FindMapping(j)
    PROVE  UpInv'
<1> DEFINE u == mapping[upJobs[j].subject]
<1>1. upJobs[j].at = "lookup" /\ UNCHANGED <<source, cache, auths, people, mapping, upSessions, crashed>>
  BY DEF FindMapping
<1>2. "lookup" \in Resolving \ Unfinished /\ "email" \in Resolving /\ "session" \in Resolving
  BY DEF Resolving, Unfinished
<1>3. u \in UpUsers \cup {None} /\ LocalUser \in UpUsers
  BY <1>1, <1>2, JobFields DEF UpInv, UpTypes, UpUsers
<1> HIDE DEF u
<1>4. CASE GoTo(j, "email")
  BY <1>1, <1>2, <1>3, <1>4, ResolvingStepKeeps
<1>5. CASE u # None /\ Found(j, u, "session")
  BY <1>1, <1>2, <1>3, <1>5, ResolvingStepKeeps
<1>6. CASE End(j)
  BY <1>1, <1>2, <1>6, EndKeeps
<1> QED BY <1>4, <1>5, <1>6 DEF FindMapping, u

\* An account to link, or one to create.
LEMMA FindEmailKeeps ==
    ASSUME UpInv, NEW j \in UpSlots, FindEmail(j)
    PROVE  UpInv'
<1>1. upJobs[j].at = "email" /\ UNCHANGED <<source, cache, auths, people, mapping, upSessions, crashed>>
  BY DEF FindEmail
<1>2. "email" \in Resolving \ Unfinished /\ "create" \in Resolving /\ "link" \in Resolving /\ LocalUser \in UpUsers
  BY DEF Resolving, Unfinished, UpUsers
<1>3. CASE \E u \in Owners(upJobs[j].mail) : Found(j, u, "link")
  BY <1>1, <1>2, <1>3, ResolvingStepKeeps DEF Owners
<1>4. CASE GoTo(j, "create")
  BY <1>1, <1>2, <1>4, ResolvingStepKeeps
<1>5. CASE End(j)
  BY <1>1, <1>2, <1>5, EndKeeps
<1> QED BY <1>3, <1>4, <1>5 DEF FindEmail

\* A new user goes on to be bound or removed.
LEMMA EnsureMemberKeeps ==
    ASSUME UpInv, NEW j \in UpSlots, EnsureMember(j)
    PROVE  UpInv'
<1>1. upJobs[j].at = "join" /\ UNCHANGED <<source, cache, auths, people, mapping, upSessions, crashed>>
  BY DEF EnsureMember
<1>2. {"join", "bind", "cleanup"} \subseteq Resolving /\ {"join", "bind", "cleanup"} = Unfinished /\ LocalUser \in UpUsers
  BY DEF Resolving, Unfinished, UpUsers
<1> QED BY <1>1, <1>2, ResolvingStepKeeps DEF EnsureMember

-----------------------------------------------------------------------------
(* Steps that change more than the request *)

\* A transaction saved after an edit is marked late.
LEMMA SaveAuthorizationKeeps ==
    ASSUME UpInv, NEW j \in UpSlots, SaveAuthorization(j)
    PROVE  UpInv'
<1> DEFINE a == [id |-> begun, trust |-> upJobs[j].trust, late |-> upJobs[j].trust # source.trust \/ ~source.active]
<1>1. upJobs[j].at = "begin" /\ End(j) /\ UNCHANGED <<source, cache, people, mapping, upSessions, crashed>> /\ auths' = auths \cup {a}
  BY DEF SaveAuthorization
<1>2. /\ UpTypes /\ upJobs' \in [UpSlots -> UpJob] /\ upJobs'[j] = IdleRequest
      /\ \A k \in UpSlots \ {j} : upJobs'[k] = upJobs[k]
  BY <1>1, IdleIsSound, PutFacts DEF UpInv, End
<1>3. UpTypes'
  BY <1>1, <1>2 DEF UpTypes
<1>4. CacheIsSound' /\ JobsAgree' /\ \A k \in UpSlots : JobIsSound(upJobs[k])'
  BY <1>1, IdleIsSound, JobsStaySound DEF End
<1>5. SourceStateMatchesTrust'
  <2>1. ~a.late => source.active /\ a.trust = source.trust
    OBVIOUS
  <2> HIDE DEF a
  <2>2. \A b \in auths' : ~b.late => source'.active /\ b.trust = source'.trust
    BY <1>1, <2>1 DEF UpInv, SourceStateMatchesTrust
  <2>3. \A k \in UpSlots : upJobs[k].at = "revoke" => upJobs'[k] = upJobs[k]
    BY <1>1, <1>2
  <2> QED BY <1>1, <2>2, <2>3 DEF UpInv, SourceStateMatchesTrust
<1>6. NoStrandedUser'
  BY <1>1, <1>2 DEF UpInv, NoStrandedUser, IsLive
<1> QED BY <1>3, <1>4, <1>5, <1>6 DEF UpInv

\* The keys come from the cache or from the request's own reading: the same trust.
LEMMA UsedTrustIsOwn ==
    ASSUME UpInv, NEW j \in UpSlots, upJobs[j].at = "exchange"
    PROVE  UsedTrust(j) = upJobs[j].trust
<1>1. JobIsSound(upJobs[j]) /\ CacheIsSound
  BY DEF UpInv
<1>2. CASE \E e \in cache : CacheIsFresh(e, upJobs[j].edits)
  <2>1. PICK e \in cache : e.edits = upJobs[j].edits
    BY <1>2 DEF CacheIsFresh
  <2>2. (CHOOSE f \in cache : TRUE) = e
    <3>1. (CHOOSE f \in cache : TRUE) \in cache
      BY <2>1
    <3> QED BY <1>1, <3>1 DEF CacheIsSound
  <2> QED BY <1>1, <1>2, <2>1, <2>2 DEF UsedTrust, JobIsSound
<1> QED BY <1>2 DEF UsedTrust

\* The cache takes what the callback itself has read.
LEMMA ExchangeCodeKeeps ==
    ASSUME UpInv, NEW j \in UpSlots, ExchangeCode(j)
    PROVE  UpInv'
<1> DEFINE e == [edits |-> upJobs[j].edits, trust |-> upJobs[j].trust]
<1>1. /\ upJobs[j].at = "exchange" /\ cache' = {e} /\ UNCHANGED <<source, auths, people, mapping, upSessions, crashed>>
  BY UsedTrustIsOwn DEF ExchangeCode
<1>2. UpTypes /\ upJobs[j] \in UpJob /\ JobIsSound(upJobs[j]) /\ FromSource(upJobs[j])
  BY <1>1 DEF UpInv, UpTypes, JobIsSound
<1>3. upJobs[j].trust \in Version /\ upJobs[j].edits \in Version
  BY <1>1, <1>2, JobFields
<1>4. e \in [edits : Version, trust : Version] /\ e.edits = upJobs[j].edits /\ e.trust = upJobs[j].trust
  BY <1>3
<1> HIDE DEF e
<1>5. PICK job \in UpJob : Put(j, job) /\ job.at \in {"idle", "recheck"} /\ (job.at = "recheck" => job.keys = job.trust)
  <2>1. CASE End(j)
    BY <2>1, IdleIsSound DEF End
  <2>2. CASE \E p \in Profiles :
               Put(j, [at |-> "recheck", trust |-> upJobs[j].trust, keys |-> UsedTrust(j),
                       subject |-> p.subject, mail |-> p.mail, verified |-> p.verified])
    <3>1. PICK p \in Profiles :
               Put(j, [at |-> "recheck", trust |-> upJobs[j].trust, keys |-> UsedTrust(j),
                       subject |-> p.subject, mail |-> p.mail, verified |-> p.verified])
      BY <2>2
    <3> DEFINE job == [at |-> "recheck", trust |-> upJobs[j].trust, keys |-> UsedTrust(j),
                       subject |-> p.subject, mail |-> p.mail, verified |-> p.verified]
    <3>2. UsedTrust(j) = upJobs[j].trust
      BY <1>1, UsedTrustIsOwn
    <3>3. p \in [subject : Subjects, mail : Mails, verified : BOOLEAN]
      BY UpstreamAssumption
    <3>4. job \in UpJob /\ job.at = "recheck" /\ job.keys = job.trust
      BY <1>3, <3>2, <3>3 DEF UpJob
    <3> HIDE DEF job
    <3> QED BY <3>1, <3>4 DEF job
  <2> QED BY <2>1, <2>2 DEF ExchangeCode
<1>6. upJobs' \in [UpSlots -> UpJob] /\ upJobs'[j] = job /\ \A k \in UpSlots \ {j} : upJobs'[k] = upJobs[k]
  BY <1>2, <1>5, PutFacts
<1>7. UpTypes'
  BY <1>1, <1>2, <1>4, <1>6 DEF UpTypes
<1>8. CacheIsSound'
  BY <1>1, <1>2, <1>4 DEF CacheIsSound, FromSource
<1>9. JobsAgree'
  BY <1>5, <1>6 DEF UpInv, JobsAgree
<1>10. ASSUME NEW k \in UpSlots
       PROVE  JobIsSound(upJobs[k])'
  <2>1. CASE k = j
    BY <1>5, <1>6, <2>1 DEF JobIsSound, Resolving
  <2>2. CASE k # j
    <3>1. PICK q : q = upJobs[k] /\ q = upJobs'[k] /\ JobIsSound(q)
      BY <1>6, <2>2 DEF UpInv
    <3>2. q.at = "exchange" /\ e.edits = q.edits => e.trust = q.trust
      BY <1>1, <1>4, <3>1 DEF UpInv, JobsAgree
    <3>3. JobIsSound(q)'
      BY <1>1, <3>1, <3>2 DEF JobIsSound, FromSource
    <3> QED BY <3>1, <3>3
  <2> QED BY <2>1, <2>2
<1>11. SourceStateMatchesTrust'
  <2>1. \A k \in UpSlots : upJobs[k].at = "revoke" => upJobs'[k] = upJobs[k]
    BY <1>1, <1>6
  <2> QED BY <1>1, <2>1 DEF UpInv, SourceStateMatchesTrust
<1>12. NoStrandedUser'
  BY <1>1, <1>6 DEF UpInv, NoStrandedUser, IsLive
<1> QED BY <1>7, <1>8, <1>9, <1>10, <1>11, <1>12 DEF UpInv

\* A new user is the business of the request that created it.
LEMMA CreateJitKeeps ==
    ASSUME UpInv, NEW j \in UpSlots, CreateJit(j)
    PROVE  UpInv'
<1>1. upJobs[j].at = "create" /\ UNCHANGED <<source, cache, auths, mapping, upSessions, crashed>>
  BY DEF CreateJit
<1>2. CASE End(j) /\ UNCHANGED people
  BY <1>1, <1>2, EndKeeps DEF Unfinished
<1>3. CASE /\ \E u \in JitUsers : people[u].row = "none"
           /\ people' = [people EXCEPT ![NewUser] = [row |-> "live", mail |-> upJobs[j].mail]]
           /\ Found(j, NewUser, "join")
  <2>1. NewUser \in JitUsers /\ NewUser \in UpUsers
    BY <1>3 DEF NewUser, UpUsers
  <2>2. "create" \in Resolving /\ "join" \in Resolving /\ UpTypes /\ upJobs[j] \in UpJob /\ JobIsSound(upJobs[j])
    BY DEF Resolving, UpInv, UpTypes
  <2>3. PICK job \in UpJob : Put(j, job) /\ JobIsSound(job) /\ job.at = "join" /\ job.user = NewUser
    BY <1>1, <1>3, <2>1, <2>2, MovesOn
  <2>5. upJobs[j].mail \in Mails
    BY <1>1, <2>2, JobFields
  <2>6. upJobs' \in [UpSlots -> UpJob] /\ upJobs'[j] = job /\ \A k \in UpSlots \ {j} : upJobs'[k] = upJobs[k]
    BY <2>2, <2>3, PutFacts
  <2>7. people' \in [UpUsers -> Person] /\ \A u \in UpUsers \ {NewUser} : people'[u] = people[u]
    BY <1>3, <2>1, <2>2, <2>5 DEF UpTypes, Person
  <2>8. UpTypes'
    BY <1>1, <2>2, <2>6, <2>7 DEF UpTypes
  <2>9. CacheIsSound' /\ JobsAgree' /\ \A k \in UpSlots : JobIsSound(upJobs[k])'
    BY <1>1, <2>3, JobsStaySound
  <2>10. SourceStateMatchesTrust'
    <3>1. \A k \in UpSlots : upJobs[k].at = "revoke" => upJobs'[k] = upJobs[k]
      BY <1>1, <2>6
    <3> QED BY <1>1, <3>1 DEF UpInv, SourceStateMatchesTrust
  <2>11. NoStrandedUser'
    <3>1. \A k \in UpSlots : upJobs[k].at \in Unfinished => upJobs'[k] = upJobs[k]
      BY <1>1, <2>6 DEF Unfinished
    <3>2. \A u \in JitUsers \ {NewUser} : people'[u] = people[u]
      BY <2>7 DEF UpUsers
    <3> QED BY <1>1, <2>3, <2>6, <3>1, <3>2 DEF UpInv, NoStrandedUser, IsLive, Unfinished
  <2> QED BY <2>8, <2>9, <2>10, <2>11 DEF UpInv
<1> QED BY <1>2, <1>3 DEF CreateJit

\* A binding is added where there was none; a refused one sends a new user to
\* the cleanup.
LEMMA LinkUserKeeps ==
    ASSUME UpInv, NEW j \in UpSlots, LinkUser(j)
    PROVE  UpInv'
<1> DEFINE s == upJobs[j].subject
           u == upJobs[j].user
<1>1. /\ upJobs[j].at \in {"link", "bind"} /\ UNCHANGED <<source, cache, auths, people, upSessions, crashed>>
      /\ mapping' = [mapping EXCEPT ![s] = Bind(s, u)]
  BY DEF LinkUser
<1>2. UpTypes /\ upJobs[j] \in UpJob /\ JobIsSound(upJobs[j]) /\ upJobs[j].at \in Resolving
  BY <1>1 DEF UpInv, UpTypes, Resolving
<1>3. s \in Subjects /\ u \in UpUsers /\ mapping \in [Subjects -> UpUsers \cup {None}] /\ None \notin UpUsers
  BY <1>2, JobFields, UpstreamAssumption DEF UpTypes, UpUsers
<1>4. PICK job \in UpJob :
        /\ Put(j, job) /\ JobIsSound(job) /\ job.at \in {"session", "cleanup", "idle"}
        /\ upJobs[j].at = "bind" => mapping'[s] = u \/ (job.at = "cleanup" /\ job.user = u)
  <2>1. ASSUME NEW at \in {"session", "cleanup"}, GoTo(j, at)
        PROVE  \E job \in UpJob : Put(j, job) /\ JobIsSound(job) /\ job.at = at /\ job.user = u
    <3>1. at \in Resolving
      BY DEF Resolving
    <3> QED BY <1>2, <1>3, <2>1, <3>1, MovesOn
  <2>2. CASE mapping'[s] = u /\ GoTo(j, "session")
    BY <2>1, <2>2
  <2>3. CASE GoTo(j, "cleanup")
    BY <2>1, <2>3
  <2>4. CASE End(j) /\ AfterConflict(j) # "cleanup"
    BY <2>4, IdleIsSound DEF End, AfterConflict
  <2> QED BY <2>2, <2>3, <2>4 DEF LinkUser
<1>5. upJobs' \in [UpSlots -> UpJob] /\ upJobs'[j] = job /\ \A k \in UpSlots \ {j} : upJobs'[k] = upJobs[k]
  BY <1>2, <1>4, PutFacts
<1>6. Bind(s, u) \in UpUsers \cup {None} /\ (mapping[s] # None => Bind(s, u) = mapping[s])
  BY <1>3 DEF Bind
<1>7. mapping' \in [Subjects -> UpUsers \cup {None}] /\ \A r \in Subjects : mapping[r] # None => mapping'[r] = mapping[r]
  BY <1>1, <1>3, <1>6
<1>8. UpTypes'
  BY <1>1, <1>2, <1>5, <1>7 DEF UpTypes
<1>9. CacheIsSound' /\ JobsAgree' /\ \A k \in UpSlots : JobIsSound(upJobs[k])'
  BY <1>1, <1>4, JobsStaySound
<1>10. SourceStateMatchesTrust'
  <2>1. \A k \in UpSlots : upJobs[k].at = "revoke" => upJobs'[k] = upJobs[k]
    BY <1>1, <1>5
  <2>2. \A x \in upSessions : mapping[x.subject] = x.user => mapping'[x.subject] = x.user
    BY <1>2, <1>3, <1>7 DEF UpTypes
  <2> QED BY <1>1, <2>1, <2>2 DEF UpInv, SourceStateMatchesTrust
<1>11. NoStrandedUser'
  <2> SUFFICES ASSUME NEW v \in JitUsers, IsLive(v), ~crashed
               PROVE  \/ \E r \in Subjects : mapping'[r] = v
                      \/ \E k \in UpSlots : upJobs'[k].at \in Unfinished /\ upJobs'[k].user = v
    BY <1>1 DEF NoStrandedUser, IsLive, Unfinished
  <2>1. CASE \E r \in Subjects : mapping[r] = v
    <3>1. v # None
      BY UpstreamAssumption
    <3> QED BY <1>7, <2>1, <3>1
  <2>2. CASE \E k \in UpSlots : upJobs[k].at \in Unfinished /\ upJobs[k].user = v
    <3>1. PICK k \in UpSlots : upJobs[k].at \in Unfinished /\ upJobs[k].user = v
      BY <2>2
    <3>2. CASE k = j
      BY <1>1, <1>3, <1>4, <1>5, <3>1, <3>2 DEF Unfinished
    <3>3. CASE k # j
      BY <1>5, <3>1, <3>3
    <3> QED BY <3>2, <3>3
  <2> QED BY <2>1, <2>2 DEF UpInv, NoStrandedUser, Unfinished
<1> QED BY <1>8, <1>9, <1>10, <1>11 DEF UpInv

\* A deleted user takes its links and sessions with it.
LEMMA DeleteFacts ==
    ASSUME UpInv, NEW u \in UpUsers, Delete(u)
    PROVE  /\ people' \in [UpUsers -> Person] /\ ~IsLive(u)' /\ \A v \in UpUsers \ {u} : people'[v] = people[v]
           /\ mapping' \in [Subjects -> UpUsers \cup {None}]
           /\ \A s \in Subjects, v \in UpUsers \ {u} : mapping[s] = v => mapping'[s] = v
           /\ upSessions' \subseteq upSessions /\ \A x \in upSessions' : x.user # u
<1>1. /\ people' = [people EXCEPT ![u] = IF IsLive(u) THEN [row |-> "deleted"] ELSE people[u]]
      /\ mapping' = [s \in Subjects |-> IF mapping[s] = u THEN None ELSE mapping[s]]
      /\ upSessions' = {x \in upSessions : x.user # u}
  BY DEF Delete
<1>2. people \in [UpUsers -> Person] /\ mapping \in [Subjects -> UpUsers \cup {None}] /\ people[u] \in Person
  BY DEF UpInv, UpTypes
<1>3. [row |-> "deleted"] \in Person /\ [row |-> "deleted"].row # "live"
  BY DEF Person
<1>4. people' \in [UpUsers -> Person] /\ \A v \in UpUsers \ {u} : people'[v] = people[v]
  BY <1>1, <1>2, <1>3
<1>5. people'[u].row # "live"
  BY <1>1, <1>2, <1>3 DEF IsLive
<1> QED BY <1>1, <1>2, <1>4, <1>5 DEF IsLive

\* The request in slot j ends or stays, and its user, if it is an unfinished
\* one, is gone.
LEMMA DeleteKeeps ==
    ASSUME UpInv, NEW u \in UpUsers, Delete(u), UNCHANGED <<source, cache, auths, crashed>>,
           \/ UNCHANGED upJobs
           \/ \E j \in UpSlots : End(j) /\ upJobs[j].at = "cleanup" /\ upJobs[j].user = u
    PROVE  UpInv'
<1>1. UpTypes
  BY DEF UpInv
<1>2. /\ upJobs' \in [UpSlots -> UpJob]
      /\ CacheIsSound' /\ JobsAgree' /\ \A k \in UpSlots : JobIsSound(upJobs[k])'
      /\ \A k \in UpSlots : upJobs'[k] = upJobs[k] \/ (upJobs[k].at = "cleanup" /\ upJobs[k].user = u)
  <2>1. CASE UNCHANGED upJobs
    <3>1. \A k \in UpSlots : JobIsSound(upJobs[k])'
      BY <2>1 DEF UpInv, JobIsSound, FromSource
    <3>2. CacheIsSound' /\ JobsAgree'
      BY <2>1 DEF UpInv, CacheIsSound, JobsAgree, FromSource
    <3> QED BY <1>1, <2>1, <3>1, <3>2 DEF UpTypes
  <2>2. CASE \E j \in UpSlots : End(j) /\ upJobs[j].at = "cleanup" /\ upJobs[j].user = u
    <3>1. PICK j \in UpSlots : Put(j, IdleRequest) /\ upJobs[j].at = "cleanup" /\ upJobs[j].user = u
      BY <2>2 DEF End
    <3>2. CacheIsSound' /\ JobsAgree' /\ \A k \in UpSlots : JobIsSound(upJobs[k])'
      BY <3>1, IdleIsSound, JobsStaySound
    <3> QED BY <1>1, <3>1, <3>2, IdleIsSound, PutFacts
  <2> QED BY <2>1, <2>2
<1>3. UpTypes'
  BY <1>1, <1>2, DeleteFacts DEF UpTypes
<1>4. SourceStateMatchesTrust'
  <2>1. \A k \in UpSlots : upJobs[k].at = "revoke" => upJobs'[k] = upJobs[k]
    BY <1>2
  <2>2. \A x \in upSessions' : x \in upSessions /\ (mapping[x.subject] = x.user => mapping'[x.subject] = x.user)
    BY <1>1, DeleteFacts DEF UpTypes
  <2> QED BY <2>1, <2>2 DEF UpInv, SourceStateMatchesTrust
<1>5. NoStrandedUser'
  <2> SUFFICES ASSUME NEW v \in JitUsers, IsLive(v)', ~crashed
               PROVE  \/ \E r \in Subjects : mapping'[r] = v
                      \/ \E k \in UpSlots : upJobs'[k].at \in Unfinished /\ upJobs'[k].user = v
    BY DEF NoStrandedUser, IsLive, Unfinished
  <2>1. v \in UpUsers \ {u} /\ IsLive(v)
    BY DeleteFacts DEF UpUsers, IsLive
  <2>2. \/ \E r \in Subjects : mapping[r] = v
        \/ \E k \in UpSlots : upJobs[k].at \in Unfinished /\ upJobs[k].user = v
    BY <2>1 DEF UpInv, NoStrandedUser, Unfinished
  <2> QED BY <1>2, <2>1, <2>2, DeleteFacts
<1> QED BY <1>2, <1>3, <1>4, <1>5 DEF UpInv

\* The session is late exactly when the settings or the link have changed.
LEMMA OpenSessionKeeps ==
    ASSUME UpInv, NEW j \in UpSlots, OpenSession(j)
    PROVE  UpInv'
<1>1. upJobs[j].at = "session" /\ End(j) /\ UNCHANGED <<source, cache, auths, people, mapping, crashed>>
  BY DEF OpenSession
<1>2. CASE UNCHANGED upSessions
  BY <1>1, <1>2, EndKeeps DEF Unfinished
<1>3. CASE ~UNCHANGED upSessions
  <2> DEFINE late == source.trust # upJobs[j].policy.trust \/ ~source.active \/ mapping[upJobs[j].subject] # upJobs[j].user
             x == [user |-> upJobs[j].user, subject |-> upJobs[j].subject, trust |-> upJobs[j].trust,
                   keys |-> upJobs[j].keys, late |-> late]
  <2>1. upSessions' = upSessions \cup {x}
    BY <1>3 DEF OpenSession
  <2>2. /\ UpTypes /\ upJobs' \in [UpSlots -> UpJob] /\ upJobs'[j] = IdleRequest
        /\ \A k \in UpSlots \ {j} : upJobs'[k] = upJobs[k]
    BY <1>1, IdleIsSound, PutFacts DEF UpInv, End
  <2>3. /\ "session" \in Resolving /\ upJobs[j] \in UpJob /\ JobIsSound(upJobs[j])
    BY <2>2 DEF UpInv, UpTypes, Resolving
  <2>4. upJobs[j].user \in UpUsers /\ upJobs[j].subject \in Subjects
    BY <1>1, <2>3, JobFields
  <2>5. x.user \in UpUsers /\ x.subject \in Subjects
    BY <2>4
  <2>6. ~x.late => source.active /\ x.trust = source.trust /\ x.keys = source.trust /\ mapping[x.subject] = x.user
    <3>1. upJobs[j].keys = upJobs[j].trust /\ upJobs[j].policy.trust = upJobs[j].trust
      BY <1>1, <2>3 DEF JobIsSound
    <3> QED BY <3>1
  <2> HIDE DEF x
  <2>7. UpTypes'
    BY <1>1, <2>1, <2>2, <2>5 DEF UpTypes
  <2>8. CacheIsSound' /\ JobsAgree' /\ \A k \in UpSlots : JobIsSound(upJobs[k])'
    BY <1>1, IdleIsSound, JobsStaySound DEF End
  <2>9. SourceStateMatchesTrust'
    <3>1. \A k \in UpSlots : upJobs[k].at = "revoke" => upJobs'[k] = upJobs[k]
      BY <1>1, <2>2
    <3> QED BY <1>1, <2>1, <2>6, <3>1 DEF UpInv, SourceStateMatchesTrust
  <2>10. NoStrandedUser'
    BY <1>1, <2>2 DEF UpInv, NoStrandedUser, IsLive
  <2> QED BY <2>7, <2>8, <2>9, <2>10 DEF UpInv
<1> QED BY <1>2, <1>3

\* A link is removed only from a user with a password, and its sessions wait
\* for the revocation.
LEMMA UnlinkKeeps ==
    ASSUME UpInv, NEW j \in UpSlots, Unlink(j)
    PROVE  UpInv'
<1>1. upJobs[j].at = "idle" /\ UNCHANGED <<source, cache, auths, people, upSessions, crashed>>
  BY DEF Unlink
<1>2. PICK u \in UpUsers : /\ u = LocalUser
                           /\ mapping' = [s \in Subjects |-> IF mapping[s] = u THEN None ELSE mapping[s]]
                           /\ Put(j, [at |-> "revoke", user |-> u])
  BY DEF Unlink, HasPassword
<1> DEFINE job == [at |-> "revoke", user |-> u]
<1>3. job \in UpJob /\ job.at = "revoke" /\ job.user = u
  BY DEF UpJob
<1>4. JobIsSound(job)
  BY <1>3 DEF JobIsSound, Resolving
<1> HIDE DEF job
<1>5. /\ UpTypes /\ upJobs' \in [UpSlots -> UpJob] /\ upJobs'[j] = job
      /\ \A k \in UpSlots \ {j} : upJobs'[k] = upJobs[k]
  BY <1>2, <1>3, PutFacts DEF UpInv, job
<1>6. mapping \in [Subjects -> UpUsers \cup {None}] /\ mapping' \in [Subjects -> UpUsers \cup {None}]
      /\ \A s \in Subjects, v \in UpUsers \ {u} : mapping[s] = v => mapping'[s] = v
  BY <1>2, <1>5 DEF UpTypes
<1>7. UpTypes'
  BY <1>1, <1>5, <1>6 DEF UpTypes
<1>8. CacheIsSound' /\ JobsAgree' /\ \A k \in UpSlots : JobIsSound(upJobs[k])'
  BY <1>1, <1>2, <1>3, <1>4, JobsStaySound DEF job
<1>9. SourceStateMatchesTrust'
  <2>1. \A k \in UpSlots : upJobs[k].at = "revoke" => upJobs'[k] = upJobs[k]
    BY <1>1, <1>5
  <2>2. \A x \in upSessions : mapping[x.subject] = x.user => mapping'[x.subject] = x.user \/ x.user = u
    BY <1>5, <1>6 DEF UpTypes
  <2> QED BY <1>1, <1>3, <1>5, <2>1, <2>2 DEF UpInv, SourceStateMatchesTrust
<1>10. NoStrandedUser'
  <2>1. \A k \in UpSlots : upJobs[k].at \in Unfinished => upJobs'[k] = upJobs[k]
    BY <1>1, <1>5 DEF Unfinished
  <2>2. \A v \in JitUsers, s \in Subjects : mapping[s] = v => mapping'[s] = v
    BY <1>2, <1>6, UpstreamAssumption DEF UpUsers
  <2> QED BY <1>1, <2>1, <2>2 DEF UpInv, NoStrandedUser, IsLive, Unfinished
<1> QED BY <1>7, <1>8, <1>9, <1>10 DEF UpInv

\* The sessions of the unlinked user end, or the server stops before that.
LEMMA RevokeUnlinkedKeeps ==
    ASSUME UpInv, NEW j \in UpSlots, RevokeUnlinked(j) \/ CrashRequest(j)
    PROVE  UpInv'
<1>1. End(j) /\ UNCHANGED <<source, cache, auths, people, mapping>> /\ upSessions' \subseteq upSessions
  BY DEF RevokeUnlinked, CrashRequest
<1>2. \/ upJobs[j].at = "revoke" /\ crashed' = crashed /\ (\A x \in upSessions' : x.user # upJobs[j].user)
      \/ crashed' = TRUE
  BY DEF RevokeUnlinked, CrashRequest
<1>3. /\ UpTypes /\ upJobs' \in [UpSlots -> UpJob] /\ upJobs'[j] = IdleRequest
      /\ \A k \in UpSlots \ {j} : upJobs'[k] = upJobs[k]
  BY <1>1, IdleIsSound, PutFacts DEF UpInv, End
<1>4. UpTypes'
  BY <1>1, <1>3 DEF UpTypes
<1>5. CacheIsSound' /\ JobsAgree' /\ \A k \in UpSlots : JobIsSound(upJobs[k])'
  BY <1>1, IdleIsSound, JobsStaySound DEF End
<1>6. SourceStateMatchesTrust'
  <2>1. \A a \in auths' : ~a.late => source'.active /\ a.trust = source'.trust
    BY <1>1 DEF UpInv, SourceStateMatchesTrust
  <2>2. ASSUME NEW x \in upSessions', ~x.late
        PROVE  /\ source'.active /\ x.trust = source'.trust /\ x.keys = source'.trust
               /\ \/ mapping'[x.subject] = x.user \/ crashed'
                  \/ \E k \in UpSlots : upJobs'[k].at = "revoke" /\ upJobs'[k].user = x.user
    <3>1. /\ source.active /\ x.trust = source.trust /\ x.keys = source.trust
          /\ \/ mapping[x.subject] = x.user \/ crashed
             \/ \E k \in UpSlots : upJobs[k].at = "revoke" /\ upJobs[k].user = x.user
      BY <1>1, <2>2 DEF UpInv, SourceStateMatchesTrust
    <3>2. CASE crashed' = TRUE
      BY <1>1, <3>1, <3>2
    <3>3. CASE upJobs[j].at = "revoke" /\ crashed' = crashed /\ (\A y \in upSessions' : y.user # upJobs[j].user)
      <4>1. \A k \in UpSlots : upJobs[k].user = x.user => k # j
        BY <3>3
      <4> QED BY <1>1, <1>3, <3>1, <3>3, <4>1
    <3> QED BY <1>2, <3>2, <3>3
  <2> QED BY <2>1, <2>2 DEF SourceStateMatchesTrust
<1>7. NoStrandedUser'
  <2>1. CASE crashed' = TRUE
    BY <2>1 DEF NoStrandedUser
  <2>2. CASE upJobs[j].at = "revoke" /\ crashed' = crashed
    BY <1>1, <1>3, <2>2 DEF UpInv, NoStrandedUser, IsLive
  <2> QED BY <1>2, <2>1, <2>2
<1> QED BY <1>4, <1>5, <1>6, <1>7 DEF UpInv

\* What only ends transactions or empties the cache.
LEMMA ExpiryKeeps ==
    ASSUME UpInv, auths' \subseteq auths, cache' \subseteq cache, UNCHANGED <<source, people, mapping, upSessions, upJobs, crashed>>
    PROVE  UpInv'
<1>1. UpTypes'
  BY DEF UpInv, UpTypes
<1>2. CacheIsSound' /\ JobsAgree'
  BY DEF UpInv, CacheIsSound, JobsAgree, FromSource
<1>3. \A k \in UpSlots : JobIsSound(upJobs[k])'
  BY DEF UpInv, JobIsSound, FromSource
<1>4. SourceStateMatchesTrust' /\ NoStrandedUser'
  BY DEF UpInv, SourceStateMatchesTrust, NoStrandedUser, IsLive
<1> QED BY <1>1, <1>2, <1>3, <1>4 DEF UpInv

\* Every edit has a number of its own, and an edit that ends the trust ends
\* what rests on it.
LEMMA UpdateSourceKeeps ==
    ASSUME UpInv, UpdateSource
    PROVE  UpInv'
<1>1. PICK new \in Source :
        /\ new.edits = source.edits + 1 /\ source' = new
        /\ upSessions' = IF EndsTrust(new) THEN {} ELSE upSessions
        /\ auths' = IF EndsTrust(new) THEN {} ELSE auths
  BY DEF UpdateSource
<1>2. UNCHANGED <<cache, people, mapping, upJobs, crashed>>
  BY DEF UpdateSource
<1>3. source.edits \in Nat /\ UpTypes
  BY DEF UpInv, UpTypes, Source, Version
<1>4. \A e : e.edits \in Nat /\ FromSource(e) => e.edits < new.edits
  BY <1>1, <1>3 DEF FromSource
<1>5. UpTypes'
  BY <1>1, <1>2, <1>3 DEF UpTypes
<1>6. CacheIsSound'
  <2>1. \A e \in cache : e.edits \in Nat
    BY <1>3 DEF UpTypes, Version
  <2> QED BY <1>1, <1>2, <1>3, <1>4, <2>1 DEF UpInv, CacheIsSound, FromSource
<1>7. JobsAgree'
  BY <1>2 DEF UpInv, JobsAgree
<1>8. ASSUME NEW k \in UpSlots
      PROVE  JobIsSound(upJobs[k])'
  <2>1. PICK q : q = upJobs[k] /\ q = upJobs'[k] /\ JobIsSound(q) /\ q \in UpJob
    BY <1>2, <1>3 DEF UpInv, UpTypes
  <2>2. q.at = "exchange" => q.edits \in Nat
    BY <2>1, JobFields DEF Version
  <2>3. JobIsSound(q)'
    BY <1>1, <1>2, <1>3, <1>4, <2>1, <2>2 DEF JobIsSound, FromSource
  <2> QED BY <2>1, <2>3
<1>9. SourceStateMatchesTrust'
  <2>1. CASE EndsTrust(new)
    BY <1>1, <2>1 DEF SourceStateMatchesTrust
  <2>2. CASE ~EndsTrust(new)
    <3>1. source.active => new.active /\ new.trust = source.trust
      BY <2>2 DEF EndsTrust
    <3> QED BY <1>1, <1>2, <2>2, <3>1 DEF UpInv, SourceStateMatchesTrust
  <2> QED BY <2>1, <2>2
<1>10. NoStrandedUser'
  BY <1>2 DEF UpInv, NoStrandedUser, IsLive
<1> QED BY <1>5, <1>6, <1>7, <1>8, <1>9, <1>10 DEF UpInv

\* Every step keeps the invariant.
LEMMA UpStep ==
    ASSUME UpInv, [UpNext]_upVars
    PROVE  UpInv'
<1>1. ASSUME NEW j \in UpSlots,
             \/ Begin(j) \/ SaveAuthorization(j) \/ Consume(j) \/ ReadSource(j) \/ ExchangeCode(j) \/ Recheck(j)
             \/ FindMapping(j) \/ FindEmail(j)
      PROVE  UpInv'
  BY <1>1, TransactionBeginKeeps, SaveAuthorizationKeeps, ConsumeKeeps, ReadSourceKeeps, ExchangeCodeKeeps, RecheckKeeps,
     FindMappingKeeps, FindEmailKeeps
<1>2. ASSUME NEW j \in UpSlots, Cleanup(j)
      PROVE  UpInv'
  <2>1. upJobs[j].at = "cleanup" /\ "cleanup" \in Resolving /\ upJobs[j] \in UpJob
    BY <1>2 DEF Cleanup, Resolving, UpInv, UpTypes
  <2>2. upJobs[j].user \in UpUsers
    BY <2>1, JobFields
  <2> QED BY <1>2, <2>2, DeleteKeeps DEF Cleanup
<1>3. ASSUME NEW j \in UpSlots,
             \/ CreateJit(j) \/ EnsureMember(j) \/ LinkUser(j) \/ Cleanup(j)
             \/ OpenSession(j) \/ Unlink(j) \/ RevokeUnlinked(j) \/ CrashRequest(j)
      PROVE  UpInv'
  BY <1>2, <1>3, CreateJitKeeps, EnsureMemberKeeps, LinkUserKeeps, OpenSessionKeeps, UnlinkKeeps, RevokeUnlinkedKeeps
<1>4. CASE ExpireAuthorization \/ ExpireCache \/ UNCHANGED upVars
  BY <1>4, ExpiryKeeps DEF ExpireAuthorization, ExpireCache, upVars
<1>5. CASE DeleteUser
  BY <1>5, DeleteKeeps DEF DeleteUser
<1>6. CASE UpdateSource
  BY <1>6, UpdateSourceKeeps
<1> QED BY <1>1, <1>3, <1>4, <1>5, <1>6, Zenon DEF UpNext

\* The invariant holds before the first login.
LEMMA UpStart ==
    ASSUME UpInit
    PROVE  UpInv
<1>1. source \in Source /\ cache = {} /\ upSessions = {} /\ auths = {}
  BY UpstreamAssumption DEF UpInit, Source
<1>2. upJobs = [j \in UpSlots |-> IdleRequest] /\ upJobs \in [UpSlots -> UpJob]
  BY IdleIsSound DEF UpInit
<1>3. mapping \in [Subjects -> UpUsers \cup {None}]
  BY DEF UpInit
<1>4. people \in [UpUsers -> Person] /\ \A u \in JitUsers : ~IsLive(u)
  BY UpstreamAssumption DEF UpInit, Person, UpUsers, IsLive
<1>5. UpTypes
  BY <1>1, <1>2, <1>3, <1>4 DEF UpTypes
<1>6. CacheIsSound /\ JobsAgree /\ \A j \in UpSlots : JobIsSound(upJobs[j])
  BY <1>1, <1>2, IdleIsSound DEF CacheIsSound, JobsAgree
<1>7. SourceStateMatchesTrust /\ NoStrandedUser
  BY <1>1, <1>4 DEF SourceStateMatchesTrust, NoStrandedUser
<1> QED BY <1>5, <1>6, <1>7 DEF UpInv

\* Hence it holds always.
LEMMA UpInvariant == UpSpec => []UpInv
<1>1. UpInit => UpInv
  BY UpStart
<1>2. UpInv /\ [UpNext]_upVars => UpInv'
  BY UpStep
<1> QED BY <1>1, <1>2, PTL DEF UpSpec

\* Transactions and sessions of a source rest on the trust in force: the update of
\* the source ends them in its own transaction, and the callback compares the
\* source it used, cached metadata and keys included, with the source it finds.
THEOREM TrustSafe == UpSpec => []SourceStateMatchesTrust
<1>1. UpInv => SourceStateMatchesTrust
  BY DEF UpInv
<1> QED BY <1>1, UpInvariant, PTL

\* A provisioned user has a linked subject, or a request that will bind or remove
\* it, unless the server stopped halfway.
THEOREM ProvisioningSafe == UpSpec => []NoStrandedUser
<1>1. UpInv => NoStrandedUser
  BY DEF UpInv
<1> QED BY <1>1, UpInvariant, PTL

-----------------------------------------------------------------------------
(* The request quotas *)

\* how many entries a window that ends at x still counts
Since(entries, x) == Cardinality({i \in DOMAIN entries : entries[i] + Window > x})

\* when the bucket of time n began
BucketStart(n) == n - (n % Window)

\* What holds of one key at time n: the requests of the current bucket are in one of
\* the two counters, and those of the bucket before add at most one quota.
KeyCounts(n, quota, hit, entries, passed) ==
    /\ hit \in 0 .. quota
    /\ entries \in Seq(Nat) /\ passed \in Seq(Nat) /\ \A i \in DOMAIN passed : passed[i] <= n
    /\ \A x \in Nat : x >= BucketStart(n) + Window => Since(passed, x) <= Since(entries, x) + hit
    /\ \A x \in Nat : x >= BucketStart(n) => Since(passed, x) <= Since(entries, x) + hit + quota
    /\ Since(entries, n) <= quota

\* Both keys are counted, and in production memory is never used.
QuotaInv ==
    /\ now \in Nat /\ production \in BOOLEAN /\ redisUp \in BOOLEAN
    /\ DOMAIN hits = Keys /\ DOMAIN stamps = Keys /\ DOMAIN granted = Keys
    /\ \A k \in Keys : KeyCounts(now, Quota[k], hits[k], stamps[k], granted[k])
    /\ production => \A k \in Keys : stamps[k] = <<>>

-----------------------------------------------------------------------------
\* A bucket lasts Window seconds.
LEMMA BucketMoves ==
    ASSUME NEW n \in Nat
    PROVE  /\ BucketStart(n) \in Nat /\ BucketStart(n) <= n /\ n < BucketStart(n) + Window
           /\ BucketStart(n + 1) = IF (n + 1) % Window = 0 THEN BucketStart(n) + Window ELSE BucketStart(n)
           /\ (n + 1) % Window = 0 => n + 1 = BucketStart(n) + Window
<1>1. PICK W \in Nat \ {0} : W = Window
  BY QuotaAssumption
<1>2. n = ((n \div W) * W) + (n % W) /\ n \div W \in Nat /\ n % W \in 0 .. W - 1
  OBVIOUS
<1>3. n + 1 = (((n + 1) \div W) * W) + ((n + 1) % W) /\ (n + 1) \div W \in Nat /\ (n + 1) % W \in 0 .. W - 1
  OBVIOUS
<1>4. ASSUME NEW a \in Int, NEW b \in Int, NEW r \in 0 .. W - 1, NEW t \in 0 .. W - 1, (a * W) + r + 1 = (b * W) + t
      PROVE  t = IF r = W - 1 THEN 0 ELSE r + 1
  BY <1>4
<1>5. (n + 1) % W = IF n % W = W - 1 THEN 0 ELSE (n % W) + 1
  <2>1. PICK a \in Int : a = n \div W
    BY <1>2
  <2>2. PICK b \in Int : b = (n + 1) \div W
    BY <1>3
  <2>3. PICK r \in 0 .. W - 1 : r = n % W
    BY <1>2
  <2>4. PICK t \in 0 .. W - 1 : t = (n + 1) % W
    BY <1>3
  <2>5. (a * W) + r + 1 = (b * W) + t
    BY <1>2, <1>3, <2>1, <2>2, <2>3, <2>4
  <2>6. t = IF r = W - 1 THEN 0 ELSE r + 1
    BY <2>5, <1>4
  <2> QED BY <2>3, <2>4, <2>6
<1>6. n % W <= n
  OBVIOUS
<1>7. PICK r \in 0 .. W - 1 : r = n % W
  BY <1>2
<1>8. PICK t \in 0 .. W - 1 : t = (n + 1) % W
  BY <1>3
<1>9. r <= n /\ t = IF r = W - 1 THEN 0 ELSE r + 1
  BY <1>5, <1>6, <1>7, <1>8
<1>10. BucketStart(n) = n - r /\ BucketStart(n + 1) = n + 1 - t
  BY <1>1, <1>7, <1>8 DEF BucketStart
<1> QED BY <1>1, <1>8, <1>9, <1>10

\* The number of entries in a window is a number, and falls as time passes.
LEMMA SinceFalls ==
    ASSUME NEW E \in Seq(Nat), NEW x \in Nat, NEW y \in Nat, x <= y
    PROVE  Since(E, x) \in Nat /\ Since(E, y) \in Nat /\ Since(E, y) <= Since(E, x)
<1> DEFINE A == {i \in DOMAIN E : E[i] + Window > x}
           B == {i \in DOMAIN E : E[i] + Window > y}
<1>1. IsFiniteSet(DOMAIN E)
  <2>1. DOMAIN E = 1 .. Len(E) /\ Len(E) \in Nat
    BY LenProperties
  <2> QED BY <2>1, FS_Interval
<1>2. \A i \in DOMAIN E : E[i] \in Nat
  BY ElementOfSeq, LenProperties
<1>3. B \in SUBSET A
  BY <1>2, QuotaAssumption
<1>4. IsFiniteSet(A)
  BY <1>1, FS_Subset, A \in SUBSET DOMAIN E
<1>5. IsFiniteSet(B) /\ Cardinality(B) <= Cardinality(A)
  BY <1>3, <1>4, FS_Subset
<1> QED BY <1>4, <1>5, FS_CardinalityType DEF Since

\* One more entry.
LEMMA SinceAppend ==
    ASSUME NEW E \in Seq(Nat), NEW n \in Nat, NEW x \in Nat
    PROVE  /\ Since(E, x) \in Nat
           /\ Since(Append(E, n), x) = Since(E, x) + (IF n + Window > x THEN 1 ELSE 0)
<1> DEFINE F == Append(E, n)
           A == {i \in DOMAIN E : E[i] + Window > x}
           B == {i \in DOMAIN F : F[i] + Window > x}
           m == Len(E) + 1
<1>1. DOMAIN E = 1 .. Len(E) /\ Len(E) \in Nat
  BY LenProperties
<1>2. DOMAIN F = 1 .. m /\ F[m] = n /\ \A i \in 1 .. Len(E) : F[i] = E[i]
  BY AppendProperties, <1>1
<1>3. IsFiniteSet(A)
  <2>1. IsFiniteSet(DOMAIN E)
    BY <1>1, FS_Interval
  <2> QED BY <2>1, FS_Subset, A \in SUBSET DOMAIN E
<1>4. Cardinality(A) \in Nat
  BY <1>3, FS_CardinalityType
<1>0. Since(E, x) = Cardinality(A) /\ Since(F, x) = Cardinality(B)
  BY DEF Since
<1> HIDE DEF F
<1>5. DOMAIN F = DOMAIN E \cup {m} /\ m \notin DOMAIN E
  BY <1>1, <1>2
<1>6. CASE n + Window > x
  <2>1. B = A \cup {m} /\ m \notin A
    BY <1>1, <1>2, <1>5, <1>6
  <2>2. Cardinality(A \cup {m}) = IF m \in A THEN Cardinality(A) ELSE Cardinality(A) + 1
    BY <1>3, FS_AddElement
  <2>3. Since(F, x) = Since(E, x) + 1
    BY <1>0, <2>1, <2>2
  <2> QED BY <1>0, <1>4, <1>6, <2>3 DEF F
<1>7. CASE ~(n + Window > x)
  <2>1. B = A
    BY <1>1, <1>2, <1>5, <1>7
  <2>3. Since(F, x) = Since(E, x)
    BY <1>0, <2>1
  <2>4. Since(E, x) \in Nat
    BY <1>0, <1>4
  <2>5. Since(Append(E, n), x) = Since(E, x)
    BY <2>3 DEF F
  <2> QED BY <1>7, <2>4, <2>5
<1> QED BY <1>6, <1>7

\* A window without entries.
LEMMA SinceNothing ==
    ASSUME NEW E, NEW x, \A i \in DOMAIN E : ~(E[i] + Window > x)
    PROVE  Since(E, x) = 0
<1>1. {i \in DOMAIN E : E[i] + Window > x} = {}
  OBVIOUS
<1> QED BY <1>1, FS_EmptySet DEF Since

\* A request is let through and counted, in Redis or in memory.
LEMMA KeyCharged ==
    ASSUME NEW n \in Nat, NEW q \in Nat, NEW h, NEW E, NEW G, KeyCounts(n, q, h, E, G)
    PROVE  /\ h < q => KeyCounts(n, q, h + 1, E, Append(G, n))
           /\ Since(E, n) < q => KeyCounts(n, q, h, Append(E, n), Append(G, n))
<1> DEFINE F == Append(G, n)
           D == Append(E, n)
           s == BucketStart(n)
           one(x) == IF n + Window > x THEN 1 ELSE 0
<1>1. /\ h \in 0 .. q /\ E \in Seq(Nat) /\ G \in Seq(Nat) /\ \A i \in DOMAIN G : G[i] <= n
      /\ \A x \in Nat : x >= s + Window => Since(G, x) <= Since(E, x) + h
      /\ \A x \in Nat : x >= s => Since(G, x) <= Since(E, x) + h + q
      /\ Since(E, n) <= q
  BY DEF KeyCounts
<1>2. F \in Seq(Nat) /\ D \in Seq(Nat) /\ \A i \in DOMAIN F : F[i] <= n
  <2>1. /\ F \in Seq(Nat) /\ D \in Seq(Nat) /\ DOMAIN F = 1 .. Len(G) + 1 /\ F[Len(G) + 1] = n
        /\ \A i \in 1 .. Len(G) : F[i] = G[i]
    BY <1>1, AppendProperties, LenProperties
  <2>2. DOMAIN G = 1 .. Len(G) /\ Len(G) \in Nat
    BY <1>1, LenProperties
  <2> HIDE DEF F, D
  <2>3. \A i \in DOMAIN F : i \in DOMAIN G \/ i = Len(G) + 1
    BY <2>1, <2>2
  <2>4. \A i \in DOMAIN F : F[i] <= n
    <3> TAKE i \in DOMAIN F
    <3>1. CASE i \in DOMAIN G
      <4>1. F[i] = G[i] /\ G[i] <= n
        BY <3>1, <1>1, <2>1, <2>2
      <4> QED BY <4>1
    <3>2. CASE i = Len(G) + 1
      <4>1. F[i] = n
        BY <3>2, <2>1
      <4> QED BY <4>1
    <3> QED BY <2>3, <3>1, <3>2
  <2> QED BY <2>1, <2>4
<1>3. \A x \in Nat : /\ Since(E, x) \in Nat /\ Since(G, x) \in Nat /\ one(x) \in 0 .. 1
                     /\ Since(F, x) = Since(G, x) + one(x) /\ Since(D, x) = Since(E, x) + one(x)
  <2> TAKE x \in Nat
  <2>1. Since(E, x) \in Nat /\ Since(D, x) = Since(E, x) + one(x)
    BY <1>1, SinceAppend
  <2>2. Since(G, x) \in Nat /\ Since(F, x) = Since(G, x) + one(x)
    BY <1>1, SinceAppend
  <2>3. one(x) \in 0 .. 1
    OBVIOUS
  <2> HIDE DEF F, D, one
  <2> QED BY <2>1, <2>2, <2>3
<1> HIDE DEF F, D, s, one
<1>4. ASSUME h < q PROVE KeyCounts(n, q, h + 1, E, F)
  <2>1. /\ \A x \in Nat : x >= s + Window => Since(F, x) <= Since(E, x) + (h + 1)
        /\ \A x \in Nat : x >= s => Since(F, x) <= Since(E, x) + (h + 1) + q
    <3> SUFFICES ASSUME NEW x \in Nat
                 PROVE  /\ x >= s + Window => Since(F, x) <= Since(E, x) + (h + 1)
                        /\ x >= s => Since(F, x) <= Since(E, x) + (h + 1) + q
      OBVIOUS
    <3>1. /\ x >= s + Window => Since(G, x) <= Since(E, x) + h
          /\ x >= s => Since(G, x) <= Since(E, x) + h + q
      BY <1>1
    <3>2. /\ Since(E, x) \in Nat /\ Since(G, x) \in Nat /\ one(x) \in 0 .. 1 /\ Since(F, x) = Since(G, x) + one(x)
      BY <1>3
    <3> QED BY <1>1, <3>1, <3>2
  <2>2. h + 1 \in 0 .. q
    BY <1>1, <1>4
  <2> QED BY <1>1, <1>2, <2>1, <2>2 DEF KeyCounts, s
<1>5. ASSUME Since(E, n) < q PROVE KeyCounts(n, q, h, D, F)
  <2>1. /\ \A x \in Nat : x >= s + Window => Since(F, x) <= Since(D, x) + h
        /\ \A x \in Nat : x >= s => Since(F, x) <= Since(D, x) + h + q
    <3> SUFFICES ASSUME NEW x \in Nat
                 PROVE  /\ x >= s + Window => Since(F, x) <= Since(D, x) + h
                        /\ x >= s => Since(F, x) <= Since(D, x) + h + q
      OBVIOUS
    <3>1. /\ x >= s + Window => Since(G, x) <= Since(E, x) + h
          /\ x >= s => Since(G, x) <= Since(E, x) + h + q
      BY <1>1
    <3>2. /\ Since(E, x) \in Nat /\ Since(G, x) \in Nat /\ one(x) \in 0 .. 1
          /\ Since(F, x) = Since(G, x) + one(x) /\ Since(D, x) = Since(E, x) + one(x)
      BY <1>3
    <3> QED BY <1>1, <3>1, <3>2
  <2>2. Since(D, n) <= q
    BY <1>3, <1>5
  <2> QED BY <1>1, <1>2, <2>1, <2>2 DEF KeyCounts, s
<1> QED BY <1>4, <1>5 DEF F, D

\* Time passes; at a multiple of Window the Redis counter starts from nothing.
LEMMA KeyTicks ==
    ASSUME NEW n \in Nat, NEW q \in Nat, NEW h, NEW E, NEW G, KeyCounts(n, q, h, E, G)
    PROVE  KeyCounts(n + 1, q, IF (n + 1) % Window = 0 THEN 0 ELSE h, E, G)
<1> DEFINE s == BucketStart(n)
<1>1. /\ h \in 0 .. q /\ E \in Seq(Nat) /\ G \in Seq(Nat) /\ \A i \in DOMAIN G : G[i] <= n
      /\ \A x \in Nat : x >= s + Window => Since(G, x) <= Since(E, x) + h
      /\ \A x \in Nat : x >= s => Since(G, x) <= Since(E, x) + h + q
      /\ Since(E, n) <= q
  BY DEF KeyCounts
<1>2. /\ s \in Nat /\ s <= n /\ n < s + Window
      /\ BucketStart(n + 1) = IF (n + 1) % Window = 0 THEN s + Window ELSE s
      /\ (n + 1) % Window = 0 => n + 1 = s + Window
  BY BucketMoves
<1>3. \A i \in DOMAIN G : G[i] <= n + 1 /\ G[i] \in Nat
  <2>1. \A i \in DOMAIN G : G[i] \in Nat
    BY <1>1, ElementOfSeq, LenProperties
  <2> QED BY <1>1, <2>1
<1>4. \A x \in Nat : Since(E, x) \in Nat /\ Since(G, x) \in Nat
  <2> TAKE x \in Nat
  <2>1. x <= x
    OBVIOUS
  <2> QED BY <1>1, <2>1, SinceFalls
<1>5. Since(E, n + 1) <= q
  <2>1. n + 1 \in Nat /\ n <= n + 1
    OBVIOUS
  <2>2. Since(E, n + 1) <= Since(E, n)
    BY <1>1, <2>1, SinceFalls
  <2> QED BY <1>1, <1>4, <2>1, <2>2
<1> HIDE DEF s
<1>6. Window \in Nat /\ Window > 0
  BY QuotaAssumption
<1>7. CASE (n + 1) % Window = 0
  <2>1. \A x \in Nat : x >= (s + Window) + Window => Since(G, x) <= Since(E, x) + 0
    <3> SUFFICES ASSUME NEW x \in Nat, x >= (s + Window) + Window PROVE Since(G, x) = 0
      BY <1>4
    <3>1. \A i \in DOMAIN G : ~(G[i] + Window > x)
      BY <1>1, <1>2, <1>3, <1>6, <1>7
    <3> QED BY <3>1, SinceNothing
  <2>2. \A x \in Nat : x >= s + Window => Since(G, x) <= Since(E, x) + 0 + q
    <3> SUFFICES ASSUME NEW x \in Nat, x >= s + Window PROVE Since(G, x) <= Since(E, x) + 0 + q
      OBVIOUS
    <3>1. Since(G, x) <= Since(E, x) + h /\ Since(E, x) \in Nat /\ Since(G, x) \in Nat
      BY <1>1, <1>4
    <3> QED BY <1>1, <3>1
  <2> QED BY <1>1, <1>2, <1>3, <1>5, <1>7, <2>1, <2>2 DEF KeyCounts
<1>8. CASE (n + 1) % Window # 0
  <2>1. BucketStart(n + 1) = s
    BY <1>2, <1>8
  <2>2. KeyCounts(n + 1, q, h, E, G)
    BY <1>1, <1>3, <1>5, <2>1 DEF KeyCounts
  <2> QED BY <1>8, <2>2
<1> QED BY <1>7, <1>8

-----------------------------------------------------------------------------
\* Both entry points charge keys, of which each that is allowed is counted.
LEMMA ChargeKeeps ==
    ASSUME QuotaInv, NEW ks \in SUBSET Keys, MayServe, Charge(ks), UNCHANGED <<now, production, redisUp>>
    PROVE  QuotaInv'
<1>1. /\ hits' = [k \in Keys |-> IF redisUp /\ k \in ks /\ Allowed(k) THEN hits[k] + 1 ELSE hits[k]]
      /\ stamps' = [k \in Keys |-> IF ~redisUp /\ k \in ks /\ Allowed(k) THEN Append(stamps[k], now) ELSE stamps[k]]
      /\ granted' = [k \in Keys |-> IF k \in ks /\ Allowed(k) THEN Append(granted[k], now) ELSE granted[k]]
  <2>1. \A k \in Keys : k \in {i \in ks : Allowed(i)} <=> k \in ks /\ Allowed(k)
    OBVIOUS
  <2> QED BY <2>1 DEF Charge
<1>2. ASSUME NEW k \in Keys
      PROVE  KeyCounts(now, Quota[k], hits'[k], stamps'[k], granted'[k])
  <2>1. /\ now \in Nat /\ Quota[k] \in Nat
        /\ KeyCounts(now, Quota[k], hits[k], stamps[k], granted[k])
    BY QuotaAssumption DEF QuotaInv
  <2>2. CASE ~(k \in ks /\ Allowed(k))
    BY <2>1, <2>2, <1>1
  <2>3. CASE k \in ks /\ Allowed(k) /\ redisUp
    <3>1. hits[k] < Quota[k]
      BY <2>3 DEF Allowed
    <3>2. hits'[k] = hits[k] + 1 /\ stamps'[k] = stamps[k] /\ granted'[k] = Append(granted[k], now)
      BY <2>3, <1>1
    <3>3. KeyCounts(now, Quota[k], hits[k] + 1, stamps[k], Append(granted[k], now))
      BY <2>1, <3>1, KeyCharged
    <3> QED BY <3>2, <3>3
  <2>4. CASE k \in ks /\ Allowed(k) /\ ~redisUp
    <3>1. Since(stamps[k], now) < Quota[k]
      BY <2>4 DEF Allowed, Live, Since
    <3>2. hits'[k] = hits[k] /\ stamps'[k] = Append(stamps[k], now) /\ granted'[k] = Append(granted[k], now)
      BY <2>4, <1>1
    <3>3. KeyCounts(now, Quota[k], hits[k], Append(stamps[k], now), Append(granted[k], now))
      BY <2>1, <3>1, KeyCharged
    <3> QED BY <3>2, <3>3
  <2> QED BY <2>2, <2>3, <2>4
<1>3. production => \A k \in Keys : stamps'[k] = <<>>
  BY <1>1 DEF QuotaInv, MayServe
<1>4. DOMAIN hits' = Keys /\ DOMAIN stamps' = Keys /\ DOMAIN granted' = Keys
  BY <1>1
<1> QED BY <1>2, <1>3, <1>4 DEF QuotaInv

\* Hence the invariant holds always.
LEMMA QuotaInvariant == QuotaSpec => []QuotaInv
<1>1. now = 0 /\ QuotaInit => QuotaInv
  <2> SUFFICES ASSUME now = 0, QuotaInit PROVE QuotaInv
    OBVIOUS
  <2>1. production \in BOOLEAN /\ redisUp \in BOOLEAN
    BY Zenon DEF QuotaInit
  <2>2. DOMAIN hits = Keys /\ DOMAIN stamps = Keys /\ DOMAIN granted = Keys
    BY DEF QuotaInit
  <2>3. \A x : Since(<<>>, x) = 0
    BY SinceNothing
  <2>4. ASSUME NEW k \in Keys
        PROVE  stamps[k] = <<>> /\ KeyCounts(0, Quota[k], hits[k], stamps[k], granted[k])
    <3>1. hits[k] = 0 /\ stamps[k] = <<>> /\ granted[k] = <<>> /\ Quota[k] \in Nat
      BY QuotaAssumption DEF QuotaInit
    <3>2. <<>> \in Seq(Nat) /\ DOMAIN <<>> = {}
      OBVIOUS
    <3> QED BY <3>1, <3>2, <2>3 DEF KeyCounts
  <2> QED BY <2>1, <2>2, <2>4 DEF QuotaInv
<1>2. QuotaInv /\ [QuotaNext]_<<now, production, redisUp, quotaVars>> => QuotaInv'
  <2> SUFFICES ASSUME QuotaInv, [QuotaNext]_<<now, production, redisUp, quotaVars>> PROVE QuotaInv'
    OBVIOUS
  <2>1. CASE LimitInTurn
    <3>1. PICK ks \in SUBSET Keys : Charge(ks)
      BY <2>1 DEF LimitInTurn, Keys
    <3> QED BY <2>1, <3>1, ChargeKeeps DEF LimitInTurn
  <2>2. CASE LimitAsPair
    BY <2>2, ChargeKeeps DEF LimitAsPair
  <2>3. CASE RedisChange
    <3>1. UNCHANGED <<now, production, hits, stamps, granted>> /\ redisUp' \in BOOLEAN
      BY <2>3, Zenon DEF RedisChange, quotaVars
    <3> QED BY <3>1 DEF QuotaInv
  <2>4. CASE NextBucket
    <3>1. /\ now' = now + 1 /\ UNCHANGED <<production, redisUp, stamps, granted>>
          /\ hits' = IF (now + 1) % Window = 0 THEN [k \in Keys |-> 0] ELSE hits
      BY <2>4 DEF NextBucket, Advance
    <3>2. ASSUME NEW k \in Keys
          PROVE  KeyCounts(now + 1, Quota[k], hits'[k], stamps[k], granted[k])
      <4>1. hits'[k] = IF (now + 1) % Window = 0 THEN 0 ELSE hits[k]
        BY <3>1
      <4>2. now \in Nat /\ Quota[k] \in Nat /\ KeyCounts(now, Quota[k], hits[k], stamps[k], granted[k])
        BY QuotaAssumption DEF QuotaInv
      <4> QED BY <4>1, <4>2, KeyTicks
    <3>3. now' \in Nat /\ DOMAIN hits' = Keys
      BY <3>1 DEF QuotaInv
    <3> QED BY <3>1, <3>2, <3>3 DEF QuotaInv
  <2>5. CASE UNCHANGED <<now, production, redisUp, quotaVars>>
    <3>1. UNCHANGED <<now, production, redisUp, hits, stamps, granted>>
      BY <2>5 DEF quotaVars
    <3> QED BY <3>1 DEF QuotaInv
  <2> QED BY <2>1, <2>2, <2>3, <2>4, <2>5 DEF QuotaNext
<1> QED BY <1>1, <1>2, PTL DEF QuotaSpec

\* Within any window an address gets at most twice its quota past the limiter in
\* production and three times outside it, for any window, quotas and Redis failures
\* (allow_auth_request, allow_auth_request_pair).
THEOREM QuotasHold == QuotaSpec => []GrantsAreBounded
<1>1. QuotaInv => GrantsAreBounded
  <2> SUFFICES ASSUME QuotaInv, NEW k \in Keys
               PROVE  Live(granted[k]) <= (IF production THEN 2 ELSE 3) * Quota[k]
    BY DEF GrantsAreBounded
  <2>1. /\ now \in Nat /\ Quota[k] \in Nat /\ KeyCounts(now, Quota[k], hits[k], stamps[k], granted[k])
    BY QuotaAssumption DEF QuotaInv
  <2>2. /\ hits[k] \in 0 .. Quota[k] /\ stamps[k] \in Seq(Nat) /\ granted[k] \in Seq(Nat)
        /\ Since(stamps[k], now) <= Quota[k]
        /\ now >= BucketStart(now) => Since(granted[k], now) <= Since(stamps[k], now) + hits[k] + Quota[k]
    BY <2>1 DEF KeyCounts
  <2>3. now >= BucketStart(now)
    BY <2>1, BucketMoves
  <2>4. Since(stamps[k], now) \in Nat /\ Since(granted[k], now) \in Nat
    <3>1. now <= now
      BY <2>1
    <3> QED BY <2>1, <2>2, <3>1, SinceFalls
  <2>5. Live(granted[k]) = Since(granted[k], now)
    BY DEF Live, Since
  <2>6. CASE production
    <3>1. Since(stamps[k], now) = 0
      BY <2>6, SinceNothing DEF QuotaInv
    <3> QED BY <2>1, <2>2, <2>3, <2>4, <2>5, <2>6, <3>1
  <2>7. CASE ~production
    BY <2>1, <2>2, <2>3, <2>4, <2>5, <2>7
  <2> QED BY <2>6, <2>7
<1> QED BY <1>1, QuotaInvariant, PTL

-----------------------------------------------------------------------------
(* The login lock *)

\* where an attempt can be
LoginStep == {"idle", "admitted", "checked", "failed", "count", "lock", "restart", "clear", "unlock"}

\* how many of the attempts are at one of the steps
CountIn(slots, steps) == Cardinality({j \in LoginSlots : slots[j] \in steps})
Count(steps) == CountIn(attempts, steps)

\* the attempts past the lock check that may still get the answer
PastCheck == {"checked", "failed", "count", "lock", "restart"}
InFlight == Count(PastCheck)

\* The values of the keys and of the attempts.
LockTypes ==
    /\ now \in Nat /\ production \in BOOLEAN /\ redisUp \in BOOLEAN /\ flapped \in BOOLEAN
    /\ fails \in [count : 0 .. MaxFailed, until : Nat] /\ lock \in Nat
    /\ memory \in [count : 0 .. MaxFailed - 1, until : Nat]
    /\ attempts \in [LoginSlots -> LoginStep] /\ wrong \in Nat

\* Where the counts are in Redis: until the account is locked, an answered wrong
\* password was counted, and the one that reaches the limit sets the lock before
\* its answer; afterwards only the attempts past the check get one.
RedisCounts ==
    /\ memory = NoFails
    /\ \A j \in LoginSlots : attempts[j] # "idle" => redisUp
    /\ lock = 0 \/ lock > now
    /\ lock = 0 => wrong <= fails.count /\ wrong < MaxFailed
    /\ lock > 0 => wrong + InFlight + 1 <= MaxFailed + Cardinality(LoginSlots)

\* Where they are in memory.
MemoryCounts ==
    /\ fails = NoFails /\ lock = 0
    /\ \A j \in LoginSlots : attempts[j] \in {"idle", "admitted", "checked", "failed", "clear"}
    /\ memory.until <= now => wrong <= memory.count
    /\ memory.until > now => wrong + InFlight + 1 <= MaxFailed + Cardinality(LoginSlots)

\* As long as the place of the counts has not changed, they cover the answers.
LockInv ==
    /\ LockTypes
    /\ ~flapped /\ (production \/ redisUp) => RedisCounts
    /\ ~flapped /\ ~(production \/ redisUp) => MemoryCounts

-----------------------------------------------------------------------------
\* The attempts past the check fit into the slots.
LEMMA Fit == InFlight \in Nat /\ Cardinality(LoginSlots) \in Nat /\ InFlight <= Cardinality(LoginSlots)
<1> DEFINE A == {j \in LoginSlots : attempts[j] \in PastCheck}
<1>1. IsFiniteSet(LoginSlots) /\ A \in SUBSET LoginSlots
  BY LockAssumption
<1>2. IsFiniteSet(A) /\ Cardinality(A) <= Cardinality(LoginSlots)
  BY <1>1, FS_Subset
<1>3. Cardinality(A) \in Nat /\ Cardinality(LoginSlots) \in Nat
  BY <1>1, <1>2, FS_CardinalityType
<1> QED BY <1>2, <1>3 DEF InFlight, Count, CountIn

\* The attempt in slot j goes on to step b.
Moved(f, g, j, b) == g[j] = b /\ \A i \in LoginSlots \ {j} : g[i] = f[i]

\* A count after an attempt went from step a to step b.
Shifted(n, a, b, S) == n + (IF b \in S THEN 1 ELSE 0) - (IF a \in S THEN 1 ELSE 0)

\* One attempt goes on.
LEMMA CountMoves ==
    ASSUME NEW f, NEW g, NEW j \in LoginSlots, NEW b, NEW S, Moved(f, g, j, b)
    PROVE  /\ CountIn(f, S) \in Nat /\ CountIn(g, S) \in Nat
           /\ CountIn(g, S) = Shifted(CountIn(f, S), f[j], b, S)
<1> DEFINE A == {i \in LoginSlots : f[i] \in S}
           B == {i \in LoginSlots : g[i] \in S}
<1>1. IsFiniteSet(A) /\ IsFiniteSet(B)
  BY LockAssumption, FS_Subset, A \in SUBSET LoginSlots, B \in SUBSET LoginSlots
<1>2. Cardinality(A) \in Nat /\ Cardinality(B) \in Nat
  BY <1>1, FS_CardinalityType
<1>3. g[j] = b /\ \A i \in LoginSlots \ {j} : g[i] = f[i]
  BY DEF Moved
<1>4. ASSUME f[j] \in S <=> b \in S PROVE Cardinality(B) = Cardinality(A)
  <2>1. A = B
    BY <1>3, <1>4
  <2> QED BY <2>1
<1>5. ASSUME f[j] \notin S, b \in S PROVE Cardinality(B) = Cardinality(A) + 1
  <2>1. B = A \cup {j} /\ j \notin A
    BY <1>3, <1>5
  <2>2. Cardinality(A \cup {j}) = IF j \in A THEN Cardinality(A) ELSE Cardinality(A) + 1
    BY <1>1, FS_AddElement
  <2> QED BY <2>1, <2>2
<1>6. ASSUME f[j] \in S, b \notin S PROVE Cardinality(B) = Cardinality(A) - 1
  <2>1. B = A \ {j} /\ j \in A
    BY <1>3, <1>6
  <2>2. Cardinality(A \ {j}) = IF j \in A THEN Cardinality(A) - 1 ELSE Cardinality(A)
    BY <1>1, FS_RemoveElement
  <2> QED BY <2>1, <2>2
<1> QED BY <1>2, <1>4, <1>5, <1>6 DEF CountIn, Shifted

\* What an attempt that goes from one step to another does to their number.
LEMMA GotoCounts ==
    ASSUME LockTypes, NEW j \in LoginSlots, NEW a \in LoginStep, NEW b \in LoginStep, Goto(j, a, b)
    PROVE  InFlight' = InFlight + (IF b \in PastCheck THEN 1 ELSE 0) - (IF a \in PastCheck THEN 1 ELSE 0)
<1>1. attempts[j] = a /\ attempts'[j] = b /\ \A i \in LoginSlots \ {j} : attempts'[i] = attempts[i]
  BY DEF Goto, LockTypes
<1>2. PICK f : f = attempts
  OBVIOUS
<1>3. PICK g : g = attempts'
  OBVIOUS
<1>4. Moved(f, g, j, b) /\ f[j] = a
  BY <1>1, <1>2, <1>3 DEF Moved
<1>5. CountIn(g, PastCheck) = Shifted(CountIn(f, PastCheck), a, b, PastCheck)
  BY <1>4, CountMoves
<1>6. InFlight = CountIn(f, PastCheck) /\ InFlight' = CountIn(g, PastCheck)
  BY <1>2, <1>3 DEF InFlight, Count, CountIn
<1> QED BY <1>5, <1>6 DEF Shifted

\* The rest of a step, when counts are in Redis.
LEMMA RedisStep ==
    ASSUME LockTypes, RedisCounts, redisUp, NEW j \in LoginSlots, NEW a \in LoginStep, NEW b \in LoginStep, Goto(j, a, b),
           memory' = memory, lock' = 0 \/ lock' > now,
           lock' = 0 => wrong' <= fails'.count /\ wrong' < MaxFailed,
           lock' > 0 => wrong' + InFlight' + 1 <= MaxFailed + Cardinality(LoginSlots)
    PROVE  RedisCounts'
<1>1. UNCHANGED <<now, redisUp>> /\ NoFails' = NoFails
  BY DEF Goto, env, NoFails
<1> QED BY <1>1 DEF RedisCounts

\* Each step of an attempt, when counts are in Redis.
LEMMA RedisActions ==
    ASSUME LockTypes, RedisCounts, redisUp, ~flapped, NEW j \in LoginSlots,
           \/ Admit(j) \/ CheckLock(j) \/ WrongPassword(j) \/ RightPassword(j)
           \/ RecordFailure(j) \/ RecordInMemory(j) \/ CountFailure(j) \/ SetLock(j) \/ RestartCount(j)
           \/ ClearFails(j) \/ ClearLock(j) \/ Disconnect(j) \/ DisconnectUnexpired(j)
    PROVE  RedisCounts'
<1> DEFINE N == Cardinality(LoginSlots)
<1>1. /\ memory = NoFails /\ memory.until = 0
      /\ lock = 0 \/ lock > now
      /\ lock = 0 => wrong <= fails.count /\ wrong < MaxFailed
      /\ lock > 0 => wrong + InFlight + 1 <= MaxFailed + N
  BY DEF RedisCounts, NoFails
<1>2. InFlight \in Nat /\ N \in Nat /\ InFlight <= N
  BY Fit
<1>3. /\ now \in Nat /\ lock \in Nat /\ wrong \in Nat /\ fails.count \in 0 .. MaxFailed
      /\ MaxFailed \in Nat /\ MaxFailed > 0 /\ Lockout \in Nat /\ Lockout > 0 /\ Answered = wrong + 1
  BY LockAssumption DEF LockTypes, Answered
<1> HIDE DEF N
<1>4. CASE Admit(j)
  <2>1. Goto(j, "idle", "admitted") /\ UNCHANGED <<fails, lock, memory, wrong>>
    BY <1>4 DEF Admit
  <2>2. InFlight' = InFlight
    BY <2>1, <1>2, GotoCounts DEF LoginStep, PastCheck
  <2> QED BY <1>1, <2>1, <2>2, RedisStep DEF LoginStep, N
<1>5. CASE CheckLock(j)
  <2>1. memory' = memory /\ wrong' = wrong /\ UNCHANGED <<fails, lock>>
    BY <1>1, <1>5 DEF CheckLock
  <2>2. CASE lock > 0
    <3>1. IsLoginLocked
      BY <2>2, <1>1, <1>3 DEF IsLoginLocked
    <3>2. Goto(j, "admitted", "idle")
      BY <3>1, <1>5 DEF CheckLock
    <3>3. InFlight' = InFlight
      BY <3>2, <1>2, GotoCounts DEF LoginStep, PastCheck
    <3> QED BY <1>1, <1>3, <2>1, <2>2, <3>2, <3>3, RedisStep DEF LoginStep, N
  <2>3. CASE lock = 0
    <3>1. PICK to \in {"idle", "checked"} : Goto(j, "admitted", to)
      BY <1>5 DEF CheckLock
    <3> QED BY <1>1, <1>3, <2>1, <2>3, <3>1, RedisStep DEF LoginStep, N
  <2> QED BY <1>3, <2>2, <2>3
<1>6. CASE WrongPassword(j)
  <2>1. Goto(j, "checked", "failed") /\ UNCHANGED <<fails, lock, memory, wrong>>
    BY <1>6 DEF WrongPassword
  <2>2. InFlight' = InFlight
    BY <2>1, <1>2, GotoCounts DEF LoginStep, PastCheck
  <2> QED BY <1>1, <2>1, <2>2, RedisStep DEF LoginStep, N
<1>7. CASE RightPassword(j)
  <2>1. PICK to \in {"clear", "idle"} : Goto(j, "checked", to) /\ UNCHANGED <<fails, lock, memory, wrong>>
    BY <1>7 DEF RightPassword
  <2>2. InFlight' = InFlight - 1
    BY <2>1, <1>2, GotoCounts DEF LoginStep, PastCheck
  <2>3. lock' > 0 => wrong' + InFlight' + 1 <= MaxFailed + N
    BY <2>1, <2>2, <1>1, <1>2, <1>3
  <2> QED BY <1>1, <2>1, <2>3, RedisStep DEF LoginStep, N
<1>8. CASE RecordFailure(j)
  <2>1. UNCHANGED <<fails, lock, memory>>
    BY <1>8 DEF RecordFailure
  <2>2. CASE lock > now
    <3>1. Goto(j, "failed", "idle") /\ wrong' = wrong + 1
      BY <2>2, <1>3, <1>8 DEF RecordFailure
    <3>2. InFlight' = InFlight - 1
      BY <3>1, <1>2, GotoCounts DEF LoginStep, PastCheck
    <3>3. lock' # 0 /\ wrong' + InFlight' + 1 <= MaxFailed + N
      BY <2>1, <2>2, <3>1, <3>2, <1>1, <1>2, <1>3
    <3> QED BY <1>1, <2>1, <3>1, <3>3, RedisStep DEF LoginStep, N
  <2>3. CASE ~(lock > now)
    <3>1. Goto(j, "failed", "count") /\ wrong' = wrong
      BY <2>3, <1>8 DEF RecordFailure
    <3>2. lock' = 0 /\ ~(lock' > 0)
      BY <2>1, <2>3, <1>1, <1>3
    <3> QED BY <1>1, <2>1, <3>1, <3>2, RedisStep DEF LoginStep, N
  <2> QED BY <2>2, <2>3
<1>9. CASE RecordInMemory(j)
  BY <1>9 DEF RecordInMemory
<1>10. CASE CountFailure(j)
  <2>1. /\ UNCHANGED <<lock, memory>> /\ fails' = [count |-> Incremented, until |-> now + Lockout]
        /\ Goto(j, "count", IF Incremented >= MaxFailed THEN "lock" ELSE "idle")
        /\ wrong' = IF Incremented >= MaxFailed THEN wrong ELSE wrong + 1
    BY <1>10, <1>3 DEF CountFailure
  <2>2. fails'.count = Incremented
    BY <2>1
  <2>3. CASE fails.count + 1 >= MaxFailed
    <3>1. Incremented = MaxFailed
      BY <2>3, <1>3 DEF Incremented
    <3>2. Goto(j, "count", "lock") /\ wrong' = wrong
      BY <2>1, <3>1, <1>3
    <3>3. InFlight' = InFlight
      BY <3>2, <1>2, GotoCounts DEF LoginStep, PastCheck
    <3>4. /\ lock' = 0 => wrong' <= fails'.count /\ wrong' < MaxFailed
          /\ lock' > 0 => wrong' + InFlight' + 1 <= MaxFailed + N
      BY <2>1, <2>2, <3>1, <3>2, <3>3, <1>1, <1>2, <1>3
    <3> QED BY <1>1, <2>1, <3>2, <3>4, RedisStep DEF LoginStep, N
  <2>4. CASE fails.count + 1 < MaxFailed
    <3>1. Incremented = fails.count + 1 /\ Incremented < MaxFailed
      BY <2>4, <1>3 DEF Incremented
    <3>2. Goto(j, "count", "idle") /\ wrong' = wrong + 1
      BY <2>1, <3>1, <1>3
    <3>3. InFlight' = InFlight - 1
      BY <3>2, <1>2, GotoCounts DEF LoginStep, PastCheck
    <3>4. /\ lock' = 0 => wrong' <= fails'.count /\ wrong' < MaxFailed
          /\ lock' > 0 => wrong' + InFlight' + 1 <= MaxFailed + N
      BY <2>1, <2>2, <3>1, <3>2, <3>3, <1>1, <1>2, <1>3
    <3> QED BY <1>1, <2>1, <3>2, <3>4, RedisStep DEF LoginStep, N
  <2> QED BY <1>3, <2>3, <2>4
<1>11. CASE SetLock(j)
  <2>1. Goto(j, "lock", "restart") /\ lock' = now + Lockout /\ UNCHANGED <<fails, memory, wrong>>
    BY <1>11 DEF SetLock
  <2>2. InFlight' = InFlight
    BY <2>1, <1>2, GotoCounts DEF LoginStep, PastCheck
  <2>3. wrong' + InFlight' + 1 <= MaxFailed + N
    BY <2>1, <2>2, <1>1, <1>2, <1>3
  <2>4. lock' > now /\ lock' # 0
    BY <2>1, <1>3
  <2> QED BY <1>1, <2>1, <2>3, <2>4, RedisStep DEF LoginStep, N
<1>12. CASE RestartCount(j)
  <2>1. Goto(j, "restart", "idle") /\ fails' = NoFails /\ UNCHANGED <<lock, memory>>
        /\ wrong' = IF lock > now THEN wrong + 1 ELSE 0
    BY <1>12, <1>3 DEF RestartCount
  <2>2. InFlight' = InFlight - 1 /\ fails'.count = 0
    BY <2>1, <1>2, GotoCounts DEF LoginStep, PastCheck, NoFails
  <2>3. /\ lock' = 0 => wrong' <= fails'.count /\ wrong' < MaxFailed
        /\ lock' > 0 => wrong' + InFlight' + 1 <= MaxFailed + N
    BY <2>1, <2>2, <1>1, <1>2, <1>3
  <2> QED BY <1>1, <2>1, <2>3, RedisStep DEF LoginStep, N
<1>13. CASE ClearFails(j)
  <2>1. Goto(j, "clear", "unlock") /\ fails' = NoFails /\ UNCHANGED <<lock, memory>> /\ wrong' = 0
    BY <1>13 DEF ClearFails
  <2>2. InFlight' = InFlight /\ fails'.count = 0
    BY <2>1, <1>2, GotoCounts DEF LoginStep, PastCheck, NoFails
  <2>3. /\ lock' = 0 => wrong' <= fails'.count /\ wrong' < MaxFailed
        /\ lock' > 0 => wrong' + InFlight' + 1 <= MaxFailed + N
    BY <2>1, <2>2, <1>1, <1>2, <1>3
  <2> QED BY <1>1, <2>1, <2>3, RedisStep DEF LoginStep, N
<1>14. CASE ClearLock(j)
  <2>1. Goto(j, "unlock", "idle") /\ lock' = 0 /\ UNCHANGED <<fails, memory>> /\ wrong' = 0
    BY <1>14 DEF ClearLock
  <2>2. wrong' <= fails'.count /\ wrong' < MaxFailed /\ ~(lock' > 0)
    BY <2>1, <1>3
  <2> QED BY <1>1, <2>1, <2>2, RedisStep DEF LoginStep, N
<1>15. CASE Disconnect(j)
  <2>1. PICK a \in LoginStep : Goto(j, a, "idle") /\ UNCHANGED <<fails, lock, memory, wrong>>
    BY <1>15 DEF Disconnect, LockTypes
  <2>2. InFlight' = InFlight - (IF a \in PastCheck THEN 1 ELSE 0)
    BY <2>1, <1>2, GotoCounts DEF LoginStep, PastCheck
  <2>3. lock' > 0 => wrong' + InFlight' + 1 <= MaxFailed + N
    BY <2>1, <2>2, <1>1, <1>2, <1>3
  <2> QED BY <1>1, <2>1, <2>3, RedisStep DEF LoginStep, N
<1>16. CASE DisconnectUnexpired(j)
  <2>1. Goto(j, "count", "idle") /\ UNCHANGED <<lock, memory, wrong>> /\ fails'.count = Incremented
    BY <1>16 DEF DisconnectUnexpired, LockTypes
  <2>2. InFlight' = InFlight - 1
    BY <2>1, <1>2, GotoCounts DEF LoginStep, PastCheck
  <2>3. Incremented \in Nat /\ fails.count <= Incremented
    BY <1>3 DEF Incremented
  <2>4. /\ lock' = 0 => wrong' <= fails'.count /\ wrong' < MaxFailed
        /\ lock' > 0 => wrong' + InFlight' + 1 <= MaxFailed + N
    BY <2>1, <2>2, <2>3, <1>1, <1>2, <1>3
  <2> QED BY <1>1, <2>1, <2>4, RedisStep DEF LoginStep, N
<1> QED BY <1>4, <1>5, <1>6, <1>7, <1>8, <1>9, <1>10, <1>11, <1>12, <1>13, <1>14, <1>15, <1>16

\* The rest of a step, when counts are in memory.
LEMMA MemoryStep ==
    ASSUME LockTypes, MemoryCounts, NEW j \in LoginSlots, NEW a \in LoginStep,
           NEW b \in {"idle", "admitted", "checked", "failed", "clear"}, Goto(j, a, b),
           fails' = NoFails, lock' = 0,
           memory'.until <= now => wrong' <= memory'.count,
           memory'.until > now => wrong' + InFlight' + 1 <= MaxFailed + Cardinality(LoginSlots)
    PROVE  MemoryCounts'
<1>1. UNCHANGED now /\ NoFails' = NoFails
  BY DEF Goto, env, NoFails
<1>2. \A i \in LoginSlots : attempts'[i] \in {"idle", "admitted", "checked", "failed", "clear"}
  BY DEF Goto, MemoryCounts, LockTypes
<1> QED BY <1>1, <1>2 DEF MemoryCounts

\* Each step of an attempt, when counts are in memory.
LEMMA MemoryActions ==
    ASSUME LockTypes, MemoryCounts, ~redisUp, ~flapped, NEW j \in LoginSlots,
           \/ Admit(j) \/ CheckLock(j) \/ WrongPassword(j) \/ RightPassword(j)
           \/ RecordFailure(j) \/ RecordInMemory(j) \/ CountFailure(j) \/ SetLock(j) \/ RestartCount(j)
           \/ ClearFails(j) \/ ClearLock(j) \/ Disconnect(j) \/ DisconnectUnexpired(j)
    PROVE  MemoryCounts'
<1> DEFINE N == Cardinality(LoginSlots)
<1>1. /\ fails = NoFails /\ lock = 0
      /\ attempts[j] \in {"idle", "admitted", "checked", "failed", "clear"}
      /\ memory.until <= now => wrong <= memory.count
      /\ memory.until > now => wrong + InFlight + 1 <= MaxFailed + N
  BY DEF MemoryCounts
<1>2. InFlight \in Nat /\ N \in Nat /\ InFlight <= N
  BY Fit
<1>3. /\ now \in Nat /\ wrong \in Nat /\ memory.count \in Nat /\ memory.count < MaxFailed /\ memory.until \in Nat
      /\ MaxFailed \in Nat /\ MaxFailed > 0 /\ Lockout \in Nat /\ Lockout > 0 /\ Answered = wrong + 1
  BY LockAssumption DEF LockTypes, Answered
<1> HIDE DEF N
<1>4. CASE Admit(j)
  <2>1. Goto(j, "idle", "admitted") /\ UNCHANGED <<fails, lock, memory, wrong>>
    BY <1>4 DEF Admit
  <2>2. InFlight' = InFlight
    BY <2>1, <1>2, GotoCounts DEF LoginStep, PastCheck
  <2> QED BY <1>1, <2>1, <2>2, MemoryStep DEF LoginStep, N
<1>5. CASE CheckLock(j)
  <2>1. UNCHANGED <<fails, lock>>
    BY <1>5 DEF CheckLock
  <2>2. CASE memory.until > now
    <3>1. Goto(j, "admitted", "idle") /\ memory' = memory /\ wrong' = wrong
      BY <2>2, <1>1, <1>3, <1>5 DEF CheckLock, IsLoginLocked
    <3>2. InFlight' = InFlight
      BY <3>1, <1>2, GotoCounts DEF LoginStep, PastCheck
    <3>3. memory'.until > now /\ wrong' + InFlight' + 1 <= MaxFailed + N
      BY <3>1, <3>2, <2>2, <1>1
    <3> QED BY <1>1, <1>3, <2>1, <3>1, <3>3, MemoryStep DEF LoginStep, N
  <2>3. CASE memory.until <= now
    <3>1. Goto(j, "admitted", "checked")
      BY <2>3, <1>1, <1>3, <1>5 DEF CheckLock, IsLoginLocked
    <3>2. CASE memory.until = 0
      <4>1. memory' = memory /\ wrong' = wrong
        BY <3>2, <1>3, <1>5 DEF CheckLock
      <4> QED BY <1>1, <1>3, <2>1, <2>3, <3>1, <4>1, MemoryStep DEF LoginStep, N
    <3>3. CASE memory.until # 0
      <4>1. memory' = NoFails /\ wrong' = 0
        BY <3>3, <2>3, <1>1, <1>3, <1>5 DEF CheckLock
      <4>2. memory'.until = 0 /\ memory'.count = 0
        BY <4>1 DEF NoFails
      <4>3. memory'.until <= now /\ ~(memory'.until > now) /\ wrong' <= memory'.count
        BY <4>1, <4>2, <1>3
      <4> QED BY <1>1, <2>1, <3>1, <4>3, MemoryStep DEF LoginStep, N
    <3> QED BY <3>2, <3>3
  <2> QED BY <1>3, <2>2, <2>3
<1>6. CASE WrongPassword(j)
  <2>1. Goto(j, "checked", "failed") /\ UNCHANGED <<fails, lock, memory, wrong>>
    BY <1>6 DEF WrongPassword
  <2>2. InFlight' = InFlight
    BY <2>1, <1>2, GotoCounts DEF LoginStep, PastCheck
  <2> QED BY <1>1, <2>1, <2>2, MemoryStep DEF LoginStep, N
<1>7. CASE RightPassword(j)
  <2>1. PICK to \in {"clear", "idle"} : Goto(j, "checked", to) /\ UNCHANGED <<fails, lock, memory, wrong>>
    BY <1>7 DEF RightPassword
  <2>2. InFlight' = InFlight - 1
    BY <2>1, <1>2, GotoCounts DEF LoginStep, PastCheck
  <2>3. memory'.until > now => wrong' + InFlight' + 1 <= MaxFailed + N
    BY <2>1, <2>2, <1>1, <1>2, <1>3
  <2> QED BY <1>1, <2>1, <2>3, MemoryStep DEF LoginStep, N
<1>8. CASE RecordInMemory(j)
  <2>1. Goto(j, "failed", "idle") /\ UNCHANGED <<fails, lock>> /\ wrong' = wrong + 1
    BY <1>8, <1>3 DEF RecordInMemory
  <2>2. InFlight' = InFlight - 1
    BY <2>1, <1>2, GotoCounts DEF LoginStep, PastCheck
  <2>3. CASE memory.until > now
    <3>1. memory' = memory
      BY <2>3, <1>3, <1>8 DEF RecordInMemory
    <3>2. memory'.until > now /\ wrong' + InFlight' + 1 <= MaxFailed + N
      BY <2>1, <2>2, <2>3, <3>1, <1>1, <1>2, <1>3
    <3> QED BY <1>1, <1>3, <2>1, <3>1, <3>2, MemoryStep DEF LoginStep, N
  <2>4. CASE memory.until <= now /\ memory.count + 1 >= MaxFailed
    <3>1. memory' = [count |-> 0, until |-> now + Lockout]
      BY <2>4, <1>3, <1>8 DEF RecordInMemory
    <3>2. memory'.until > now /\ ~(memory'.until <= now)
      BY <3>1, <1>3
    <3>3. wrong' + InFlight' + 1 <= MaxFailed + N
      BY <2>1, <2>2, <2>4, <1>1, <1>2, <1>3
    <3> QED BY <1>1, <2>1, <3>2, <3>3, MemoryStep DEF LoginStep, N
  <2>5. CASE memory.until <= now /\ memory.count + 1 < MaxFailed
    <3>1. memory' = [memory EXCEPT !.count = @ + 1]
      BY <2>5, <1>3, <1>8 DEF RecordInMemory
    <3>2. memory'.until = memory.until /\ memory'.count = memory.count + 1
      BY <3>1 DEF LockTypes
    <3>3. memory'.until <= now /\ ~(memory'.until > now) /\ wrong' <= memory'.count
      BY <2>1, <2>5, <3>2, <1>1, <1>3
    <3> QED BY <1>1, <2>1, <3>3, MemoryStep DEF LoginStep, N
  <2> QED BY <1>3, <2>3, <2>4, <2>5
<1>9. CASE RecordFailure(j) \/ DisconnectUnexpired(j)
  BY <1>9 DEF RecordFailure, DisconnectUnexpired
<1>10. CASE CountFailure(j) \/ SetLock(j) \/ RestartCount(j) \/ ClearLock(j)
  <2>1. attempts[j] \in {"count", "lock", "restart", "unlock"}
    BY <1>10 DEF CountFailure, SetLock, RestartCount, ClearLock, Goto
  <2> QED BY <2>1, <1>1
<1>11. CASE ClearFails(j)
  <2>1. Goto(j, "clear", "idle") /\ fails' = fails /\ memory' = NoFails /\ wrong' = 0 /\ lock' = lock
    BY <1>11 DEF ClearFails
  <2>2. memory'.until = 0 /\ memory'.count = 0
    BY <2>1 DEF NoFails
  <2>3. memory'.until <= now /\ ~(memory'.until > now) /\ wrong' <= memory'.count
    BY <2>1, <2>2, <1>3
  <2> QED BY <1>1, <2>1, <2>3, MemoryStep DEF LoginStep, N
<1>12. CASE Disconnect(j)
  <2>1. PICK a \in LoginStep : Goto(j, a, "idle") /\ UNCHANGED <<fails, lock, memory, wrong>>
    BY <1>12 DEF Disconnect, LockTypes
  <2>2. InFlight' = InFlight - (IF a \in PastCheck THEN 1 ELSE 0)
    BY <2>1, <1>2, GotoCounts DEF LoginStep, PastCheck
  <2>3. memory'.until > now => wrong' + InFlight' + 1 <= MaxFailed + N
    BY <2>1, <2>2, <1>1, <1>2, <1>3
  <2> QED BY <1>1, <2>1, <2>3, MemoryStep DEF LoginStep, N
<1> QED BY <1>4, <1>5, <1>6, <1>7, <1>8, <1>9, <1>10, <1>11, <1>12

-----------------------------------------------------------------------------
\* The columns and the history keep their types.
LEMMA LockTypesKeep ==
    ASSUME LockTypes, LockNext
    PROVE  LockTypes'
<1>0. /\ MaxFailed \in Nat /\ MaxFailed > 0 /\ Lockout \in Nat /\ MaxTime \in Nat
      /\ NoFails \in [count : 0 .. MaxFailed, until : Nat] /\ NoFails \in [count : 0 .. MaxFailed - 1, until : Nat]
  BY LockAssumption, ClockAssumption DEF NoFails
<1>1. ASSUME NEW j \in LoginSlots, NEW a, NEW b \in LoginStep, Goto(j, a, b)
      PROVE  /\ attempts' \in [LoginSlots -> LoginStep] /\ now' \in Nat
             /\ production' \in BOOLEAN /\ redisUp' \in BOOLEAN /\ flapped' \in BOOLEAN
  BY <1>1 DEF Goto, env, LockTypes
<1>2. ASSUME NEW j \in LoginSlots,
             Admit(j) \/ CheckLock(j) \/ WrongPassword(j) \/ RightPassword(j) \/ RecordFailure(j) \/ Disconnect(j)
      PROVE  LockTypes'
  <2>1. \E a, b \in LoginStep : Goto(j, a, b)
    <3>1. CASE Admit(j)
      BY <3>1 DEF Admit, LoginStep
    <3>2. CASE CheckLock(j)
      <4>1. Goto(j, "admitted", "idle") \/ Goto(j, "admitted", "checked")
        BY <3>2 DEF CheckLock
      <4> QED BY <4>1 DEF LoginStep
    <3>3. CASE WrongPassword(j)
      BY <3>3 DEF WrongPassword, LoginStep
    <3>4. CASE RightPassword(j)
      BY <3>4 DEF RightPassword, LoginStep
    <3>5. CASE RecordFailure(j)
      <4>1. Goto(j, "failed", "idle") \/ Goto(j, "failed", "count")
        BY <3>5 DEF RecordFailure
      <4> QED BY <4>1 DEF LoginStep
    <3>6. CASE Disconnect(j)
      BY <3>6 DEF Disconnect, LockTypes, LoginStep
    <3> QED BY <1>2, <3>1, <3>2, <3>3, <3>4, <3>5, <3>6
  <2>2. /\ attempts' \in [LoginSlots -> LoginStep] /\ now' \in Nat
        /\ production' \in BOOLEAN /\ redisUp' \in BOOLEAN /\ flapped' \in BOOLEAN
    BY <2>1, <1>1
  <2>3. fails' = fails /\ lock' = lock /\ wrong' \in {wrong, wrong + 1, 0} /\ memory' \in {memory, NoFails}
    BY <1>2 DEF Admit, CheckLock, WrongPassword, RightPassword, RecordFailure, Disconnect, Answered
  <2>4. wrong' \in Nat /\ memory' \in [count : 0 .. MaxFailed - 1, until : Nat]
    BY <2>3, <1>0 DEF LockTypes
  <2> QED BY <2>2, <2>3, <2>4 DEF LockTypes
<1>3. ASSUME NEW j \in LoginSlots, RecordInMemory(j)
      PROVE  LockTypes'
  <2>1. Goto(j, "failed", "idle") /\ UNCHANGED <<fails, lock>> /\ wrong' \in {wrong, wrong + 1}
    BY <1>3 DEF RecordInMemory, Answered
  <2>2. memory' \in [count : 0 .. MaxFailed - 1, until : Nat]
    <3>1. memory.count \in 0 .. MaxFailed - 1 /\ memory.until \in Nat /\ now \in Nat
      BY DEF LockTypes
    <3>2. CASE memory.until > now
      BY <3>1, <3>2, <1>3 DEF RecordInMemory, LockTypes
    <3>3. CASE memory.until <= now /\ memory.count + 1 >= MaxFailed
      BY <3>1, <3>3, <1>0, <1>3 DEF RecordInMemory
    <3>4. CASE memory.until <= now /\ memory.count + 1 < MaxFailed
      <4>1. memory' = [memory EXCEPT !.count = @ + 1]
        BY <3>1, <3>4, <1>0, <1>3 DEF RecordInMemory
      <4> QED BY <4>1, <3>1, <3>4, <1>0 DEF LockTypes
    <3> QED BY <3>1, <1>0, <3>2, <3>3, <3>4
  <2>3. "failed" \in LoginStep /\ "idle" \in LoginStep
    BY DEF LoginStep
  <2> QED BY <2>1, <2>2, <2>3, <1>1 DEF LockTypes
<1>4. ASSUME NEW j \in LoginSlots, CountFailure(j) \/ DisconnectUnexpired(j)
      PROVE  LockTypes'
  <2>1. Goto(j, "count", "lock") \/ Goto(j, "count", "idle")
    BY <1>4 DEF CountFailure, DisconnectUnexpired
  <2>2. "lock" \in LoginStep /\ "idle" \in LoginStep
    BY DEF LoginStep
  <2>3. fails' \in [count : 0 .. MaxFailed, until : Nat]
    <3>1. fails.count \in 0 .. MaxFailed /\ now \in Nat
      BY DEF LockTypes
    <3>2. Incremented \in 0 .. MaxFailed
      BY <3>1, <1>0 DEF Incremented
    <3>3. CASE CountFailure(j)
      <4>1. fails' = fails \/ fails' = [count |-> Incremented, until |-> now + Lockout]
        BY <3>3 DEF CountFailure
      <4> QED BY <4>1, <3>1, <3>2, <1>0 DEF LockTypes
    <3>4. CASE DisconnectUnexpired(j)
      BY <3>4, <3>2 DEF DisconnectUnexpired, LockTypes
    <3> QED BY <1>4, <3>3, <3>4
  <2>4. UNCHANGED <<lock, memory>> /\ wrong' \in {wrong, wrong + 1}
    BY <1>4 DEF CountFailure, DisconnectUnexpired, Answered
  <2> QED BY <2>1, <2>2, <2>3, <2>4, <1>1 DEF LockTypes
<1>5. ASSUME NEW j \in LoginSlots, SetLock(j) \/ RestartCount(j) \/ ClearFails(j) \/ ClearLock(j)
      PROVE  LockTypes'
  <2>1. \E a, b \in LoginStep : Goto(j, a, b)
    <3>1. CASE SetLock(j) \/ RestartCount(j) \/ ClearLock(j)
      BY <3>1 DEF SetLock, RestartCount, ClearLock, LoginStep
    <3>2. CASE ClearFails(j)
      <4>1. Goto(j, "clear", "unlock") \/ Goto(j, "clear", "idle")
        BY <3>2 DEF ClearFails
      <4> QED BY <4>1 DEF LoginStep
    <3> QED BY <1>5, <3>1, <3>2
  <2>2. /\ attempts' \in [LoginSlots -> LoginStep] /\ now' \in Nat
        /\ production' \in BOOLEAN /\ redisUp' \in BOOLEAN /\ flapped' \in BOOLEAN
    BY <2>1, <1>1
  <2>3. fails' \in {fails, NoFails} /\ lock' \in {lock, 0, now + Lockout} /\ wrong' \in {wrong, wrong + 1, 0} /\ memory' \in {memory, NoFails}
    BY <1>5 DEF SetLock, RestartCount, ClearFails, ClearLock, Answered
  <2>4. fails' \in [count : 0 .. MaxFailed, until : Nat] /\ memory' \in [count : 0 .. MaxFailed - 1, until : Nat]
    BY <2>3, <1>0 DEF LockTypes
  <2>5. lock' \in Nat /\ wrong' \in Nat
    BY <2>3, <1>0 DEF LockTypes
  <2> QED BY <2>2, <2>4, <2>5 DEF LockTypes
<1>6. CASE RedisFlaps
  <2>1. UNCHANGED <<now, production, fails, lock, memory, attempts, wrong>> /\ redisUp' \in BOOLEAN /\ flapped' \in BOOLEAN
    BY <1>6 DEF RedisFlaps, RedisChange
  <2> QED BY <2>1 DEF LockTypes
<1>7. CASE LockTick
  <2>1. UNCHANGED <<production, redisUp, memory, attempts, flapped>>
    BY <1>7 DEF LockTick
  <2>2. now' = now + 1 /\ fails' \in {fails, NoFails} /\ lock' \in {lock, 0} /\ wrong' \in {wrong, 0}
    BY <1>7 DEF LockTick, Advance
  <2> QED BY <2>1, <2>2, <1>0 DEF LockTypes
<1> QED BY <1>2, <1>3, <1>4, <1>5, <1>6, <1>7 DEF LockNext

\* Keys expire; what they counted is forgotten with them.
LEMMA TickKeepsCounts ==
    ASSUME LockTypes, LockTick
    PROVE  (RedisCounts => RedisCounts') /\ (MemoryCounts => MemoryCounts')
<1> DEFINE N == Cardinality(LoginSlots)
<1>1. /\ UNCHANGED <<redisUp, memory, attempts>> /\ now' = now + 1
      /\ fails' = IF fails.until \in 1 .. now + 1 THEN NoFails ELSE fails
      /\ lock' = IF lock \in 1 .. now + 1 THEN 0 ELSE lock
      /\ wrong' = IF fails.until \in 1 .. now + 1 \/ lock \in 1 .. now + 1 \/ memory.until = now + 1 THEN 0 ELSE wrong
  BY DEF LockTick, Advance
<1>2. InFlight' = InFlight
  BY <1>1 DEF InFlight, Count
<1>3. InFlight \in Nat /\ N \in Nat /\ InFlight <= N
  BY Fit
<1>4. /\ now \in Nat /\ lock \in Nat /\ wrong \in Nat /\ fails.count \in 0 .. MaxFailed /\ fails.until \in Nat
      /\ memory.count \in Nat /\ memory.until \in Nat
      /\ MaxFailed \in Nat /\ MaxFailed > 0 /\ NoFails.count = 0 /\ NoFails.until = 0 /\ NoFails' = NoFails
  BY LockAssumption DEF LockTypes, NoFails
<1>5. ASSUME RedisCounts PROVE RedisCounts'
  <2>1. /\ memory = NoFails
        /\ lock = 0 \/ lock > now
        /\ lock = 0 => wrong <= fails.count /\ wrong < MaxFailed
        /\ lock > 0 => wrong + InFlight + 1 <= MaxFailed + N
    BY <1>5 DEF RedisCounts
  <2>2. /\ memory' = NoFails
        /\ \A j \in LoginSlots : attempts'[j] # "idle" => redisUp'
    BY <1>1, <1>5, <2>1 DEF RedisCounts
  <2> HIDE DEF N
  <2>3. lock' = 0 \/ lock' > now'
    BY <1>1, <1>4, <2>1
  <2>4. CASE fails.until \in 1 .. now + 1 \/ lock \in 1 .. now + 1
    <3>1. wrong' = 0 /\ fails'.count \in Nat
      BY <2>4, <1>1, <1>4
    <3> QED BY <3>1, <2>2, <2>3, <1>2, <1>3, <1>4 DEF RedisCounts, N
  <2>5. CASE ~(fails.until \in 1 .. now + 1 \/ lock \in 1 .. now + 1)
    <3>1. fails' = fails /\ lock' = lock /\ wrong' = wrong
      <4>1. memory.until # now + 1
        BY <2>1, <1>4
      <4> QED BY <4>1, <2>5, <1>1
    <3> QED BY <3>1, <2>1, <2>2, <2>3, <1>2 DEF RedisCounts, N
  <2> QED BY <2>4, <2>5
<1>6. ASSUME MemoryCounts PROVE MemoryCounts'
  <2>1. /\ fails = NoFails /\ lock = 0
        /\ memory.until <= now => wrong <= memory.count
        /\ memory.until > now => wrong + InFlight + 1 <= MaxFailed + N
    BY <1>6 DEF MemoryCounts
  <2>2. /\ fails' = NoFails /\ lock' = 0
        /\ \A j \in LoginSlots : attempts'[j] \in {"idle", "admitted", "checked", "failed", "clear"}
    BY <1>1, <1>4, <1>6, <2>1 DEF MemoryCounts
  <2> HIDE DEF N
  <2>3. /\ memory'.until <= now' => wrong' <= memory'.count
        /\ memory'.until > now' => wrong' + InFlight' + 1 <= MaxFailed + N
    BY <1>1, <1>2, <1>3, <1>4, <2>1
  <2> QED BY <2>2, <2>3, <1>4 DEF MemoryCounts, N
<1> QED BY <1>5, <1>6

\* The steps of an attempt.
LockAction(j) ==
    \/ Admit(j) \/ CheckLock(j) \/ WrongPassword(j) \/ RightPassword(j)
    \/ RecordFailure(j) \/ RecordInMemory(j) \/ CountFailure(j) \/ SetLock(j) \/ RestartCount(j)
    \/ ClearFails(j) \/ ClearLock(j) \/ Disconnect(j) \/ DisconnectUnexpired(j)

\* An attempt runs in one place.
LEMMA LockActionPlace ==
    ASSUME NEW j \in LoginSlots, LockAction(j)
    PROVE  /\ UNCHANGED <<production, redisUp, flapped>>
           /\ (attempts[j] # "idle") \/ redisUp \/ ~production
<1>1. CASE Admit(j)
  BY <1>1 DEF Admit, Goto, env, MayServe
<1>2. CASE CheckLock(j) \/ WrongPassword(j) \/ RightPassword(j) \/ RecordFailure(j) \/ RecordInMemory(j)
  BY <1>2 DEF CheckLock, WrongPassword, RightPassword, RecordFailure, RecordInMemory, Goto, env
<1>3. CASE CountFailure(j) \/ SetLock(j) \/ RestartCount(j) \/ ClearFails(j) \/ ClearLock(j)
  BY <1>3 DEF CountFailure, SetLock, RestartCount, ClearFails, ClearLock, Goto, env
<1>4. CASE Disconnect(j) \/ DisconnectUnexpired(j)
  BY <1>4 DEF Disconnect, DisconnectUnexpired, Goto, env
<1> QED BY <1>1, <1>2, <1>3, <1>4 DEF LockAction

\* Hence a step of an attempt keeps the invariant.
LEMMA LockActionKeeps ==
    ASSUME LockInv, NEW j \in LoginSlots, LockAction(j)
    PROVE  LockInv'
<1>1. LockTypes'
  BY LockTypesKeep DEF LockInv, LockNext, LockAction
<1>2. UNCHANGED <<production, redisUp, flapped>> /\ ((attempts[j] # "idle") \/ redisUp \/ ~production)
  BY LockActionPlace
<1>3. ASSUME ~flapped, production \/ redisUp PROVE RedisCounts'
  <2>1. LockTypes /\ RedisCounts
    BY <1>3 DEF LockInv
  <2>2. redisUp
    BY <2>1, <1>2, <1>3 DEF RedisCounts
  <2> QED BY <2>1, <2>2, <1>3, RedisActions DEF LockAction
<1>4. ASSUME ~flapped, ~(production \/ redisUp) PROVE MemoryCounts'
  <2>1. LockTypes /\ MemoryCounts /\ ~redisUp
    BY <1>4 DEF LockInv
  <2> QED BY <2>1, <1>4, MemoryActions DEF LockAction
<1> QED BY <1>1, <1>2, <1>3, <1>4 DEF LockInv

\* Redis comes or goes: recorded as a flap, or in production between attempts.
LEMMA FlapKeeps ==
    ASSUME LockInv, RedisFlaps
    PROVE  LockInv'
<1>1. LockTypes'
  BY LockTypesKeep DEF LockInv, LockNext
<1>2. ASSUME ~flapped' PROVE production' /\ RedisCounts'
  <2>1. /\ ~flapped /\ production /\ \A j \in LoginSlots : attempts[j] = "idle"
        /\ production' = production
    BY <1>2 DEF RedisFlaps, RedisChange
  <2>2. RedisCounts
    BY <2>1 DEF LockInv
  <2>3. UNCHANGED <<now, fails, lock, memory, attempts, wrong>> /\ NoFails' = NoFails
    BY DEF RedisFlaps, RedisChange, NoFails
  <2>4. InFlight' = InFlight /\ \A j \in LoginSlots : attempts'[j] # "idle" => redisUp'
    BY <2>1, <2>3 DEF InFlight, Count
  <2> QED BY <2>1, <2>2, <2>3, <2>4 DEF RedisCounts
<1> QED BY <1>1, <1>2 DEF LockInv

\* Time passes.
LEMMA LockTickKeeps ==
    ASSUME LockInv, LockTick
    PROVE  LockInv'
<1>1. LockTypes' /\ UNCHANGED <<production, redisUp, flapped>>
  BY LockTypesKeep DEF LockInv, LockNext, LockTick
<1>2. (RedisCounts => RedisCounts') /\ (MemoryCounts => MemoryCounts')
  BY TickKeepsCounts DEF LockInv
<1> QED BY <1>1, <1>2 DEF LockInv

\* The invariant holds before the first attempt.
LEMMA LockStarts == now = 0 /\ QuotaInit /\ LockInit => LockInv
<1> SUFFICES ASSUME now = 0, QuotaInit, LockInit PROVE LockInv
  OBVIOUS
<1>1. LockTypes
  <2>1. production \in BOOLEAN /\ redisUp \in BOOLEAN /\ flapped \in BOOLEAN
    BY Zenon DEF QuotaInit, LockInit
  <2>2. /\ fails \in [count : 0 .. MaxFailed, until : Nat] /\ lock \in Nat
        /\ memory \in [count : 0 .. MaxFailed - 1, until : Nat] /\ wrong \in Nat
    BY LockAssumption DEF LockInit, NoFails
  <2>3. attempts \in [LoginSlots -> LoginStep]
    BY DEF LockInit, LoginStep
  <2> QED BY <2>1, <2>2, <2>3 DEF LockTypes
<1>3. /\ memory = NoFails /\ fails = NoFails /\ lock = 0 /\ wrong = 0 /\ NoFails.count = 0 /\ NoFails.until = 0
      /\ \A j \in LoginSlots : attempts[j] = "idle"
  BY DEF LockInit, NoFails
<1>4. MaxFailed \in Nat /\ MaxFailed > 0
  BY LockAssumption
<1>5. RedisCounts
  BY <1>3, <1>4 DEF RedisCounts
<1>6. MemoryCounts
  BY <1>3, <1>4 DEF MemoryCounts
<1> QED BY <1>1, <1>5, <1>6 DEF LockInv

\* The invariant bounds the answers.
LEMMA LockBounds ==
    ASSUME LockInv
    PROVE  GuessesAreBounded
<1> DEFINE N == Cardinality(LoginSlots)
<1>1. SUFFICES ASSUME ~flapped PROVE wrong <= MaxFailed + N - 1
  BY DEF GuessesAreBounded
<1>2. InFlight \in Nat /\ N \in Nat /\ InFlight <= N
  BY Fit
<1>3. /\ now \in Nat /\ lock \in Nat /\ wrong \in Nat /\ fails.count \in 0 .. MaxFailed
      /\ memory.count \in 0 .. MaxFailed - 1 /\ memory.until \in Nat /\ MaxFailed \in Nat
  BY LockAssumption DEF LockInv, LockTypes
<1>4. CASE RedisCounts
  <2>1. /\ lock = 0 \/ lock > now
        /\ lock = 0 => wrong <= fails.count /\ wrong < MaxFailed
        /\ lock > 0 => wrong + InFlight + 1 <= MaxFailed + N
    BY <1>4 DEF RedisCounts
  <2> HIDE DEF N
  <2> QED BY <2>1, <1>2, <1>3
<1>5. CASE MemoryCounts
  <2>1. /\ memory.until <= now => wrong <= memory.count
        /\ memory.until > now => wrong + InFlight + 1 <= MaxFailed + N
    BY <1>5 DEF MemoryCounts
  <2> HIDE DEF N
  <2> QED BY <2>1, <1>2, <1>3
<1> QED BY <1>1, <1>4, <1>5 DEF LockInv

\* Wrong passwords are answered at most as often as configured, plus once for every
\* other attempt past the check, for any limit, lockout and number of attempts at
\* once, wherever attempts are dropped, whether record_login_failure counts in Redis
\* or in memory.
THEOREM LockSafe == LockSpec => []GuessesAreBounded
<1>1. LockInv /\ [LockNext]_<<env, lockVars>> => LockInv'
  <2> SUFFICES ASSUME LockInv, [LockNext]_<<env, lockVars>> PROVE LockInv'
    OBVIOUS
  <2>1. CASE UNCHANGED <<env, lockVars>>
    <3>1. UNCHANGED <<now, production, redisUp, fails, lock, memory, attempts, wrong, flapped>> /\ NoFails' = NoFails
      BY <2>1 DEF env, lockVars, NoFails
    <3>2. /\ LockTypes' = LockTypes
      BY <3>1 DEF LockTypes
    <3>3. (RedisCounts <=> RedisCounts') /\ (MemoryCounts <=> MemoryCounts')
      BY <3>1 DEF RedisCounts, MemoryCounts, InFlight, Count
    <3> QED BY <3>1, <3>2, <3>3 DEF LockInv
  <2>2. CASE LockNext
    BY <2>2, LockActionKeeps, FlapKeeps, LockTickKeeps, Zenon DEF LockNext, LockAction
  <2> QED BY <2>1, <2>2
<1> QED BY <1>1, LockStarts, LockBounds, PTL DEF LockSpec
=============================================================================
