------------------------------ MODULE LoginLock ------------------------------
(***************************************************************************)
(* The lock of one account after repeated wrong passwords.  A slot runs    *)
(* one login attempt; its Redis commands are separate steps, and between   *)
(* any two of them the client may go away and the attempt be dropped.  One *)
(* clock tick is longer than the commands of one record and shorter than   *)
(* the lockout.  Quotas refuse requests before the lock is looked at, so   *)
(* here they let every request pass that RateLimit could let pass.         *)
(***************************************************************************)
EXTENDS RateLimit, FiniteSets

CONSTANTS
    LoginSlots,   \* attempts that may be in flight at once
    Lockout,      \* login_lockout_seconds
    MaxFailed     \* max_failed_login_attempts

ASSUME LockAssumption == Lockout \in Nat \ {0} /\ MaxFailed \in Nat \ {0} /\ IsFiniteSet(LoginSlots)

VARIABLES
    fails,       \* auth:fail in Redis: the count and when the key expires, 0 for never
    lock,        \* auth:lock in Redis: locked_until, 0 when there is none
    memory,      \* login_attempts: the count and locked_until
    attempts,    \* attempts[j]: how far the attempt in slot j has come
    wrong,       \* history: wrong passwords answered since the failures were last forgotten
    flapped      \* history: Redis came or went under an attempt, or in development

lockVars == <<fails, lock, memory, attempts, wrong, flapped>>
env == <<now, production, redisUp, quotaVars>>

NoFails == [count |-> 0, until |-> 0]

LockInit ==
    /\ fails = NoFails /\ lock = 0 /\ memory = NoFails
    /\ attempts = [j \in LoginSlots |-> "idle"]
    /\ wrong = 0 /\ flapped = FALSE

\* the attempt in slot j goes from one step to the next
Goto(j, from, to) ==
    /\ attempts[j] = from
    /\ attempts' = [attempts EXCEPT ![j] = to]
    /\ UNCHANGED <<env, flapped>>

\* history: the attempt ends with the answer that the password is wrong
Answered == IF flapped THEN wrong ELSE wrong + 1

\* the quotas let the attempt pass
Admit(j) ==
    /\ MayServe
    /\ Goto(j, "idle", "admitted")
    /\ UNCHANGED <<fails, lock, memory, wrong>>

\* fault: the lock is written and never looked at
NeverLocked == FALSE

\* is_login_locked
IsLoginLocked == IF redisUp /\ lock > 0 THEN lock > now ELSE memory.until > now

\* the check also drops an expired entry of the memory, with any failure counted
\* in it since
CheckLock(j) ==
    LET expired == memory.until \in 1 .. now /\ ~(redisUp /\ lock > 0)
    IN  /\ Goto(j, "admitted", IF IsLoginLocked THEN "idle" ELSE "checked")
        /\ memory' = IF expired THEN NoFails ELSE memory
        /\ wrong' = IF expired THEN 0 ELSE wrong
        /\ UNCHANGED <<fails, lock>>

\* the password does not match, or there is none to compare it with
WrongPassword(j) ==
    /\ Goto(j, "checked", "failed")
    /\ UNCHANGED <<fails, lock, memory, wrong>>

\* the password matches; a later check may still refuse the login
RightPassword(j) ==
    /\ \E to \in {"clear", "idle"} : Goto(j, "checked", to)
    /\ UNCHANGED <<fails, lock, memory, wrong>>

\* record_login_failure: the connection and EXISTS auth:lock
RecordFailure(j) ==
    /\ redisUp
    /\ Goto(j, "failed", IF lock > now THEN "idle" ELSE "count")
    /\ wrong' = IF lock > now THEN Answered ELSE wrong
    /\ UNCHANGED <<fails, lock, memory>>

\* its memory branch
RecordInMemory(j) ==
    /\ ~redisUp
    /\ Goto(j, "failed", "idle")
    /\ memory' = CASE memory.until > now -> memory
                   [] memory.until <= now /\ memory.count + 1 >= MaxFailed -> [count |-> 0, until |-> now + Lockout]
                   [] OTHER -> [memory EXCEPT !.count = @ + 1]
    /\ wrong' = Answered
    /\ UNCHANGED <<fails, lock>>

\* the count after INCR auth:fail; past MaxFailed it is no different from MaxFailed
Incremented == IF fails.count = MaxFailed THEN MaxFailed ELSE fails.count + 1

\* INCR and EXPIRE auth:fail; an error counts as the first failure
CountFailure(j) ==
    LET failures == IF redisUp THEN Incremented ELSE 1
    IN  /\ Goto(j, "count", IF failures >= MaxFailed THEN "lock" ELSE "idle")
        /\ fails' = IF redisUp THEN [count |-> failures, until |-> now + Lockout] ELSE fails
        /\ wrong' = IF failures >= MaxFailed THEN wrong ELSE Answered
        /\ UNCHANGED <<lock, memory>>

\* SET auth:lock
SetLock(j) ==
    /\ Goto(j, "lock", "restart")
    /\ lock' = IF redisUp THEN now + Lockout ELSE lock
    /\ UNCHANGED <<fails, memory, wrong>>

\* DEL auth:fail; when a successful login has removed the lock meanwhile, this
\* also forgets the failures since that login
RestartCount(j) ==
    /\ Goto(j, "restart", "idle")
    /\ fails' = IF redisUp THEN NoFails ELSE fails
    /\ wrong' = IF lock > now THEN Answered ELSE 0
    /\ UNCHANGED <<lock, memory>>

\* clear_login_failures: DEL auth:fail, or the memory branch
ClearFails(j) ==
    /\ Goto(j, "clear", IF redisUp THEN "unlock" ELSE "idle")
    /\ fails' = IF redisUp THEN NoFails ELSE fails
    /\ memory' = IF redisUp THEN memory ELSE NoFails
    /\ wrong' = 0
    /\ UNCHANGED lock

\* DEL auth:lock
ClearLock(j) ==
    /\ Goto(j, "unlock", "idle")
    /\ lock' = IF redisUp THEN 0 ELSE lock
    /\ wrong' = 0
    /\ UNCHANGED <<fails, memory>>

\* The client goes away: the handler is dropped at the await it has come to, with
\* what the attempt has not recorded yet, and nobody learns about the password.
Disconnect(j) ==
    /\ attempts[j] # "idle"
    /\ Goto(j, attempts[j], "idle")
    /\ UNCHANGED <<fails, lock, memory, wrong>>

\* It goes away between INCR and EXPIRE: a first failure is left without expiry.
DisconnectUnexpired(j) ==
    /\ redisUp
    /\ Goto(j, "count", "idle")
    /\ fails' = [fails EXCEPT !.count = Incremented]
    /\ UNCHANGED <<lock, memory, wrong>>

-----------------------------------------------------------------------------
RedisFlaps ==
    /\ RedisChange
    /\ flapped' = (flapped \/ ~production \/ \E j \in LoginSlots : attempts[j] # "idle")
    /\ UNCHANGED <<fails, lock, memory, attempts, wrong>>

\* the Redis keys expire
LockTick ==
    LET expired(until) == until \in 1 .. now + 1
    IN  /\ Advance
        /\ \A j \in LoginSlots : attempts[j] \notin {"count", "lock", "restart", "unlock"}
        /\ fails' = IF expired(fails.until) THEN NoFails ELSE fails
        /\ lock' = IF expired(lock) THEN 0 ELSE lock
        /\ wrong' = IF expired(fails.until) \/ expired(lock) \/ memory.until = now + 1 THEN 0 ELSE wrong
        /\ UNCHANGED <<production, redisUp, quotaVars, memory, attempts, flapped>>

LockNext ==
    \/ \E j \in LoginSlots :
          \/ Admit(j) \/ CheckLock(j) \/ WrongPassword(j) \/ RightPassword(j)
          \/ RecordFailure(j) \/ RecordInMemory(j) \/ CountFailure(j) \/ SetLock(j) \/ RestartCount(j)
          \/ ClearFails(j) \/ ClearLock(j) \/ Disconnect(j) \/ DisconnectUnexpired(j)
    \/ RedisFlaps \/ LockTick

LockSpec == now = 0 /\ QuotaInit /\ LockInit /\ [][LockNext]_<<env, lockVars>>

-----------------------------------------------------------------------------
(* Correctness *)

\* "Apply the same source quotas and account lock to every local-password entry
\* point": until a successful login or an expiry makes the server forget the
\* failures, wrong passwords are answered at most as often as configured, plus once
\* for every other attempt that was already past the lock check, while Redis
\* does not come or go under an attempt.  An attempt whose client goes away before
\* its failure is recorded is neither counted nor answered.
GuessesAreBounded == ~flapped => wrong <= MaxFailed + Cardinality(LoginSlots) - 1
=============================================================================
