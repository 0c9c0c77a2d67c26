------------------------------ MODULE RateLimit ------------------------------
(***************************************************************************)
(* The request quotas in front of every credential check, for the two keys *)
(* of one source address.  The counters live in Redis when it can be       *)
(* reached and otherwise, outside production, in process memory.           *)
(***************************************************************************)
EXTENDS Common, Sequences, FiniteSets

CONSTANTS
    Window,  \* auth_rate_limit_window_seconds
    Quota    \* Quota[k]: requests of a window under key k

\* the keys "global:<ip>" and "<ip>:<principal>"
Keys == {"global", "scoped"}

ASSUME QuotaAssumption == Window \in Nat \ {0} /\ Quota \in [Keys -> Nat]

VARIABLES
    production,  \* config.is_production()
    redisUp,     \* a connection to Redis can be had
    hits,        \* hits[k]: the Redis counter of the current bucket
    stamps,      \* stamps[k]: the entries of auth_rate_limits, also those retain would drop
    granted      \* history: granted[k], when requests were counted and let through

quotaVars == <<hits, stamps, granted>>

QuotaInit ==
    /\ production \in BOOLEAN /\ redisUp \in BOOLEAN
    /\ hits = [k \in Keys |-> 0]
    /\ stamps = [k \in Keys |-> <<>>]
    /\ granted = [k \in Keys |-> <<>>]

\* how many entries are newer than now - window
Live(entries) == Cardinality({i \in DOMAIN entries : entries[i] + Window > now})

\* without Redis, production serves nobody
MayServe == redisUp \/ ~production

\* fault: the request that reaches the limit is let through
AllowedUpTo(k) == IF redisUp THEN hits[k] < Quota[k] ELSE Live(stamps[k]) <= Quota[k]

\* the answer for key k: INCR <= max, or fewer live entries than max
Allowed(k) == IF redisUp THEN hits[k] < Quota[k] ELSE Live(stamps[k]) < Quota[k]

\* Redis counts every request (the count stops mattering past the quota), memory
\* the ones it lets through
Charge(ks) ==
    LET passed == {k \in ks : Allowed(k)}
    IN  /\ hits' = [k \in Keys |-> IF redisUp /\ k \in passed THEN hits[k] + 1 ELSE hits[k]]
        /\ stamps' = [k \in Keys |-> IF ~redisUp /\ k \in passed THEN Append(stamps[k], now) ELSE stamps[k]]
        /\ granted' = [k \in Keys |-> IF k \in passed THEN Append(granted[k], now) ELSE granted[k]]

\* allow_auth_request for the global key and then for the scoped key, as
\* enforce_password_login_limits does: a refusal charges nothing further
LimitInTurn ==
    /\ MayServe
    /\ Charge(IF Allowed("global") THEN Keys ELSE {"global"})
    /\ UNCHANGED <<now, production, redisUp>>

\* allow_auth_request_pair, as admin_token and the MFA handlers do: both keys
\* are charged, whichever refuses
LimitAsPair ==
    /\ MayServe
    /\ Charge(Keys)
    /\ UNCHANGED <<now, production, redisUp>>

RedisChange ==
    /\ redisUp' = ~redisUp
    /\ UNCHANGED <<now, production, quotaVars>>

\* a new bucket starts at every multiple of Window
NextBucket ==
    /\ Advance
    /\ hits' = IF (now + 1) % Window = 0 THEN [k \in Keys |-> 0] ELSE hits
    /\ UNCHANGED <<production, redisUp, stamps, granted>>

QuotaNext == LimitInTurn \/ LimitAsPair \/ RedisChange \/ NextBucket

QuotaSpec == now = 0 /\ QuotaInit /\ [][QuotaNext]_<<now, production, redisUp, quotaVars>>

-----------------------------------------------------------------------------
(* Correctness *)

\* A fixed window lets through at most twice its quota around a bucket boundary,
\* and outside production a switch between Redis and memory adds at most one
\* more quota; in production Redis coming and going adds nothing.  A request
\* whose INCR fails after the connection was made passes uncounted and is not
\* in the sum.
GrantsAreBounded ==
    \A k \in Keys : Live(granted[k]) <= (IF production THEN 2 ELSE 3) * Quota[k]
=============================================================================
