--------------------------- MODULE CustomerSupport ---------------------------
(***************************************************************************)
(* Temporary read access of support staff to a customer organization: an   *)
(* administrator grants it, the staff member exchanges the grant for a     *)
(* short-lived token, and every read checks the grant again.  Each         *)
(* database statement of an exchange or a read is a step of its own.       *)
(***************************************************************************)
EXTENDS Common

CONSTANTS
    Staff,           \* Principals that hold a session
    Customers,       \* customer organizations
    ReadOps,         \* CUSTOMER_SUPPORT_SUPPORTED_OPERATIONS
    Grants,          \* grant ids
    SupportTtl,      \* CUSTOMER_SUPPORT_TOKEN_TTL_SECONDS
    SupportLeeway,   \* seconds decode_token accepts an expired token
    GrantArgs,       \* what administrators grant: records of who, org, ops and expires
    MaxRequests,     \* bound on exchanges and reads
    MaxChanges       \* bound on changes of the organizations and the staff

GrantRow == [who : Staff, org : Customers, ops : SUBSET ReadOps, expires : Nat, revoked : BOOLEAN]

\* NULL is no row, and no kind of request
ASSUME SupportAssumption ==
    /\ None \notin GrantRow /\ None \notin {"exchange", "read"}
    /\ GrantArgs \subseteq [who : Staff, org : Customers, ops : SUBSET ReadOps \ {{}}, expires : Nat]
    /\ SupportTtl \in Nat /\ SupportLeeway \in Nat /\ MaxRequests \in Nat /\ MaxChanges \in Nat

VARIABLES
    grants,      \* customer_support_access_grants with their operations
    customers,   \* customers[o]: organizations.status is 'active'
    staff,       \* staff[p]: which of the requirements on a support user hold
    approver,    \* the administrator: "eligible", "approved" past the check, or "not"
    requests,    \* requests[i]: how far the i-th exchange or read has come
    started,     \* requests begun so far
    supportJwts, \* customer_support_access tokens handed out
    audits,      \* customer_support_audit_logs
    changes      \* changes so far

supportVars == <<grants, customers, staff, approver, requests, started, supportJwts, audits, changes>>

Full == {"active", "internal employee with the role"}
Request == 1 .. MaxRequests
NoRequest == [step |-> "none", kind |-> None, who |-> None, jwt |-> None, path |-> None, op |-> None, second |-> FALSE, seen |-> {}]

SupportInit ==
    /\ grants = [g \in Grants |-> None]
    /\ customers = [o \in Customers |-> TRUE]
    /\ staff = [p \in Staff |-> Full]
    /\ approver = "eligible"
    /\ requests = [i \in Request |-> NoRequest]
    /\ started = 0
    /\ supportJwts = {} /\ audits = {} /\ changes = 0

Audit(i, g, event, outcome) == [request |-> i, grant |-> g, event |-> event, outcome |-> outcome]

-----------------------------------------------------------------------------
(* Administration: check first, then one transaction *)

\* require_human_platform_admin_with_recent_mfa
Approve ==
    /\ approver = "eligible"
    /\ approver' = "approved"
    /\ UNCHANGED <<now, grants, customers, staff, requests, started, supportJwts, audits, changes>>

\* create_customer_support_grant: the organization and the user are locked while
\* the grant and its audit row are written
CreateGrant(g, arg) ==
    /\ approver = "approved" /\ grants[g] = None
    /\ arg.expires > now /\ customers[arg.org] /\ staff[arg.who] = Full
    /\ grants' = [grants EXCEPT ![g] = [who |-> arg.who, org |-> arg.org, ops |-> arg.ops,
                                        expires |-> arg.expires, revoked |-> FALSE]]
    /\ audits' = audits \cup {Audit(0, g, "created", "allow")}
    /\ approver' = "eligible"
    /\ UNCHANGED <<now, customers, staff, requests, started, supportJwts, changes>>

\* revoke_customer_support_grant: repeating it changes nothing
RevokeGrant(g) ==
    /\ approver = "approved" /\ grants[g] # None
    /\ grants' = [grants EXCEPT ![g].revoked = TRUE]
    /\ audits' = audits \cup {Audit(0, g, "revoked", "allow")}
    /\ approver' = "eligible"
    /\ UNCHANGED <<now, customers, staff, requests, started, supportJwts, changes>>

\* a request that validation or a lock refuses
RefuseApproved ==
    /\ approver = "approved"
    /\ approver' = "eligible"
    /\ UNCHANGED <<now, grants, customers, staff, requests, started, supportJwts, audits, changes>>

-----------------------------------------------------------------------------
(* The live check *)

GrantIsLive(g) == grants[g] # None /\ ~grants[g].revoked /\ grants[g].expires > now

\* which of the conditions on r hold when the tables are `active` and `eligible`
Holding(r, active, eligible) ==
    {c \in {"grant", "org", "staff"} :
        CASE c = "grant" -> GrantIsLive(r.jwt.grant)
          [] c = "org"   -> active[r.jwt.org]
          [] OTHER       -> eligible[r.who] = Full}

\* request i goes on to `step`
To(i, step) ==
    /\ requests' = [requests EXCEPT ![i].step = step]
    /\ UNCHANGED <<now, grants, customers, staff, approver, started, changes>>

At(i, step) == requests[i].step = step

NewRequest(kind, who, path, op, jwt) ==
    [step |-> "grant", kind |-> kind, who |-> who, jwt |-> jwt, path |-> path, op |-> op, second |-> FALSE, seen |-> {}]

StartRequest(r) ==
    /\ started < MaxRequests
    /\ started' = started + 1
    /\ requests' = [requests EXCEPT ![started + 1] = [r EXCEPT !.seen = Holding(r, customers, staff)]]
    /\ UNCHANGED <<now, grants, customers, staff, approver, supportJwts, audits, changes>>

\* mint_customer_support_context: the caller, then the grant's organization; a
\* request refused before this point leaves no trace
StartExchange(p, g) ==
    /\ "active" \in staff[p] /\ grants[g] # None
    /\ StartRequest(NewRequest("exchange", p, grants[g].org, None,
                        [who |-> p, grant |-> g, org |-> grants[g].org, ops |-> {}, exp |-> 0]))

\* customer_support_auth_middleware and the first lines of
\* authorize_customer_support_read, for a path of the caller's choice
StartRead(t, o, op) ==
    /\ now <= t.exp + SupportLeeway /\ "active" \in staff[t.who]
    /\ StartRequest(NewRequest("read", t.who, o, op, t))

\* fault: a revoked grant is still a grant
MatchesUnrevoked(r) ==
    LET g == grants[r.jwt.grant] IN g # None /\ g.who = r.who /\ g.org = r.jwt.org /\ g.expires > now

\* get_live_customer_support_access_context: the grant
Matches(r) ==
    LET g == grants[r.jwt.grant]
    IN  /\ GrantIsLive(r.jwt.grant)
        /\ g.who = r.who /\ g.org = r.jwt.org

CheckGrant(i) ==
    /\ At(i, "grant")
    /\ To(i, IF Matches(requests[i]) THEN "org" ELSE "deny")
    /\ UNCHANGED <<supportJwts, audits>>

\* its organization
CheckCustomer(i) ==
    /\ At(i, "org")
    /\ To(i, IF customers[requests[i].jwt.org] THEN "staff" ELSE "deny")
    /\ UNCHANGED <<supportJwts, audits>>

\* its user
CheckStaff(i) ==
    /\ At(i, "staff")
    /\ To(i, IF staff[requests[i].who] = Full THEN "decide" ELSE "deny")
    /\ UNCHANGED <<supportJwts, audits>>

\* authorize_customer_support_read: the path and the scope after the first live
\* check, the operation after the second
Decide(i) ==
    LET r == requests[i]
    IN  /\ At(i, "decide") /\ r.kind = "read"
        /\ IF r.second
           THEN To(i, IF r.op \in grants[r.jwt.grant].ops THEN "fetch" ELSE "deny")
           ELSE IF r.path = r.jwt.org /\ r.op \in r.jwt.ops
                THEN /\ requests' = [requests EXCEPT ![i] = [r EXCEPT !.step = "grant", !.second = TRUE]]
                     /\ UNCHANGED <<now, grants, customers, staff, approver, started, changes>>
                ELSE To(i, "deny")
        /\ UNCHANGED <<supportJwts, audits>>

-----------------------------------------------------------------------------
(* Answers.  The audit row may fail, or the reply may be lost after it. *)

Event(r) == IF r.kind = "read" THEN r.op ELSE "issued"

\* the row is written and the request ends; or the statement fails; or the
\* server stops after it
Record(i, outcome, answer) ==
    \E written \in BOOLEAN, end \in {answer, "failed"} :
        /\ end = answer => written
        /\ To(i, end)
        /\ audits' = IF written THEN audits \cup {Audit(i, requests[i].jwt.grant, Event(requests[i]), outcome)} ELSE audits

\* the token ends with the grant; a grant that ended since the live check is
\* refused without an audit row, like a request whose caller is not who its
\* token says, which goes no further than StartExchange or StartRead
Exchange(i) ==
    LET r   == requests[i]
        g   == grants[r.jwt.grant]
        exp == IF now + SupportTtl < g.expires THEN now + SupportTtl ELSE g.expires
    IN  /\ At(i, "decide") /\ r.kind = "exchange"
        /\ IF exp <= now
           THEN To(i, "failed") /\ UNCHANGED <<supportJwts, audits>>
           ELSE /\ Record(i, "allow", "answered")
                /\ supportJwts' = IF requests'[i].step = "answered"
                                  THEN supportJwts \cup {[r.jwt EXCEPT !.ops = g.ops, !.exp = exp]} ELSE supportJwts

\* the handlers: the data, or none
Fetch(i) ==
    /\ At(i, "fetch")
    /\ \E step \in {"disclose", "deny"} : To(i, step)
    /\ UNCHANGED <<supportJwts, audits>>

\* fault: the data is returned whether or not the row could be written
DiscloseAnyway(i) ==
    /\ At(i, "disclose")
    /\ To(i, "answered")
    /\ UNCHANGED <<supportJwts, audits>>

\* record_customer_support_read_success
Disclose(i) ==
    /\ At(i, "disclose")
    /\ Record(i, "allow", "answered")
    /\ UNCHANGED supportJwts

\* record_customer_support_read_failure and the refusals of the live check
Deny(i) ==
    /\ At(i, "deny")
    /\ Record(i, "deny", "refused")
    /\ UNCHANGED supportJwts

-----------------------------------------------------------------------------
(* What may change meanwhile; every running request sees it. *)

Observe == requests' = [i \in Request |->
              IF requests[i].kind = None THEN requests[i]
              ELSE [requests[i] EXCEPT !.seen = @ \cup Holding(requests[i], customers', staff')]]

Change ==
    /\ changes < MaxChanges
    /\ changes' = changes + 1
    /\ Observe
    /\ UNCHANGED <<now, grants, started, supportJwts, audits>>

\* an organization is suspended or reactivated
ChangeCustomer(o) ==
    /\ customers' = [customers EXCEPT ![o] = ~@]
    /\ UNCHANGED <<staff, approver>>
    /\ Change

\* a user is disabled or enabled, or changes role or class
ChangeStaff(p, requirement) ==
    /\ staff' = [staff EXCEPT ![p] = IF requirement \in @ THEN @ \ {requirement} ELSE @ \cup {requirement}]
    /\ UNCHANGED <<customers, approver>>
    /\ Change

\* the administrator loses or regains the right, or the verified factor ages
ChangeApprover ==
    /\ approver' = IF approver = "not" THEN "eligible" ELSE "not"
    /\ approver # "approved"
    /\ UNCHANGED <<customers, staff>>
    /\ Change

SupportTick == Advance /\ UNCHANGED supportVars

SupportNext ==
    \/ Approve \/ RefuseApproved
    \/ \E g \in Grants :
          \/ \E arg \in GrantArgs : CreateGrant(g, arg)
          \/ RevokeGrant(g)
          \/ \E p \in Staff : StartExchange(p, g)
    \/ \E t \in supportJwts, o \in Customers, op \in ReadOps : StartRead(t, o, op)
    \/ \E i \in Request :
          \/ CheckGrant(i) \/ CheckCustomer(i) \/ CheckStaff(i) \/ Decide(i)
          \/ Exchange(i) \/ Fetch(i) \/ Disclose(i) \/ Deny(i)
    \/ \E o \in Customers : ChangeCustomer(o)
    \/ \E p \in Staff, requirement \in Full : ChangeStaff(p, requirement)
    \/ ChangeApprover \/ SupportTick

SupportSpec == now = 0 /\ SupportInit /\ [][SupportNext]_<<now, supportVars>>

-----------------------------------------------------------------------------
(* Correctness *)

\* "Live-checks the signed grant before every read": data is disclosed only to
\* the grantee, for the granted organization and operation, and only if at some
\* moment of the request the grant was neither revoked nor expired, and at some
\* moment each the organization was active and the user still eligible.  A
\* request begun after a revocation therefore discloses nothing.
DisclosureIsAuthorized ==
    \A i \in Request :
        LET r == requests[i]
        IN  r.kind = "read" /\ r.step = "answered" =>
                /\ r.seen = {"grant", "org", "staff"}
                /\ grants[r.jwt.grant].who = r.who
                /\ grants[r.jwt.grant].org = r.path
                /\ r.op \in grants[r.jwt.grant].ops

\* "failing closed here prevents an unaudited cross-organization session":
\* every grant, revocation, token and disclosure has its audit row, and so has
\* every refusal that the live check or the read itself answers with, whichever
\* statement fails; and no token outlives its grant.  (Refusals outside of these
\* leave no row: of a caller that does not match its token or its Principal, and
\* of a grant that ends between the live check and the signature.)
SupportIsAudited ==
    /\ \A g \in Grants :
          /\ grants[g] # None <=> Audit(0, g, "created", "allow") \in audits
          /\ grants[g] # None /\ grants[g].revoked <=> Audit(0, g, "revoked", "allow") \in audits
    /\ \A i \in Request :
          LET row(outcome) == Audit(i, requests[i].jwt.grant, Event(requests[i]), outcome)
          IN  /\ At(i, "answered") => row("allow") \in audits
              /\ At(i, "refused") => row("deny") \in audits
    /\ \A t \in supportJwts : t.exp <= grants[t.grant].expires
=============================================================================
