---------------------------- MODULE MachineAccess ----------------------------
(***************************************************************************)
(* One machine, a service client or a device, with its API keys, its        *)
(* service secret and the service tokens made with it.  Platform            *)
(* administrators and the managers of its organization write the rows that  *)
(* a running call reads one statement at a time.                            *)
(***************************************************************************)
EXTENDS Common

CONSTANTS
    MaxKeys,        \* bound on the API keys, which are numbered
    KeyExpiries,    \* what expires_at may be, besides None
    Policies,       \* what clients are set to: records of active, caps and introspect
    ServiceTtl,     \* token_ttl_seconds
    ServiceLeeway,  \* seconds decode_service_token accepts an expired token
    MaxCalls,       \* bound on calls and administrator requests of several statements
    MaxEvents       \* bound on writes, new keys aside, and calls, which count twice

\* a scope and an audience: allowed_scopes and allowed_audiences of the client
Capabilities == {"read", "admin-backend"}

ASSUME MachineAssumption ==
    /\ KeyExpiries \subseteq Nat /\ Policies \subseteq [active : BOOLEAN, caps : SUBSET Capabilities, introspect : BOOLEAN]
    /\ None \notin {"device", "service", "key", "token", "bearer"}
    /\ MaxKeys \in Nat /\ ServiceTtl \in Nat /\ ServiceLeeway \in Nat /\ MaxCalls \in Nat /\ MaxEvents \in Nat

VARIABLES
    store,         \* the rows: see MachineInit
    calls,         \* calls[i]: how far the i-th call has come
    called,        \* calls begun so far
    serviceJwts,   \* service_access tokens handed out
    writes         \* writes so far

machineVars == <<store, calls, called, serviceJwts, writes>>

Needs(route) ==
    CASE route = "authorization" -> {"admin-backend"}
      [] route = "introspect"    -> {"read"}
      [] route = "integration"   -> Capabilities
      [] OTHER                   -> {}

ApiKeys == 1 .. MaxKeys
Call == 1 .. MaxCalls
NoCall == [step |-> "none", kind |-> None, key |-> None, secret |-> 0, caps |-> {}, route |-> None,
           copied |-> FALSE, seen |-> {}]

\* an active organization and no machine yet
MachineInit ==
    /\ store = [kind       |-> None,    \* principals.principal_type
                tenant     |-> FALSE,   \* scope_kind is 'organization'
                principal  |-> FALSE,   \* principals.active
                client     |-> FALSE,   \* service_clients.active
                introspect |-> FALSE,   \* service_clients.introspection_allowed
                caps       |-> {},
                secret     |-> 0,       \* which secret secret_hash belongs to
                org        |-> TRUE,    \* organizations.status is 'active'
                member     |-> FALSE,   \* organization_memberships.status is 'active'
                keys       |-> [k \in ApiKeys |-> None]]
    /\ calls = [i \in Call |-> NoCall]
    /\ called = 0 /\ serviceJwts = {} /\ writes = 0

-----------------------------------------------------------------------------
(* What a call may rely on *)

\* the organization and the membership; a platform machine needs neither
ContextIsActive(s) == s.tenant => s.org /\ s.member

\* service_token_context_is_active, in one statement
TokenContextIsActive(s) == s.client /\ s.principal /\ ContextIsActive(s)

\* service_introspection_allowed
IntrospectionAllowed(s) == s.client /\ ~s.tenant /\ s.introspect

Unexpired(k, t) == k.expires = None \/ k.expires > t

\* which of the conditions on call c hold when the rows are s and the time is t
Fulfilled(c, s, t) ==
    {h \in {"row", "fresh", "client", "secret", "context", "introspection"} :
        CASE h = "row"     -> c.kind = "key" /\ ~s.keys[c.key].revoked /\ s.principal /\ ContextIsActive(s)
          [] h = "fresh"   -> c.kind = "key" /\ Unexpired(s.keys[c.key], t)
          [] h = "client"  -> s.kind = "service" => s.client
          [] h = "secret"  -> s.client /\ c.secret = s.secret /\ c.caps \subseteq s.caps
          [] h = "context" -> TokenContextIsActive(s)
          [] OTHER         -> IntrospectionAllowed(s)}

InFlight(c) == c.step \notin {"none", "accepted", "refused"}

\* fault: the rows are read without FOR UPDATE
NothingIsLocked(k) == FALSE

\* verify_machine_credential holds the rows of the key and of its Principal from
\* its first statement to its commit; Locked(None) is about the Principal only
Locked(k) ==
    \E i \in Call : calls[i].kind = "key" /\ calls[i].step \in {"client", "context"} /\ k \in {None, calls[i].key}

-----------------------------------------------------------------------------
(* Administration.  Every running call sees what is written. *)

Stores(s) ==
    /\ store' = s
    /\ calls' = [i \in Call |-> IF InFlight(calls[i])
                                THEN [calls[i] EXCEPT !.seen = @ \cup Fulfilled(calls[i], s, now)]
                                ELSE calls[i]]
    /\ UNCHANGED <<now, called, serviceJwts>>

Write(s) ==
    /\ 2 * called + writes < MaxEvents
    /\ writes' = writes + 1
    /\ Stores(s)

\* lock_active_organization_manager
ManagerMayAct == store.tenant /\ store.org

\* lock_active_organization_manager_target
ManagerMayTarget == ManagerMayAct /\ store.principal /\ store.member

\* the organization is locked while it is written that it owns the machine
MayOwn(tenant) == store.kind = None /\ (tenant => store.org)

\* a machine of the platform, or of an organization with an active membership
Machine(kind, tenant) == [store EXCEPT !.kind = kind, !.tenant = tenant, !.principal = TRUE, !.member = tenant]

\* insert_device
InsertDevice(tenant) ==
    /\ MayOwn(tenant)
    /\ store' = Machine("device", tenant)
    /\ UNCHANGED <<now, calls, called, serviceJwts, writes>>

CreatePlatformDevice(tenant) == InsertDevice(tenant)

CreateOrganizationDevice == InsertDevice(TRUE)

\* insert_service_client
InsertServiceClient(tenant, caps, introspect) ==
    /\ MayOwn(tenant)
    /\ store' = [Machine("service", tenant) EXCEPT !.client = TRUE, !.secret = 1, !.caps = caps, !.introspect = introspect]
    /\ UNCHANGED <<now, calls, called, serviceJwts, writes>>

RegisterService(tenant, policy) == InsertServiceClient(tenant, policy.caps, policy.introspect)

\* register_delegated_service_handler
RegisterDelegatedService(policy) == InsertServiceClient(TRUE, policy.caps, FALSE)

\* update_device_in_scope_transaction
SetDevice(active) ==
    /\ store.kind = "device" /\ ~Locked(None)
    /\ Write([store EXCEPT !.principal = active])

UpdatePlatformDevice(active) == SetDevice(active)

\* so a manager can disable a device and not enable it again
UpdateOrganizationDevice(active) == ManagerMayTarget /\ SetDevice(active)

\* lock_machine_principal_scope
MayHoldKeys ==
    /\ store.kind # None /\ ~Locked(None)
    /\ store.principal /\ (store.kind = "service" => store.client)
    /\ ContextIsActive(store)

\* parse_future_expiry
IsFuture(expires) == expires # None => expires > now

\* insert_machine_credential: keys are numbered as they are made
InsertKey(k, expires) ==
    /\ \A j \in ApiKeys : store.keys[j] = None <=> j >= k
    /\ MayHoldKeys
    /\ Stores([store EXCEPT !.keys[k] = [revoked |-> FALSE, expires |-> expires]])
    /\ UNCHANGED writes

CreatePlatformKey(k, expires) == IsFuture(expires) /\ InsertKey(k, expires)

CreateOrganizationKey(k, expires) == ManagerMayTarget /\ IsFuture(expires) /\ InsertKey(k, expires)

\* rotate_machine_credential_in_transaction: a second key, the first stays
\* usable; an expired key may be rotated, and its successor is then expired too
\* unless a new expiry is given
Rotate(k, new, expires) ==
    /\ store.keys[k] # None /\ ~store.keys[k].revoked /\ ~Locked(k)
    /\ InsertKey(new, IF expires = None THEN store.keys[k].expires ELSE expires)

RotatePlatformKey(k, new, expires) == IsFuture(expires) /\ Rotate(k, new, expires)

RotateOrganizationKey(k, new, expires) == ManagerMayTarget /\ IsFuture(expires) /\ Rotate(k, new, expires)

\* revoke_machine_credential_in_scope_transaction
Revoke(k) ==
    /\ store.keys[k] # None /\ ~Locked(k)
    /\ Write([store EXCEPT !.keys[k].revoked = TRUE])

\* whatever the state of the machine and of its organization
RevokePlatformKey(k) == Revoke(k)

RevokeOrganizationKey(k) == ManagerMayTarget /\ ~Locked(None) /\ Revoke(k)

\* update_service_client_as_organization_manager: the Principal is not synchronized
UpdateDelegatedService(policy) ==
    /\ store.kind = "service" /\ ManagerMayAct
    /\ Write([store EXCEPT !.client = policy.active, !.caps = policy.caps, !.introspect = FALSE])

\* rotate_service_secret_as_organization_manager
RotateDelegatedSecret ==
    /\ store.kind = "service" /\ ManagerMayAct /\ store.client
    /\ Write([store EXCEPT !.secret = @ + 1])

\* the organization is disabled or reactivated
SetOrganization == Write([store EXCEPT !.org = ~@])

\* the machine's membership is suspended or restored
SetMembership ==
    /\ store.tenant
    /\ ~store.member => store.org /\ store.principal
    /\ Write([store EXCEPT !.member = ~@])

-----------------------------------------------------------------------------
(* Calls *)

StartCall(c) ==
    /\ called < MaxCalls /\ 2 * (called + 1) + writes <= MaxEvents
    /\ called' = called + 1
    /\ calls' = [calls EXCEPT ![called + 1] = [c EXCEPT !.seen = Fulfilled(c, store, now)]]

CallAt(i, step) == calls[i].step = step

\* call i goes on to `step`; a refused call leaves nothing behind
Goes(i, step) ==
    calls' = [calls EXCEPT ![i] = IF step = "refused" THEN [NoCall EXCEPT !.step = step] ELSE [@ EXCEPT !.step = step]]

Only(i, step) == Goes(i, step) /\ UNCHANGED <<now, store, called, serviceJwts, writes>>

\* an X-API-Key arrives at an authorization route, its secret right
StartKeyCall(k) ==
    /\ store.keys[k] # None
    /\ StartCall([NoCall EXCEPT !.step = "row", !.kind = "key", !.key = k])
    /\ UNCHANGED <<now, store, serviceJwts, writes>>

\* verify_machine_credential: the key and its Principal, locked.  The scope and
\* the audience the caller asks for are taken to be among the allowed ones.
ReadKeyRow(i) ==
    LET k == store.keys[calls[i].key]
    IN  /\ CallAt(i, "row") /\ ~Locked(None)
        /\ Only(i, IF ~k.revoked /\ Unexpired(k, now) /\ store.principal THEN "client" ELSE "refused")

\* machine_principal_context_is_active_in_transaction: the client and the scope
ReadMachine(i) ==
    /\ CallAt(i, "client") /\ calls[i].kind = "key"
    /\ Only(i, IF store.kind = "service" /\ ~store.client THEN "refused"
               ELSE IF store.tenant THEN "context" ELSE "accepted")

\* the organization and the membership, then the commit
ReadContext(i) ==
    /\ CallAt(i, "context") /\ calls[i].kind = "key"
    /\ Only(i, IF store.org /\ store.member THEN "accepted" ELSE "refused")

\* service_token, past the rate limits and the lock, with a secret of its choice
StartTokenCall(secret, caps) ==
    /\ store.kind = "service"
    /\ StartCall([NoCall EXCEPT !.step = "verify", !.kind = "token", !.secret = secret, !.caps = caps])
    /\ UNCHANGED <<now, store, serviceJwts, writes>>

\* verify_service_credentials, resolve_scopes, resolve_audience
VerifySecret(i) ==
    /\ CallAt(i, "verify")
    /\ Only(i, IF "secret" \in Fulfilled(calls[i], store, now) THEN "read" ELSE "refused")

\* ensure_service_principal reads the client's flag
CopyRead(i) ==
    /\ CallAt(i, "read")
    /\ calls' = [calls EXCEPT ![i].step = "write", ![i].copied = store.client]
    /\ UNCHANGED <<now, store, called, serviceJwts, writes>>

\* and writes it to the Principal in a later statement
CopyWrite(i) ==
    LET s == [store EXCEPT !.principal = calls[i].copied]
    IN  /\ CallAt(i, "write") /\ ~Locked(None)
        /\ store' = s
        /\ calls' = [j \in Call |->
              IF j = i /\ calls[i].kind = "update" THEN [NoCall EXCEPT !.step = "accepted"]
              ELSE IF ~InFlight(calls[j]) THEN calls[j]
              ELSE [calls[j] EXCEPT !.seen = @ \cup Fulfilled(calls[j], s, now), !.step = IF j = i THEN "live" ELSE @]]
        /\ UNCHANGED <<now, called, serviceJwts, writes>>

\* service_token_context_is_active, then mint_service_token
MintServiceToken(i) ==
    LET live == TokenContextIsActive(store)
    IN  /\ CallAt(i, "live") /\ calls[i].kind = "token"
        /\ Goes(i, IF live THEN "accepted" ELSE "refused")
        /\ serviceJwts' = IF live THEN serviceJwts \cup {[caps |-> calls[i].caps, exp |-> now + ServiceTtl]} ELSE serviceJwts
        /\ UNCHANGED <<now, store, called, writes>>

\* a service token at one of the routes that take it, unexpired; ensure_service_claims
StartBearerCall(jwt, route) ==
    /\ now <= jwt.exp + ServiceLeeway /\ Needs(route) \subseteq jwt.caps
    /\ StartCall([NoCall EXCEPT !.step = "live", !.kind = "bearer", !.route = route])
    /\ UNCHANGED <<now, store, serviceJwts, writes>>

\* principal_from_bearer
StartAuthorizationCall(jwt) == StartBearerCall(jwt, "authorization")

\* service_auth_middleware
StartIntrospectCall(jwt) == StartBearerCall(jwt, "introspect")

\* service_integration_auth_middleware
StartIntegrationCall(jwt) == StartBearerCall(jwt, "integration")

\* service_introspect is asked about the token
StartIntrospection(jwt) == StartBearerCall(jwt, "introspected")

\* ensure_service_claims_live, service_token_claims_are_active
EnsureLive(i) ==
    /\ CallAt(i, "live") /\ calls[i].kind = "bearer"
    /\ Only(i, IF ~TokenContextIsActive(store) THEN "refused"
               ELSE IF calls[i].route \in {"introspect", "integration"} THEN "introspect" ELSE "accepted")

CheckIntrospection(i, route) ==
    /\ CallAt(i, "introspect") /\ calls[i].route = route
    /\ Only(i, IF IntrospectionAllowed(store) THEN "accepted" ELSE "refused")

\* service_read_authorization_middleware
AuthorizeRead(i) == CheckIntrospection(i, "introspect")

\* service_integration_authorization_middleware
AuthorizeIntegration(i) == CheckIntrospection(i, "integration")

\* update_service_client and rotate_service_secret for the platform: the row, and
\* ensure_service_principal after it
StartServiceUpdate(s) ==
    /\ store.kind = "service" /\ called < MaxCalls /\ 2 * (called + 1) + writes <= MaxEvents
    /\ store' = s
    /\ called' = called + 1
    /\ calls' = [i \in Call |->
          IF i = called + 1 THEN [NoCall EXCEPT !.step = "read", !.kind = "update"]
          ELSE IF InFlight(calls[i]) THEN [calls[i] EXCEPT !.seen = @ \cup Fulfilled(calls[i], s, now)]
          ELSE calls[i]]
    /\ UNCHANGED <<now, serviceJwts, writes>>

UpdateService(policy) ==
    StartServiceUpdate([store EXCEPT !.client = policy.active, !.caps = policy.caps, !.introspect = policy.introspect])

RotateServiceSecret == store.client /\ StartServiceUpdate([store EXCEPT !.secret = @ + 1])

\* the server stops or the caller goes away between two statements; an open
\* transaction is rolled back
LoseCall(i) == InFlight(calls[i]) /\ Only(i, "refused")

\* a key may expire under a running call, which does not make it any better
MachineTick == Advance /\ UNCHANGED machineVars

MachineNext ==
    \/ \E policy \in Policies :
          \/ \E tenant \in BOOLEAN : RegisterService(tenant, policy)
          \/ RegisterDelegatedService(policy)
          \/ UpdateService(policy) \/ UpdateDelegatedService(policy)
          \/ \E secret \in 1 .. store.secret : StartTokenCall(secret, policy.caps)
    \/ RotateServiceSecret \/ RotateDelegatedSecret
    \/ \E tenant \in BOOLEAN : CreatePlatformDevice(tenant)
    \/ CreateOrganizationDevice
    \/ \E active \in BOOLEAN : UpdatePlatformDevice(active) \/ UpdateOrganizationDevice(active)
    \/ \E k \in ApiKeys :
          \/ \E expires \in KeyExpiries \cup {None} :
                \/ CreatePlatformKey(k, expires) \/ CreateOrganizationKey(k, expires)
                \/ \E new \in ApiKeys : RotatePlatformKey(k, new, expires) \/ RotateOrganizationKey(k, new, expires)
          \/ RevokePlatformKey(k) \/ RevokeOrganizationKey(k)
          \/ StartKeyCall(k)
    \/ SetOrganization \/ SetMembership
    \/ \E jwt \in serviceJwts :
          \/ StartAuthorizationCall(jwt) \/ StartIntrospectCall(jwt)
          \/ StartIntegrationCall(jwt) \/ StartIntrospection(jwt)
    \/ \E i \in Call :
          \/ ReadKeyRow(i) \/ ReadMachine(i) \/ ReadContext(i)
          \/ VerifySecret(i) \/ CopyRead(i) \/ CopyWrite(i) \/ MintServiceToken(i)
          \/ EnsureLive(i) \/ AuthorizeRead(i) \/ AuthorizeIntegration(i) \/ LoseCall(i)
    \/ MachineTick

MachineSpec == now = 0 /\ MachineInit /\ [][MachineNext]_<<now, machineVars>>

-----------------------------------------------------------------------------
(* Correctness *)

\* "Wrong, expired, revoked, cross-tenant, and inactive credentials are
\* unified": whatever administrators write between the statements of a call,
\* - an API key is accepted only if at one moment of the call the key was not
\*   revoked, its Principal active and its organization and membership active,
\*   and at some moment each the key unexpired and the client enabled;
\* - a token is made only for a secret that was current, with capabilities the
\*   client then had, and a machine that was whole at one moment;
\* - a token is honoured only if at one moment of the call the machine was whole,
\*   and tokens of an organization's service never reach introspection.
MachineCallsAreAuthorized ==
    \A i \in Call :
        LET c == calls[i]
        IN  CallAt(i, "accepted") =>
                /\ c.kind = "key" => {"row", "fresh", "client"} \subseteq c.seen
                /\ c.kind = "token" => {"secret", "context"} \subseteq c.seen
                /\ c.kind = "bearer" =>
                      /\ "context" \in c.seen
                      /\ c.route \in {"introspect", "integration"} => "introspection" \in c.seen /\ ~store.tenant
=============================================================================
