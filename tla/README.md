# Keylo in TLA+

Keylo is an authentication and authorization server: Axum handlers on a Tokio
runtime over PostgreSQL (sqlx), with an optional Redis for counters and RSA key
files on disk.  This directory models its stateful core in TLA+, checks the
models with TLC on small instances and proves the central properties with TLAPS
for every value of the constants.  `PROJECT.json` maps each definition to the
source lines it models and lists components, runs, mutants, hazards, findings
and theorems.

    tlc -workers 2 -config MCRefreshChain.cfg MCRefreshSession
    tlapm RefreshSessionProofs.tla

## 1. Inventory

What makes Keylo hard is the same everywhere.  A handler is an `async fn` that
awaits many SQL statements.  Some groups of statements are transactions that lock
their rows (`FOR UPDATE`); the rest are single statements, and anything another
request commits may fall in between.  A handler whose client disconnects is
dropped at its next await.  Nothing above the database serialises two requests.

| Component | State | Operations | What makes it correct |
|---|---|---|---|
| Accounts and Principals (`db/user.rs`, `db/principal.rs`) | `users`, `principals` (the copy of an account the middleware tests) | create, update, disable, delete, password change and reset, `ensure_user_principal` | a disabled account is locked out at once; credential changes end sessions; the copy follows the account |
| Organizations and memberships (`db/organization.rs`) | `organizations`, `organization_memberships` | status changes, platform and manager upserts, invitations, joins | losing a membership ends exactly what was scoped to it |
| Refresh sessions (`db/refresh_session.rs`) | `refresh_sessions`, `refresh_session_tokens` | create, consume and rotate, replay detection, revocations | a token is exchanged once, a chain has one unspent token, revocation is final, expiry never moves |
| Login and refresh handlers (`handlers/auth.rs`, `middleware/auth.rs`) | local variables between awaits | password login, session policy, refresh, logout, admission | the promises of the documentation under interleaving |
| Reset and verification (`db/password_reset.rs`, `db/email_verification.rs`, `handlers/password_reset.rs`, `handlers/email.rs`) | two token tables, mailboxes | issue, deliver, withdraw, consume, expire | one usable token, none for an old address, passwords reset only through proved addresses |
| Signing keys (`models/jwt.rs`, `handlers/auth.rs`, `config.rs`) | active and passive pair in memory, six files | rotate, roll back, retire, restart | kids unique, signer verifiable, overlap honoured, restart resumes |
| OpenID provider (`db/oidc.rs`, `handlers/oidc.rs`) | clients, browser sessions, authorization codes | register, reconfigure, secret rotation, login, consent, token | a code is redeemed once, in a context that is still live |
| Rate limits and login failures (`state.rs`, `handlers/common.rs`) | counters in Redis or memory | check, record, clear | limits hold under concurrent attempts |
| Legacy tokens and blacklist (`db/mod.rs`) | `refresh_tokens`, `token_blacklist` | issue, consume, blacklist, clean | a blacklisted token stays refused while it is valid |
| Upstream identity, GitHub login (`db/identity.rs`, `db/oidc_upstream.rs`, `db/oauth.rs`, their handlers) | one-time authorizations, external mappings | start, callback, link, just-in-time account | a callback is trusted under the settings in force; no account without a way in |
| Multi-factor (`db/mfa.rs`, `routes/mfa.rs`) | factor, last step, recovery codes, recent verification | enrol, verify, recover, disable | no code works twice; proofs and recovery codes go with the factor |
| Roles, permissions, resources (`db/rbac.rs`, `db/resource.rs`, `routes/authorization.rs`) | versioned rows, bindings | versioned updates, grants, the decision | the recorded history is what happened; bindings fit role type and user class; tenant and platform authority stay apart |
| Customer support (`db/customer_support.rs`) | time-limited grants | grant, revoke, exchange, read | access only inside a live grant, never without its audit row |
| Machine and service credentials (`db/machine.rs`, `db/service.rs`) | devices, credentials, secrets | register, issue, rotate, revoke, authenticate, introspect | nothing revoked, disabled or out of its tenant authenticates, even when it changes during the call |
| Setup (`handlers/setup.rs`, `db/settings.rs`) | `system_settings`, a session-scoped advisory lock | initialise | once, with the administrator of the call that did it |
| Startup, configuration, mail, logging, web pages | none of its own | parsing, wiring, I/O | not state machines |

Interactions: every component reads accounts, Principals and memberships and
relies on the transactions that change them to end what depends on them: sessions
(RefreshSession), browser sessions and codes (OidcProvider), mailed tokens
(AccountProofs), machines and their tokens (MachineAccess).  Handlers compose
store transactions (AuthFlow).  Every credential check sits behind the quotas and
the lock (RateLimit, LoginLock); administration asks for a recent second factor
(Mfa) and for roles (Rbac).  All tokens are verified with the keys of JwtKeys.

The hazards are in `PROJECT.json`, each at its line with the properties that
cover it.

## 2. Modules

    Common (SQL NULL, the clock)
     ├─ Directory ─┬─ RefreshSession ─┬─ AuthFlow ── AuthFlowProofs
     │             │                  ├─ refines TokenFamily
     │             │                  └─ RefreshSessionProofs
     │             └─ OidcProvider ── OidcProviderProofs
     ├─ AccountProofs ── AccountProofsProofs
     ├─ JwtKeys ── JwtKeysProofs
     ├─ MachineAccess ── MachineAccessProofs
     ├─ Mfa, CustomerSupport, UpstreamLogin ─┬─ CredentialProofs
     ├─ RateLimit ── LoginLock ──────────────┘
     └─ Setup ─┐
    ChangeHistory, Rbac, Organization, RowLocks ─┴─ AdministrationProofs

    MCTenant         = RefreshSession + MachineAccess
    MCCredentials    = AccountProofs + Mfa + LoginLock + UpstreamLogin + CustomerSupport
    MCAdministration = JwtKeys + ChangeHistory + Rbac + Organization + RowLocks + Setup

**Directory** holds the four tables everything depends on; an operator is the
effect of one committed transaction on them.  `user_class` and
`organizations.kind` are constants there (Rbac and Organization change the class).

**RefreshSession** is the store: one action per transaction of
`db/refresh_session.rs` and one per account or tenant transaction, with its
effect on sessions.  `consume_and_rotate_refresh_session` is split by its outcome
(`ConsumeResult`): rotation, replay, inactive context, or nothing.  A row keeps
the columns the outcomes depend on; ids are model values.

**TokenFamily** says what a session promises whatever implements it: a family of
one-time tokens, held by exactly one, that gains no time by an exchange and dies
once.  RefreshSession is checked and proved to implement it (family = session
liveness, holder = the current token, ends = that token's expiry, spent = the
consumed tokens).

**AuthFlow** puts the handlers on top of the store: `auth_token`, `auth_refresh`,
`ensure_user_principal`, account updates and the middleware's admission, one step
per await, any number of request slots, cancellation at any await.  History
variables record which password a session was opened with, the newest access
token of a user and the refresh tokens a response delivered.

**RateLimit** has the quotas of one source address under its two keys, in both
forms: a Redis counter per fixed bucket, and time stamps in process memory when
Redis cannot be reached outside production.  `LimitInTurn` and `LimitAsPair` are
the two ways handlers ask.  **LoginLock** adds the failure counter and the lock of
one account: every Redis command of `record_login_failure` and
`clear_login_failures` is a step of its own, several attempts are under way, keys
expire, Redis comes and goes.  An attempt whose client disconnects ends anywhere:
after the password check before it is counted (`Disconnect`), or between `INCR`
and `EXPIRE`, which leaves a counter that does not expire (`DisconnectUnexpired`).
Neither gets an answer, so the bound is on the wrong passwords that were answered.

**AccountProofs** covers reset and verification tokens: issue (which withdraws
siblings), delivery that may fail, or fail for a mail that arrives, withdrawal,
use, expiry, and the account changes that withdraw tokens.  Usernames may look
like addresses (`NameOf`), because the reset lookup accepts either.

**Mfa** is the second factor of one user.  A handler reads the credential, checks
a code against the seed it read and writes in a transaction of its own; a code is
its seed and its time step, and the adjacent steps are accepted.

**UpstreamLogin** follows a login through an upstream source statement by
statement: the stored browser transaction, the cached metadata, the exchange, the
second look at the source, resolution by mapping or address, just-in-time
creation with membership and mapping, clean-up after a conflict, the session.
Beside it an administrator edits or disables the source, users are unlinked or
deleted, and a request may stop anywhere.  The trust settings are one number.

**CustomerSupport** has grants, the exchange for a short-lived token, reads that
check grant, organization and Principal again (twice, one statement each), and the
audit rows of issued tokens, disclosures and refusals; any statement may fail.
Refusals that precede the live check (a caller that does not match its token) or
follow it in the exchange (the grant has just ended) leave no row in the code, and
none in the model.

**MachineAccess** is one machine, a service client or a device, of the platform or
of an organization, with its API keys, its secret and the tokens made with it.
Platform and manager writes interleave with calls that read credential, Principal,
client, organization and membership one statement at a time.  The requested scope
and audience are taken to be allowed ones.  `Locked` is the
`FOR UPDATE` of `verify_machine_credential`: key and Principal cannot change while
it runs, the other rows can.  A call records in `seen` which conditions held at
some moment since it began; that is what acceptance is compared with.

**JwtKeys** has the pair in memory, the passive pair, the six files, management
requests that write the files one by one, I/O errors, crashes and restarts.  A
file is replaced by removal and rename, so a fault may leave it missing.

**ChangeHistory** is one versioned row (a role, a permission or a resource,
chosen by `kind`) with its recorded changes: read, change where the version
matches, record, as three statements of concurrent editors.  The version the
client expects is any number or none; the handlers never compare it with the row
they read, only the `UPDATE` does with the row it meets.

**Rbac** has the bindings of a human in their two tables, service and
organization bindings, roles whose type and existence change, user classes, and
the decision of `routes/authorization.rs` as a request of several steps
(`Identify`, `ResolveContext`, `ResolveTarget`, `CheckOne`).

**Organization** has the memberships of one organization with owners, admins and
members; the delegated path is checked once by the route and again under locks.
`made` and `unmade` record on whose authority an owner rose or fell.

**RowLocks** lists the rows the transactions on organizations, Principals,
accounts, memberships, proofs and machine credentials lock, in their order, and
lets them run one lock at a time; a circle is aborted, as PostgreSQL does.  The
locking transactions on support grants, relying-party clients, identity sources and
recovery codes are not among them.

**Setup** is `setup_initialize` as concurrent calls.  The lock is counted per
database session and a pooled connection keeps it when its call is dropped; every
statement may fail.  A connection held by a call is taken to outlive it: if its
session ended under it, another call could take the lock while the first goes on.
The seeding of a configured administrator at startup is outside.

**OidcProvider** has clients, browser sessions and codes on top of Directory,
with `login`, `consent` and `token` as multi-step requests.  A registration is
abstracted to the set of requests (redirect URI and scope) it allows, a secret or
password to its number.  The `INSERT ... SELECT` that stores a code is two steps:
it locks no row of the context it selects and waits at its foreign keys, so a
tenant change may commit between the two and its `DELETE` not see the code.

The composing modules MCTenant, MCCredentials and MCAdministration put components
side by side that share the clock and write no row of each other; `focus`, chosen
at the start, says which of them runs in a behaviour.  Components that do
interact (store and handlers, directory and everything on it) are composed in the
specifications themselves.

Modelling conventions: a transaction or a single SQL statement is one atomic step
(except where RowLocks and MachineAccess split a transaction at its locks, and
OidcProvider a statement at its foreign keys); an
`await` between two of them is a point where anything may happen; a deleted row
keeps a marker so that ids are used once; time is a bounded counter and lifetimes
are model units.  Operators introduced by a comment "fault:" are deliberate
errors used only to show that a property can fail; no specification uses them.

## 3. Runs

| Run | Shows | Bounds, and why they suffice |
|---|---|---|
| `refresh_chain` | one successor per token, one unspent token per chain, final and truthful revocation, refinement of TokenFamily (which fixes the expiry too) | one user with two sessions of two clients and four tokens: a chain of three rotations, or two next to another session; the clock reaches the expiry |
| `refresh_tenant` (MCTenant) | no usable scoped session without its context, tenant changes revoke nothing else; machine calls are authorized | sessions: two users of different classes, one organization, all roles and both administration paths, one session that either user may open, on a clock that stands still. Machine: two keys (a rotation), one expiry inside the run, two policies, two calls at once, `MaxEvents` = 5 where a call counts twice: a machine, a credential, a call and two writes under it, or two calls |
| `auth_serial` | single-session policy, lock-out, sessions match the password, no session whose token nobody received | one request slot: handlers run to completion, every order of them |
| `auth_concurrent` | handlers only drive the store through its transactions | two slots, cancellation on |
| `two_logins`, `stale_principal`, `old_password` | (violations) three properties of `auth_serial` fail with two slots | smallest instances that show the interleaving |
| `account_proofs` (MCCredentials) | mailed tokens: one usable, none for an old address, verified addresses were proved, resets through proved addresses, undelivered tokens withdrawn | one account, two addresses, two tokens, one slot, expiry |
| | second factor: a code is accepted once, proofs and recovery codes belong to the factor | two handlers at once, two seeds (a re-enrollment), one recovery code, clock 1 (three acceptable steps) |
| | quotas: at most two (production) or three quotas in a window | quotas 3 and 2, windows of two ticks, clock 3: a bucket boundary inside the run; Redis comes and goes |
| | lock: wrong passwords answered up to the limit plus attempts already past the check | limit 2, two attempts at once, lock and counter expire within clock 3, clients that disconnect |
| | upstream login: state matches the trust in force, no account without a way in | two requests at once, two logins, one edit, one local and two just-in-time users, one subject, three profiles |
| | support: disclosure only inside a live grant, nothing issued, disclosed or refused after the live check without its audit row | two requests, one grant that ends within or after the run, one change of organization or staff beside revocation |
| `upstream_match` | (violation) an address becomes verified without proof | two slots |
| `jwt_keys` (MCAdministration) | signing keys: unique kids, the signer verifies and the files match memory, the previous signer verifies | two kids, three pairs (a rotation after a rollback or a failed rotation), one management request at a time, faults and restarts |
| | history: the recorded before-state is one the row had, and the one replaced if the client named it | two editors, two contents, three versions: a change, a change in between, a revert; every expected version up to the bound |
| | bindings and decisions: both tables agree and fit type and class; scope decides which roles count | one human, one service, one role, every order of changes, one decision request |
| | owners answer to owners | two members, so that each may act on the other |
| | one lock order never deadlocks (among the transactions listed) | two organizations, two humans, one machine, two transactions at once |
| | setup happens once, among setup calls | three calls, two connections (a lock left behind is met by its own session and by another), two administrator ids |
| `key_revival` | (violation) an expired key verifies again | one rotation, one restart |
| `oidc_provider` | code redeemed once, never with an old secret, codes and browser sessions end with what they stem from | one account, one tenant client, two concurrent requests, one code, one browser session, two grants |

Deadlock checking is off where the bounded clock and the finite sets of ids let a
behaviour end; the server itself may always be idle.  (`OneOrderNeverDeadlocks`
is about row locks and is an invariant of its own.)

Fairness: `account_proofs` states weak fairness of the running step of each mail
handler (`CredentialSpec`): a handler that is not cut short is polled by Tokio
until it returns.  It is used for `UndeliveredProofIsRevoked`.  Everything else
is safety.

### Findings

- `two_logins`: `enforce_refresh_session_policy` checks and `auth_token` inserts
  in another transaction; under `single_user_session` two logins at once leave
  two sessions.
- `stale_principal`: `ensure_user_principal` writes a flag it read before; a
  disabled user's Principal becomes active again.
- `old_password`: a login verified before a password change inserts its session
  after the change revoked all sessions.
- `upstream_match`: the profile is compared with a row read before; an address
  changed meanwhile becomes verified.
- `key_revival`: the key files hold no expiry, so each restart starts a new
  overlap.

### Exemptions

Some properties carry an exemption that names a race rather than hiding it; each
is a history variable set by the race, in a state space that contains it, and in
each the plain statement would be false of the code.

| Exemption | The race |
|---|---|
| `overtaken` (OidcProvider) | a client or account change committed between a request's read and its insert |
| `kept` (OidcProvider) | a manager, unlike the platform, leaves pending codes when it ends a membership; or the tenant changed while the code's `INSERT` had read its `SELECT` and not committed (`missed`), so that the change's `DELETE` did not see the code |
| `torn` (JwtKeys) | a management request ended before its last step |
| `overtaken` (Mfa) | a handler wrote although the credential changed after it was read: a pending seed is enabled with a code of another, or a proof is stored for a factor reset meanwhile |
| `late` (UpstreamLogin) | the source or the link changed between the last check and the insert of the transaction or session |
| `crashed` (UpstreamLogin) | the process stopped between two statements of the provisioning or the unlink |
| `guarded` (ChangeHistory) | a change whose client names no version, or one later than the row its handler read, may meet a row that changed meanwhile; the recorded before-state is then an older one |
| `raced` (Rbac) | `sync_user_roles_to_principal`, or a change of a role's type, was overtaken by a revocation or an assignment |
| `flapped` (LoginLock) | Redis came or went under an attempt, or outside production, so that counts are in two places |

`OneOrderNeverDeadlocks` is about transactions of one order.  Across orders a
circle is possible (a reset token is issued account first and consumed token
first); PostgreSQL aborts one side and the handler answers with an error.

## 4. Proofs

Nothing is assumed beyond the named `ASSUME`s of the modules; sets of users,
sessions, tokens, slots and so on are arbitrary, also infinite, except for the
transactions of RowLocks and the login attempts of LoginLock, which are finitely
many at a time.

**RefreshSessionProofs.**  The invariant is `TypeOK /\ ChainInv`.  The listed
properties are not inductive by themselves: that a rotation leaves one unspent
token needs that the successor is fresh, belongs to the session, shares its
expiry and has no other predecessor, which is what `ChainInv` collects.  The
store's transactions act on chains in only four ways (`CreateShape`,
`RotateShape`, `DeleteShape`, `RevokeShape`); `StepShapes` reduces `Next` to them
and the chain lemmas argue shape by shape.  `ContextStep` goes action by action,
because each tenant transaction must revoke for its own reason.  From the
invariant follow `ExchangedOnce`, `CurrentUnspent`, `ExpiryFixed`,
`NoFalseReplay`, `ScopedContext`, the action properties `RevocationFinal` and
`RevocationTargeted`, and the refinement of TokenFamily.

**AuthFlowProofs.**  Every handler step is a store step or leaves the store alone
(`HandlersImplementStore`), so the store's theorems hold of concurrent,
cancellable handlers; `FlowScopedContext` and `FlowExchangedOnce` state two.

The four promises of `auth_serial` are proved for a server that runs one handler
at a time (`Serial`: there is one request slot), with any number of users,
organizations, sessions, clients and tokens.  `SerialInv` says of each step of a
handler what it has read and that it is still true: a login past the password
check holds the stored password, one past the policy finds no other session,
one that synchronises the Principal holds the account's present flag.
`SerialPolicy` and `SerialPasswords` hold with cancelled handlers as well;
`SerialLockOut` and `SerialDelivery` need every handler to finish
(`~AllowCancel`).  The hypotheses are not decoration: the runs `two_logins`,
`old_password` and `stale_principal` violate three of the four with two slots.

**AccountProofsProofs.**  `ProofInv` strengthens `OneUsableProof` and
`PendingProofsAreCurrent` with types, with "a pending token refers to an existing
account" and with "live accounts have addresses".  A step either adds no pending
token or adds one after withdrawing its siblings (`NoNewProof`, `NewProof`).  Both
results are for any number of concurrent handlers.  `SerialVerification` and
`SerialReset` are for one handler at a time (`OneAtATime`): `ProvedInv` adds that
the address a handler compared is still the account's, which `upstream_match`
shows to fail with two.

**JwtKeysProofs.**  `KidsDiffer` (also while the server is down) and
`PassiveWasReplaced` (the pair replaced last is the passive one until the next
start) are inductive without types, for any number of concurrent management
requests and any state of the files: the startup check is all that is needed.
`SerialKeysMatchFiles` is about one request at a time (`OneManager`; two rotations
at once do mix their files, which is listed as a hazard).  Its invariant
`ManagerInv` follows the plan of writes: a request that has written k of its files
leaves the files equal to the old keys overlaid with the first k writes, so that
after the last one they are the new keys (`Progress`, `Rest`, `IsPlan`).

**OidcProviderProofs.**  `OidcInv` adds to four properties what a request holds
between two statements: a login the present password, a consent a request its
client may make, unless a change overtook them; a token request the present
secret of its client as long as its code is pending; an `INSERT` past its `SELECT`
the tenant it selected, unless a change missed it (`InsertsHaveTenant`); and that
at most one request has consumed a code and not answered.  All transactions of administrators are
treated at once (`TransactionKeeps`): they only take codes and browser sessions
away (`CodesFade`, `CookiesFade`) and reach every request that relied on what they
change (`AccountsAreCut`, `ClientsAreCut`).  `SecretsAreSafe` is the action
property.

**MachineAccessProofs.**  `MachineInv`: a call has seen every condition that holds
now, so whatever a statement finds is among what it has seen; a call that holds
the locks has a usable key and Principal, because every write to them waits; and
nothing happens to a machine before it is registered.

**CredentialProofs.**  Mfa: `MfaInv` says that a seed being enrolled is in no row
and was never used, and that `last_verified_step` covers every accepted step of the
stored seed; without the first part the second is lost when a pending seed is
saved.  `FactorInv` ties what a handler may still write to the credential it read.
CustomerSupport: `SupportInv` says that a request has seen whatever holds, that
what it has passed stays true because a grant is only ever revoked, that tokens
end with their grants, and that table and audit rows agree; both of its properties
follow.  UpstreamLogin: `UpInv` says that readings of the source under one edit
agree, the cached metadata too, so that the keys of a callback are those of the
trust it compares again, and that a request between creation and mapping owns the
account it created.

RateLimit: `QuotaInv` looks at every window, not only at the present one.  With s
the start of the current bucket, the requests a window after s counts are in the
Redis counter or among the live time stamps, those of a window that reaches back
into the bucket before are at most one quota more, and memory holds at most a
quota of live stamps (none in production).  `KeyTicks` needs only that a bucket
starts at s + Window (`BucketMoves`); the rest is counting entries of a sequence.
LoginLock: `LockInv` compares answers with counts.  An attempt counts its failure
before it is answered, whatever attempts are dropped beside it, so until the lock is
set the answered wrong passwords are at most the failure counter and fewer than the
limit; the attempt that reaches the limit sets the lock before its answer; once
locked, answers given and attempts past the check together stay within the bound,
because nobody else passes it.  The same holds with the counter in memory, where
counting and locking are one step.

**AdministrationProofs.**  `OwnersAnswerToOwners` is inductive with the types of its
rows.  `SetupInv`: the session a call locks on is the only holder of the lock,
hence one call is past the second check, hence what that check saw stays true
until the mark.  `HistoryInv`: nothing a handler read is newer than the row, what it
read is what the row was at that version, and a version is written by one
handler.  `RbacInv`: what an unlocked check or read saw
stays true until the step that uses it, unless a race was recorded.  `DecisionInv`
lists what a request has established at each step.  `LocksInv`: no row is locked
twice, and the rows of a transaction ascend in the order of its family, by table
(`Level`) and then by Principal id, except for rows it already holds
(`ManagerRowsAscend`, `OrganizationOrder`, `AccountOrder`, `MachineOrder`).  In a
circle each wanted row would be above the one wanted before it; among finitely
many transactions one wants a row above which no other wants any, and it does not
wait.

The assumptions used are the `ASSUME`s of the modules: clocks and limits are
numbers, Principal ids are ordered (numbers in RowLocks), a pooled connection is
not a call, and `None` (SQL NULL, or an absent row) is no user, client, row or
kind.  The last is a fact about SQL NULL and about Rust's `Option`.  That
transactions are finitely many is a fact about the connection pool: infinitely
many could each wait for the next without a circle.  That attempts are finitely
many is needed to state the bound, which counts them.

Only model-checked: the liveness property `UndeliveredProofIsRevoked`, out of the
prover's reach.  The four properties of AuthFlow, the two of AccountProofs and the
one of JwtKeys that are proved for one handler at a time are what the code
promises there; with two handlers the runs show how they fail, or the race is
listed as a hazard.

## 5. Plan

The components that carry state and concurrency are modelled, and every safety
property the passing runs check is proved.  Next: AuthFlow's promises for
concurrent handlers up to the races the runs exhibit, as MachineAccess and Rbac
state theirs; a second client in OidcProvider's run; lost lock sessions in Setup;
legacy refresh tokens, and the GitHub login.

## 6. Not modelled, and why

Parsing and validation of configuration, seeding before the server listens, SMTP,
HTML pages, logging, error formatting, the password-encryption tool, examples and
the web client have no state the properties depend on.  Listings and other read-only
routes change nothing; audit rows are modelled where a property needs them
(CustomerSupport).  Legacy refresh tokens (the path of `auth_refresh` for tokens
older than `refresh_sessions`) and blacklist rows are single statements on single
rows, so that a property of them would restate the statement; the two places
where statements combine are listed as hazards.  The GitHub login is a simpler
sibling of UpstreamLogin, without a source row that could change.
Cryptography (bcrypt, RSA, SHA-256, TOTP, PKCE arithmetic) is taken as ideal: a
hash matches only its preimage, a code only its seed and step.  PostgreSQL is
trusted to run a statement, or a transaction between its locks, atomically,
but for the INSERT ... SELECT of an authorization code, whose snapshot and commit
are two steps of OidcProvider.
