--------------------------- MODULE UpstreamLogin ---------------------------
(***************************************************************************)
(* Login through one upstream OpenID source: the browser transaction, the  *)
(* metadata cache, the callback that resolves, links or creates a local    *)
(* user and opens a session, and the source edits and unlinks that run     *)
(* beside it.  A slot runs one request; each database statement is a step. *)
(* The trust settings (config, claim mapping, user class, organization)    *)
(* are one number, changed by every edit of one of them.  Disabled users   *)
(* and the session policy are in AuthFlow.                                 *)
(***************************************************************************)
EXTENDS Common

CONSTANTS
    UpSlots,      \* requests that may run at once
    LocalUser,    \* a user that exists from the start and has a password
    JitUsers,     \* identifiers of users a callback may create
    Subjects,     \* subjects of the identity provider
    Mails,        \* addresses, the local user's among them
    Profiles,     \* what the provider may assert: records of subject, mail and verified
    LocalMail,    \* the local user's address
    MaxEdits,     \* bound on edits of the source
    MaxLogins     \* bound on browser transactions

ASSUME UpstreamAssumption ==
    /\ MaxEdits \in Nat /\ MaxLogins \in Nat
    /\ LocalUser \notin JitUsers /\ LocalMail \in Mails
    /\ None \notin {LocalUser} \cup JitUsers   \* NULL is no user
    /\ Profiles \subseteq [subject : Subjects, mail : Mails, verified : BOOLEAN]

VARIABLES
    source,    \* identity_sources row; edits counts updated_at changes
    cache,     \* oidc_upstream_metadata_cache: {} or the entry's edit and trust
    auths,     \* oidc_upstream_authorizations with consumed_at IS NULL
    begun,     \* how many transactions were begun
    people,    \* people[u]: users row, live, deleted or never created
    mapping,   \* external_user_mappings: mapping[s] is a user or None
    upSessions,\* live refresh sessions with client_id oidc_upstream:<source>
    upJobs,    \* upJobs[j]: the request in slot j
    crashed    \* history: a request stopped halfway

upVars == <<source, cache, auths, begun, people, mapping, upSessions, upJobs, crashed>>

UpUsers == {LocalUser} \cup JitUsers
Source == [trust : 0 .. MaxEdits, edits : 0 .. MaxEdits, active : BOOLEAN, jit : BOOLEAN, link : BOOLEAN]
IdleRequest == [at |-> "idle"]

UpInit ==
    /\ source = [trust |-> 0, edits |-> 0, active |-> TRUE, jit |-> TRUE, link |-> TRUE]
    /\ cache = {} /\ auths = {} /\ begun = 0
    /\ people = [u \in UpUsers |-> IF u = LocalUser THEN [row |-> "live", mail |-> LocalMail] ELSE [row |-> "none"]]
    /\ mapping = [s \in Subjects |-> None]
    /\ upSessions = {}
    /\ upJobs = [j \in UpSlots |-> IdleRequest]
    /\ crashed = FALSE

IsLive(u) == people[u].row = "live"
Owners(mail) == {u \in UpUsers : IsLive(u) /\ people[u].mail = mail}

\* only the local user has a password
HasPassword(u) == u = LocalUser

Put(j, job) == upJobs' = [upJobs EXCEPT ![j] = job]
End(j) == Put(j, IdleRequest)
GoTo(j, at) == Put(j, [upJobs[j] EXCEPT !.at = at])

-----------------------------------------------------------------------------
(* The browser transaction *)

\* begin_oidc_upstream_login up to the INSERT
Begin(j) ==
    /\ upJobs[j].at = "idle" /\ source.active /\ begun < MaxLogins
    /\ begun' = begun + 1
    /\ Put(j, [at |-> "begin", trust |-> source.trust])
    /\ UNCHANGED <<now, source, cache, auths, people, mapping, upSessions, crashed>>

\* create_oidc_upstream_authorization
SaveAuthorization(j) ==
    /\ upJobs[j].at = "begin"
    /\ auths' = auths \cup {[id |-> begun, trust |-> upJobs[j].trust, 
                         late |-> upJobs[j].trust # source.trust \/ ~source.active]}
    /\ End(j)
    /\ UNCHANGED <<now, source, cache, begun, people, mapping, upSessions, crashed>>

\* an authorization reaches its expiry
ExpireAuthorization ==
    /\ \E a \in auths : auths' = auths \ {a}
    /\ UNCHANGED <<now, source, cache, begun, people, mapping, upSessions, upJobs, crashed>>

\* complete_oidc_upstream_login: consume_oidc_upstream_authorization; a callback
\* with an error from the provider stops here
Consume(j) ==
    /\ upJobs[j].at = "idle"
    /\ \E a \in auths :
          /\ auths' = auths \ {a}
          /\ Put(j, [at |-> "source"]) \/ End(j)
    /\ UNCHANGED <<now, source, cache, begun, people, mapping, upSessions, crashed>>

ReadSource(j) ==
    /\ upJobs[j].at = "source"
    /\ IF source.active
       THEN Put(j, [at |-> "exchange", trust |-> source.trust, edits |-> source.edits])
       ELSE End(j)
    /\ UNCHANGED <<now, source, cache, auths, begun, people, mapping, upSessions, crashed>>

-----------------------------------------------------------------------------
(* Metadata, code exchange and verification *)

\* upstream_cache_entry_is_fresh, within the time limit
CacheIsFresh(entry, edits) == entry.edits = edits

\* the entry outlives OIDC_UPSTREAM_METADATA_CACHE_TTL_SECONDS
ExpireCache ==
    /\ cache # {} /\ cache' = {}
    /\ UNCHANGED <<now, source, auths, begun, people, mapping, upSessions, upJobs, crashed>>

\* the trust whose endpoints and keys a request uses: the cached entry's, or its own
UsedTrust(j) ==
    IF \E e \in cache : CacheIsFresh(e, upJobs[j].edits)
    THEN (CHOOSE e \in cache : TRUE).trust ELSE upJobs[j].trust

\* fetch_cached_oidc_discovery, the token request, fetch_cached_oidc_jwks and the
\* checks of the ID token, which end in a profile or in an error
ExchangeCode(j) ==
    /\ upJobs[j].at = "exchange"
    /\ cache' = {[edits |-> upJobs[j].edits, trust |-> UsedTrust(j)]}
    /\ \/ End(j)
       \/ \E p \in Profiles :
             Put(j, [at |-> "recheck", trust |-> upJobs[j].trust, keys |-> UsedTrust(j),
                     subject |-> p.subject, mail |-> p.mail, verified |-> p.verified])
    /\ UNCHANGED <<now, source, auths, begun, people, mapping, upSessions, crashed>>

\* fault: the source is read again and not compared
TrustIsUnchangedAlways(j) == TRUE

\* identity_source_trust_is_unchanged
TrustIsUnchanged(j) == source.active /\ source.trust = upJobs[j].trust

\* the second read of the source, whose policy the rest of the callback uses
Recheck(j) ==
    /\ upJobs[j].at = "recheck"
    /\ IF TrustIsUnchanged(j)
       THEN Put(j, [at |-> "lookup", policy |-> source, trust |-> upJobs[j].trust,
                    keys |-> upJobs[j].keys, subject |-> upJobs[j].subject, mail |-> upJobs[j].mail,
                    verified |-> upJobs[j].verified, user |-> LocalUser])
       ELSE End(j)
    /\ UNCHANGED <<now, source, cache, auths, begun, people, mapping, upSessions, crashed>>

-----------------------------------------------------------------------------
(* resolve_oidc_upstream_user *)

Found(j, u, at) == Put(j, [upJobs[j] EXCEPT !.at = at, !.user = u])

\* get_external_user_mapping: a mapped user must be active, of the allowed class
\* and a live member of the source's organization; the last two may refuse
FindMapping(j) ==
    /\ upJobs[j].at = "lookup"
    /\ LET u == mapping[upJobs[j].subject]
       IN  \/ u = None /\ GoTo(j, "email")
           \/ u # None /\ IsLive(u) /\ Found(j, u, "session")
           \/ u # None /\ End(j)
    /\ UNCHANGED <<now, source, cache, auths, begun, people, mapping, upSessions, crashed>>

\* get_user_by_email: link an eligible account or provision a new one
FindEmail(j) ==
    LET owners == Owners(upJobs[j].mail)
    IN  /\ upJobs[j].at = "email"
        /\ \/ \E u \in owners :
                 upJobs[j].policy.link /\ upJobs[j].verified /\ Found(j, u, "link")
           \/ owners # {} /\ End(j)
           \/ owners = {} /\ upJobs[j].policy.jit /\ GoTo(j, "create")
           \/ owners = {} /\ ~upJobs[j].policy.jit /\ End(j)
        /\ UNCHANGED <<now, source, cache, auths, begun, people, mapping, upSessions, crashed>>

\* a fresh identifier; which one does not matter
NewUser == CHOOSE u \in JitUsers : people[u].row = "none"

\* create_user_with_email_verified_as_class: the address is unique
CreateJit(j) ==
    /\ upJobs[j].at = "create"
    /\ \/ Owners(upJobs[j].mail) # {} /\ End(j) /\ UNCHANGED people
       \/ /\ Owners(upJobs[j].mail) = {}
          /\ \E u \in JitUsers : people[u].row = "none"
          /\ people' = [people EXCEPT ![NewUser] = [row |-> "live", mail |-> upJobs[j].mail]]
          /\ Found(j, NewUser, "join")
    /\ UNCHANGED <<now, source, cache, auths, begun, mapping, upSessions, crashed>>

\* ensure_identity_source_membership, which may fail
EnsureMember(j) ==
    /\ upJobs[j].at = "join"
    /\ GoTo(j, "bind") \/ GoTo(j, "cleanup")
    /\ UNCHANGED <<now, source, cache, auths, begun, people, mapping, upSessions, crashed>>

\* create_external_user_mapping: INSERT, unique on the subject
Bind(s, u) == IF mapping[s] = None /\ IsLive(u) THEN u ELSE mapping[s]

\* fault: the provisioned user stays behind when its subject is taken
AfterConflictStop(j) == "idle"

\* a refused binding ends a link, and removes a user created for it
AfterConflict(j) == IF upJobs[j].at = "bind" THEN "cleanup" ELSE "idle"

\* create_oidc_user_mapping: a subject bound to the same user is no conflict
LinkUser(j) ==
    LET s == upJobs[j].subject
        u == upJobs[j].user
    IN  /\ upJobs[j].at \in {"link", "bind"}
        /\ mapping' = [mapping EXCEPT ![s] = Bind(s, u)]
        /\ CASE mapping'[s] = u -> GoTo(j, "session")
             [] mapping'[s] # u /\ AfterConflict(j) = "cleanup" -> GoTo(j, "cleanup")
             [] OTHER -> End(j)
        /\ UNCHANGED <<now, source, cache, auths, begun, people, upSessions, crashed>>

\* delete_user, with the rows that hang on it
Delete(u) ==
    /\ people' = [people EXCEPT ![u] = IF IsLive(u) THEN [row |-> "deleted"] ELSE @]
    /\ mapping' = [s \in Subjects |-> IF mapping[s] = u THEN None ELSE mapping[s]]
    /\ upSessions' = {x \in upSessions : x.user # u}

Cleanup(j) ==
    /\ upJobs[j].at = "cleanup"
    /\ Delete(upJobs[j].user)
    /\ End(j)
    /\ UNCHANGED <<now, source, cache, auths, begun, crashed>>

\* identity_source_login_organization and issue_external_user_session; the session
\* policy or a lost membership may refuse
OpenSession(j) ==
    LET job == upJobs[j]
        late == source.trust # job.policy.trust \/ ~source.active \/ mapping[job.subject] # job.user
    IN  /\ job.at = "session"
        /\ \/ UNCHANGED upSessions
           \/ /\ IsLive(job.user)
              /\ upSessions' = upSessions \cup
                    {[user |-> job.user, subject |-> job.subject, trust |-> job.trust,
                      keys |-> job.keys, late |-> late]}
        /\ End(j)
        /\ UNCHANGED <<now, source, cache, auths, begun, people, mapping, crashed>>

-----------------------------------------------------------------------------
(* Administration *)

\* source_disabled or source_reconfigured
EndsTrust(new) == source.active /\ (~new.active \/ new.trust # source.trust)

\* update_identity_source
UpdateSource ==
    /\ \E new \in Source :
          /\ new.edits = source.edits + 1
          /\ new.trust \in {source.trust, source.edits + 1}
          /\ source' = new
          /\ upSessions' = IF EndsTrust(new) THEN {} ELSE upSessions
          /\ auths' = IF EndsTrust(new) THEN {} ELSE auths
    /\ UNCHANGED <<now, cache, begun, people, mapping, upJobs, crashed>>

\* unlink_external_user_mapping: never the last way to log in
Unlink(j) ==
    /\ upJobs[j].at = "idle"
    /\ \E u \in UpUsers :
          /\ HasPassword(u) /\ \E s \in Subjects : mapping[s] = u
          /\ mapping' = [s \in Subjects |-> IF mapping[s] = u THEN None ELSE mapping[s]]
          /\ Put(j, [at |-> "revoke", user |-> u])
    /\ UNCHANGED <<now, source, cache, auths, begun, people, upSessions, crashed>>

\* revoke_principal_client_refresh_sessions
RevokeUnlinked(j) ==
    /\ upJobs[j].at = "revoke"
    /\ upSessions' = {x \in upSessions : x.user # upJobs[j].user}
    /\ End(j)
    /\ UNCHANGED <<now, source, cache, auths, begun, people, mapping, crashed>>

DeleteUser ==
    /\ \E u \in UpUsers : IsLive(u) /\ Delete(u)
    /\ UNCHANGED <<now, source, cache, auths, begun, upJobs, crashed>>

\* the process stops, or the statement a request waits for fails
CrashRequest(j) ==
    /\ upJobs[j].at \in {"join", "bind", "cleanup", "revoke"}
    /\ End(j)
    /\ crashed' = TRUE
    /\ UNCHANGED <<now, source, cache, auths, begun, people, mapping, upSessions>>

UpNext ==
    \/ \E j \in UpSlots :
          \/ Begin(j) \/ SaveAuthorization(j) \/ Consume(j) \/ ReadSource(j) \/ ExchangeCode(j) \/ Recheck(j)
          \/ FindMapping(j) \/ FindEmail(j) \/ CreateJit(j) \/ EnsureMember(j) \/ LinkUser(j) \/ Cleanup(j)
          \/ OpenSession(j) \/ Unlink(j) \/ RevokeUnlinked(j) \/ CrashRequest(j)
    \/ ExpireAuthorization \/ ExpireCache \/ UpdateSource \/ DeleteUser

UpSpec == UpInit /\ [][UpNext]_upVars

-----------------------------------------------------------------------------
(* Correctness *)

\* "Reject a callback when an administrator changed its source trust policy
\* mid-flight" and "atomically invalidate OIDC state when its trust boundary
\* changes": an unfinished transaction was begun, and a live session was verified
\* and granted, under the settings now in force, and the session's subject is
\* still linked, unless settings or link changed in the moment between the last
\* check and the insert.
SourceStateMatchesTrust ==
    /\ \A a \in auths : ~a.late => source.active /\ a.trust = source.trust
    /\ \A x \in upSessions : ~x.late =>
          /\ source.active /\ x.trust = source.trust /\ x.keys = source.trust
          /\ \/ mapping[x.subject] = x.user \/ crashed
             \/ \E j \in UpSlots : upJobs[j].at = "revoke" /\ upJobs[j].user = x.user

\* A user without a password keeps a linked subject: provisioning that fails
\* halfway removes what it created, and no unlink takes the last way in.
NoStrandedUser ==
    \A u \in JitUsers : IsLive(u) /\ ~crashed =>
        \/ \E s \in Subjects : mapping[s] = u
        \/ \E j \in UpSlots : upJobs[j].at \in {"join", "bind", "cleanup"} /\ upJobs[j].user = u
=============================================================================
