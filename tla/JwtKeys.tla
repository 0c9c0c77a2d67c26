------------------------------- MODULE JwtKeys -------------------------------
(***************************************************************************)
(* The JWT signing keys: one active pair in memory, at most one passive    *)
(* pair that only verifies until its overlap ends, and six files from      *)
(* which a restarted server loads both.                                    *)
(*                                                                         *)
(* A management request (rotate, roll back, retire) reads the keys in      *)
(* memory, changes the files one by one and the memory in a single step    *)
(* under its locks: rotate and rollback after the files, retire before.    *)
(* Nothing serialises two requests; a slot runs one.  A file is replaced   *)
(* by removing it and renaming a sibling, so an I/O error or a crash may   *)
(* leave it missing.  The deployment is a production one (keys are not     *)
(* generated at startup) that keeps its keys in the files.                 *)
(***************************************************************************)
EXTENDS Common, Sequences

CONSTANTS
    KeyIds,          \* kids a rotation may ask for
    DefaultId,       \* DEFAULT_JWT_KEY_ID, used while the key-id file is missing
    MaxKeys,         \* bound on the RSA pairs that are ever generated
    Overlaps,        \* overlap_seconds of requests, in model time units
    DefaultOverlap,  \* config.jwt_key_overlap_seconds
    Slots,           \* management requests that may run at once
    AllowFaults      \* whether files may fail to be written and servers crash

ASSUME KeyAssumption ==
    /\ DefaultId \in KeyIds
    /\ MaxKeys \in Nat \ {0}
    /\ Overlaps \subseteq Nat \ {0}
    /\ DefaultOverlap \in Nat \ {0}
    /\ AllowFaults \in BOOLEAN
    /\ None \notin Nat \cup KeyIds

VARIABLES
    up,         \* whether the server runs
    active,     \* Keys.active
    passive,    \* Keys.passive, a vector of at most one pair
    files,      \* files[f]: contents of a key file
    jobs,       \* jobs[j]: the management request in slot j
    generated,  \* how many RSA pairs have been generated; pairs are numbered
    replaced,   \* history: the pair last taken out of service (or {}), and its window
    torn        \* history: a management request ended before its last step

keyVars == <<up, active, passive, files, jobs, generated, replaced, torn>>

Pairs == 1 .. MaxKeys

\* A private and a public PEM; they belong together when they are equal.
KeyPair == [id : KeyIds, priv : Pairs, pub : Pairs]
PassivePair == [id : KeyIds, priv : Pairs \cup {None}, pub : Pairs, expires : Nat]

ActiveFiles  == {"private", "public", "id"}
PassiveFiles == {"passivePrivate", "passivePublic", "passiveId"}
Files == ActiveFiles \cup PassiveFiles

\* todo: the files still to be written or (None) removed
NoJob == [op |-> "none", todo |-> <<>>, id |-> None, pair |-> None, overlap |-> 0]

KeyTypeOK ==
    /\ now \in Nat
    /\ up \in BOOLEAN
    /\ active \in KeyPair
    /\ passive \subseteq PassivePair
    /\ files \in [Files -> Pairs \cup KeyIds \cup {None}]
    /\ \A j \in Slots : jobs[j].op \in {"none", "rotate", "rollback", "retire"}
    /\ generated \in Pairs
    /\ torn \in BOOLEAN

\* A first start: the configured (or generated) pair, no key-id file.
KeyInit ==
    /\ now = 0
    /\ up = TRUE
    /\ active = [id |-> DefaultId, priv |-> 1, pub |-> 1]
    /\ passive = {}
    /\ files = [f \in Files |-> IF f \in {"private", "public"} THEN 1 ELSE None]
    /\ jobs = [j \in Slots |-> NoJob]
    /\ generated = 1
    /\ replaced = {}
    /\ torn = FALSE

-----------------------------------------------------------------------------
(* Verification *)

LivePassive(k) == {q \in passive : q.id = k /\ q.expires > now}
Restorable(k) == {q \in LivePassive(k) : q.priv # None}

\* decode_with_key: would a token with this kid, signed by this pair, verify?
Accepts(k, p) ==
    /\ up
    /\ IF k = active.id THEN active.pub = p ELSE \E q \in LivePassive(k) : q.pub = p

-----------------------------------------------------------------------------
(* Keys.rotate, Keys.rollback, Keys.retire_passive: one step under the locks *)

Outgoing(overlap) == [id |-> active.id, priv |-> active.priv, pub |-> active.pub,
                      expires |-> now + overlap]

Rotate(k, p, overlap) ==
    /\ k # active.id
    /\ active' = [id |-> k, priv |-> p, pub |-> p]
    /\ passive' = {Outgoing(overlap)}

\* fault: the vector is cleared after the outgoing pair was pushed
RollbackClearingLast(k) ==
    /\ \E q \in Restorable(k) : active' = [id |-> k, priv |-> q.priv, pub |-> q.pub]
    /\ passive' = {}

Rollback(k) ==
    /\ \E q \in Restorable(k) : active' = [id |-> k, priv |-> q.priv, pub |-> q.pub]
    /\ passive' = {Outgoing(DefaultOverlap)}

\* the pair that stops signing
Replace(overlap) ==
    replaced' = {[id |-> active.id, key |-> active.pub, until |-> now + overlap, boot |-> TRUE]}

-----------------------------------------------------------------------------
(* auth_rotate_jwt_key, auth_rollback_jwt_key, auth_retire_jwt_key *)

Free(j) == up /\ jobs[j].op = "none"

\* fault: the passive public file is not written
WritesForgettingPublic(priv, pub, k) ==
    << <<"passivePrivate", active.priv>>, <<"passiveId", active.id>>,
       <<"private", priv>>, <<"public", pub>>, <<"id", k>> >>

\* what both handlers write: the pair in memory to the passive files, then the
\* pair to be activated to the active ones
Writes(priv, pub, k) ==
    << <<"passivePrivate", active.priv>>, <<"passivePublic", active.pub>>,
       <<"passiveId", active.id>>, <<"private", priv>>, <<"public", pub>>, <<"id", k>> >>

StartRotate(j) ==
    /\ Free(j)
    /\ generated < MaxKeys
    /\ generated' = generated + 1
    /\ \E k \in KeyIds, overlap \in Overlaps :
          jobs' = [jobs EXCEPT ![j] =
             [op |-> "rotate", todo |-> Writes(generated', generated', k),
              id |-> k, pair |-> generated', overlap |-> overlap]]
    /\ UNCHANGED <<now, up, active, passive, files, replaced, torn>>

\* passive_key_material
StartRollback(j) ==
    /\ Free(j)
    /\ \E k \in KeyIds : \E q \in Restorable(k) :
          jobs' = [jobs EXCEPT ![j] =
             [op |-> "rollback", todo |-> Writes(q.priv, q.pub, k),
              id |-> k, pair |-> None, overlap |-> 0]]
    /\ UNCHANGED <<now, up, active, passive, files, generated, replaced, torn>>

\* retire_passive, live or not, before the files
StartRetire(j) ==
    /\ Free(j)
    /\ \E k \in {q.id : q \in passive} :
          /\ passive' = {q \in passive : q.id # k}
          /\ replaced' = {q \in replaced : q.id # k}
    /\ jobs' = [jobs EXCEPT ![j] =
          [NoJob EXCEPT !.op = "retire", !.todo =
              << <<"passivePrivate", None>>, <<"passivePublic", None>>, <<"passiveId", None>> >>]]
    /\ UNCHANGED <<now, up, active, files, generated, torn>>

\* persist_rotation_file, remove_rotation_file
WriteFile(j) ==
    /\ jobs[j].todo # <<>>
    /\ LET w == Head(jobs[j].todo) IN files' = [files EXCEPT ![w[1]] = w[2]]
    /\ jobs' = [jobs EXCEPT ![j].todo = Tail(@)]
    /\ UNCHANGED <<now, up, active, passive, generated, replaced, torn>>

\* the memory follows the files
Activate(j) ==
    /\ jobs[j].todo = <<>>
    /\ \/ /\ jobs[j].op = "rotate"
          /\ Rotate(jobs[j].id, jobs[j].pair, jobs[j].overlap)
          /\ Replace(jobs[j].overlap)
       \/ /\ jobs[j].op = "rollback"
          /\ Rollback(jobs[j].id)
          /\ Replace(DefaultOverlap)
    /\ jobs' = [jobs EXCEPT ![j] = NoJob]
    /\ UNCHANGED <<now, up, files, generated, torn>>

\* the kid is the active one, or the pair to return to is no longer live
ActivateFails(j) ==
    /\ jobs[j].todo = <<>>
    /\ \/ jobs[j].op = "rotate" /\ jobs[j].id = active.id
       \/ jobs[j].op = "rollback" /\ Restorable(jobs[j].id) = {}
    /\ jobs' = [jobs EXCEPT ![j] = NoJob]
    /\ torn' = TRUE
    /\ UNCHANGED <<now, up, active, passive, files, generated, replaced>>

FinishRetire(j) ==
    /\ jobs[j].todo = <<>> /\ jobs[j].op = "retire"
    /\ jobs' = [jobs EXCEPT ![j] = NoJob]
    /\ UNCHANGED <<now, up, active, passive, files, generated, replaced, torn>>

\* an I/O error: the target may have been removed already
WriteFails(j) ==
    /\ AllowFaults
    /\ jobs[j].todo # <<>>
    /\ \E lost \in BOOLEAN :
          files' = IF lost THEN [files EXCEPT ![Head(jobs[j].todo)[1]] = None] ELSE files
    /\ jobs' = [jobs EXCEPT ![j] = NoJob]
    /\ torn' = TRUE
    /\ UNCHANGED <<now, up, active, passive, generated, replaced>>

-----------------------------------------------------------------------------
(* Stopping and starting the server *)

Stop ==
    /\ up
    /\ \A j \in Slots : jobs[j].op = "none"
    /\ up' = FALSE
    /\ UNCHANGED <<now, active, passive, files, jobs, generated, replaced, torn>>

Crash ==
    /\ AllowFaults /\ up
    /\ \E j \in Slots : jobs[j].op # "none"
    /\ up' = FALSE
    /\ \E lost \in BOOLEAN :
          files' = [f \in Files |->
             IF lost /\ \E j \in Slots : jobs[j].todo # <<>> /\ Head(jobs[j].todo)[1] = f
             THEN None ELSE files[f]]
    /\ jobs' = [j \in Slots |-> NoJob]
    /\ torn' = TRUE
    /\ UNCHANGED <<now, active, passive, generated, replaced>>

\* read_key_id
LoadedId == IF files["id"] = None THEN DefaultId ELSE files["id"]

\* fault: validate_common does not compare the kids
ConfigAcceptsSameId ==
    /\ files["private"] # None /\ files["public"] # None
    /\ files["passiveId"] = None <=> files["passivePublic"] = None
    /\ files["passivePrivate"] # None => files["passiveId"] # None

\* load_or_generate_jwt_keys panics on half a pair; validate_common refuses half
\* a passive key, or one with the kid of the active key
ConfigIsValid ==
    /\ files["private"] # None /\ files["public"] # None
    /\ files["passiveId"] = None <=> files["passivePublic"] = None
    /\ files["passivePrivate"] # None => files["passiveId"] # None
    /\ files["passiveId"] # LoadedId

\* from_config: the passive pair starts a new overlap
Boot ==
    /\ ~up
    /\ ConfigIsValid
    /\ up' = TRUE
    /\ active' = [id |-> LoadedId, priv |-> files["private"], pub |-> files["public"]]
    /\ passive' = IF files["passiveId"] = None THEN {}
                  ELSE {[id |-> files["passiveId"], priv |-> files["passivePrivate"],
                         pub |-> files["passivePublic"], expires |-> now + DefaultOverlap]}
    /\ replaced' = {[id |-> q.id, key |-> q.key, until |-> q.until, boot |-> FALSE] : q \in replaced}
    /\ UNCHANGED <<now, files, jobs, generated, torn>>

KeyTick == Advance /\ UNCHANGED keyVars

-----------------------------------------------------------------------------
KeyNext ==
    \/ \E j \in Slots :
          \/ StartRotate(j) \/ StartRollback(j) \/ StartRetire(j)
          \/ WriteFile(j) \/ WriteFails(j)
          \/ Activate(j) \/ ActivateFails(j) \/ FinishRetire(j)
    \/ Stop \/ Crash \/ Boot \/ KeyTick

KeySpec == KeyInit /\ [][KeyNext]_<<now, keyVars>>

-----------------------------------------------------------------------------
(* Correctness *)

\* The JWKS never lists two keys under one kid, however rotations, failed
\* writes, crashes and restarts follow each other: the startup check covers the
\* file combinations that a broken rotation leaves behind.
KidsAreUnique == up => \A q \in passive : q.id # active.id

\* No rotation, rollback or restart tears the keys apart: unless a management
\* request was cut short, a token signed now verifies now, and between requests
\* the files hold exactly the keys in memory, so that a restart resumes with them.
FilesMatchMemory ==
    up /\ ~torn =>
        /\ Accepts(active.id, active.priv)
        /\ (\A j \in Slots : jobs[j].op = "none") =>
              /\ active = [id |-> LoadedId, priv |-> files["private"], pub |-> files["public"]]
              /\ passive = {} => \A f \in PassiveFiles : files[f] = None
              /\ \A q \in passive :
                    <<q.id, q.priv, q.pub>> =
                       <<files["passiveId"], files["passivePrivate"], files["passivePublic"]>>

\* "Existing tokens signed by the previous id remain valid until the overlap
\* expires or the key is retired", as long as the server stays up.
PreviousSignerVerifies ==
    \A q \in replaced : up /\ q.boot /\ now < q.until => Accepts(q.id, q.key)

\* "keeps the previous key as a passive verification key for a bounded overlap
\* window": once its window is over, a pair that was replaced verifies nothing.
PassiveKeyExpires ==
    \A q \in replaced : now >= q.until => ~Accepts(q.id, q.key)
=============================================================================
