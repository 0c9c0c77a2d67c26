-------------------------------- MODULE Setup --------------------------------
(***************************************************************************)
(* The setup wizard: POST /setup/initialize writes the administrator's     *)
(* client and marks the installation as set up, once.                      *)
(*                                                                         *)
(* A session-scoped advisory lock on one pooled connection keeps two calls *)
(* apart; the statements in between use other connections of the pool.     *)
(* PostgreSQL counts the acquisitions of a session, and a call that is     *)
(* dropped gives its connection back to the pool with the lock still held. *)
(* A connection that a call holds is taken to outlive the call: were its   *)
(* session to end, the lock would be free while the call goes on.          *)
(***************************************************************************)
EXTENDS Common, FiniteSets

CONSTANTS
    SetupCalls,    \* calls of setup_initialize
    Connections,   \* pooled connections that calls may lock on
    AdminIds       \* values of admin_client_id

VARIABLES
    calls,       \* calls[r]: where call r is
    completed,   \* system_settings, key setup.completed
    admin,       \* admin[i]: the call whose secret client i has
    held,        \* held[c]: how often the session of c holds the lock
    marked       \* history: the calls that wrote setup.completed

setupVars == <<calls, completed, admin, held, marked>>

NewCall == [pc |-> "start", id |-> None, conn |-> None, ok |-> FALSE]

SetupInit ==
    /\ calls = [r \in SetupCalls |-> NewCall]
    /\ completed = FALSE
    /\ admin = [i \in AdminIds |-> None]
    /\ held = [c \in Connections |-> 0]
    /\ marked = {}

Reached(r, pc) == calls[r].pc = pc
Proceed(r, pc) == calls' = [calls EXCEPT ![r].pc = pc]
Finish(r, ok) == calls' = [calls EXCEPT ![r].pc = "release", ![r].ok = ok]

Unused == Connections \ {calls[r].conn : r \in SetupCalls}

\* The first check, in which an unreadable setting counts as not completed,
\* then the request's fields, the pool, the migrations and the keys.
SetupInitialize(r) ==
    /\ Reached(r, "start")
    /\ \E readable, ready \in BOOLEAN, i \in AdminIds :
          calls' = [calls EXCEPT ![r].id = i,
             ![r].pc = IF ready /\ ~(readable /\ completed) THEN "lock" ELSE "refused"]
    /\ UNCHANGED <<completed, admin, held, marked>>

\* try_acquire_setup_initialization_lock; a session may lock again
TryAcquireLock(r) ==
    /\ Reached(r, "lock")
    /\ \E c \in Unused :
          IF \A d \in Connections \ {c} : held[d] = 0
          THEN /\ held' = [held EXCEPT ![c] = @ + 1]
               /\ calls' = [calls EXCEPT ![r].pc = "recheck", ![r].conn = c]
          ELSE Proceed(r, "refused") /\ UNCHANGED held
    /\ UNCHANGED <<completed, admin, marked>>

\* fault: the answer of the first check is trusted
RecheckNothing(r) ==
    /\ Reached(r, "recheck")
    /\ Proceed(r, "seed")
    /\ UNCHANGED <<completed, admin, held, marked>>

\* the check under the lock, in which an unreadable setting is an error
Recheck(r) ==
    /\ Reached(r, "recheck")
    /\ \E readable \in BOOLEAN :
          IF readable /\ ~completed THEN Proceed(r, "seed") ELSE Finish(r, FALSE)
    /\ UNCHANGED <<completed, admin, held, marked>>

\* seed_default_clients_with_admin: an error may come before or after the
\* administrator's row
SeedAdmin(r) ==
    /\ Reached(r, "seed")
    /\ \/ Finish(r, FALSE) /\ UNCHANGED admin
       \/ /\ admin' = [admin EXCEPT ![calls[r].id] = r]
          /\ Proceed(r, "mark") \/ Finish(r, FALSE)
    /\ UNCHANGED <<completed, held, marked>>

\* mark_setup_completed: setup.completed, then setup.completed_at
MarkSetupCompleted(r) ==
    /\ Reached(r, "mark")
    /\ \/ Finish(r, FALSE) /\ UNCHANGED <<completed, marked>>
       \/ /\ completed' = TRUE
          /\ marked' = marked \cup {r}
          /\ \E ok \in BOOLEAN : Finish(r, ok)
    /\ UNCHANGED <<admin, held>>

\* release; an error may leave the lock held or have ended the session
ReleaseLock(r) ==
    /\ Reached(r, "release")
    /\ \E n \in {held[calls[r].conn] - 1, held[calls[r].conn], 0}, error \in BOOLEAN :
          /\ n # held[calls[r].conn] - 1 => error
          /\ held' = [held EXCEPT ![calls[r].conn] = n]
          /\ calls' = [calls EXCEPT ![r].conn = None,
                ![r].pc = IF calls[r].ok /\ ~error THEN "completed" ELSE "refused"]
    /\ UNCHANGED <<completed, admin, marked>>

\* the client disconnects: the call ends at its await
DropCall(r) ==
    /\ calls[r].pc \notin {"start", "completed", "refused"}
    /\ calls' = [calls EXCEPT ![r].pc = "refused", ![r].conn = None]
    /\ UNCHANGED <<completed, admin, held, marked>>

\* the pool, or a server that stops, closes a connection
CloseConnection(c) ==
    /\ c \in Unused
    /\ held[c] > 0
    /\ held' = [held EXCEPT ![c] = 0]
    /\ UNCHANGED <<calls, completed, admin, marked>>

SetupNext ==
    \/ \E r \in SetupCalls :
          \/ SetupInitialize(r) \/ TryAcquireLock(r) \/ Recheck(r)
          \/ SeedAdmin(r) \/ MarkSetupCompleted(r) \/ ReleaseLock(r)
          \/ DropCall(r)
    \/ \E c \in Connections : CloseConnection(c)

SetupSpec == SetupInit /\ [][SetupNext]_setupVars

-----------------------------------------------------------------------------
\* An installation is set up once, with the secret of the call that did it,
\* whatever other calls passed the first check, failed half way or left the
\* lock behind: no call of setup_initialize writes an administrator after that.
\* (What seed_default_clients writes at a start is outside this module.)
SetupHappensOnce ==
    /\ Cardinality(marked) <= 1
    /\ \A r \in marked : admin[calls[r].id] = r
    /\ \A r \in SetupCalls : Reached(r, "completed") => r \in marked
=============================================================================
