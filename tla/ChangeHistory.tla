---------------------------- MODULE ChangeHistory ----------------------------
(***************************************************************************)
(* One role, permission or resource with its version and its recorded      *)
(* changes.  The update and revert handlers read the row, change it where  *)
(* the version still matches, and record the change in a third statement;  *)
(* several may run at once, and any of the statements may fail.            *)
(***************************************************************************)
EXTENDS Naturals

CONSTANTS
    Editors,      \* update and revert handlers that may run at once
    Contents,     \* what the mutable fields may hold; a resource's parent is not one
    MaxVersion    \* bound on the changes

ASSUME HistoryAssumption == MaxVersion \in Nat \ {0} /\ Contents # {}

VARIABLES
    kind,       \* "role", "permission" or "resource"
    row,        \* the stored row, {} once deleted
    history,    \* role_change_history, permission_change_history, resource_change_history
    edits,      \* edits[e]: the handler e, {} when there is none
    past        \* past[v]: history, what the row held at version v

historyVars == <<kind, row, history, edits, past>>

Row == [version : 1 .. MaxVersion, content : Contents]

\* create_role, create_permission, create_resource
HistoryInit ==
    /\ kind \in {"role", "permission", "resource"}
    /\ \E c \in Contents :
          /\ row = {[version |-> 1, content |-> c]}
          /\ past = [v \in 1 .. MaxVersion |-> c]
    /\ history = {}
    /\ edits = [e \in Editors |-> {}]

\* the row gets new content and the next version
Store(c) ==
    \E r \in row :
        /\ r.version < MaxVersion
        /\ row' = {[version |-> r.version + 1, content |-> c]}
        /\ past' = [past EXCEPT ![r.version + 1] = c]

\* the handler e goes on
Continue(e, h) == edits' = [edits EXCEPT ![e] = h] /\ UNCHANGED <<kind, history>>

-----------------------------------------------------------------------------
(* The handlers.  `before` is the row as read for the record, `after` the  *)
(* version written, `undo` the version of the recorded change to revert.   *)

Handling(step, before, after, expected, content, undo) ==
    {[step |-> step, before |-> before, after |-> after, expected |-> expected, content |-> content, undo |-> undo]}

\* an update that names the version it expects, 0 for none.  Any version may be
\* named, one the row does not have yet too; one past MaxVersion never matches.
Update(e, needsVersion) ==
    /\ edits[e] = {}
    /\ \E r \in row, c \in Contents, expected \in 0 .. MaxVersion :
          /\ needsVersion => expected # 0
          /\ Continue(e, Handling("write", r, 0, expected, c, 0))
    /\ UNCHANGED <<row, past>>

UpdateRoleHandler(e) == kind = "role" /\ Update(e, FALSE)
UpdatePermissionHandler(e) == kind = "permission" /\ Update(e, FALSE)
UpdateResourceHandler(e) == kind = "resource" /\ Update(e, TRUE)

\* a revert reads the row, then the recorded change
Revert(e) ==
    /\ edits[e] = {}
    /\ \E r \in row, expected \in 1 .. MaxVersion : Continue(e, Handling("target", r, 0, expected, r.content, 0))
    /\ UNCHANGED <<row, past>>

RevertRoleHandler(e) == kind = "role" /\ Revert(e)
RevertPermissionHandler(e) == kind = "permission" /\ Revert(e)
RevertResourceHandler(e) == kind = "resource" /\ Revert(e)

\* its before_state is what the revert stores
GetChange(e) ==
    /\ \E h \in edits[e] : \E change \in history :
          /\ h.step = "target"
          /\ Continue(e, Handling("write", h.before, 0, h.expected, change.before.content, change.version))
    /\ UNCHANGED <<row, past>>

GetRoleChange(e) == kind = "role" /\ GetChange(e)
GetPermissionChange(e) == kind = "permission" /\ GetChange(e)
GetResourceChange(e) == kind = "resource" /\ GetChange(e)

-----------------------------------------------------------------------------
(* Their statements *)

\* fault: the version is not compared
VersionMatchesAlways(h, r) == TRUE

\* WHERE id = $1 AND ($7 IS NULL OR version = $7)
VersionMatches(h, r) == h.expected \in {0, r.version}

\* the UPDATE of an update, or of a revert
Write(e, reverts) ==
    \E h \in edits[e] : \E r \in row :
        /\ h.step = "write" /\ (h.undo # 0) = reverts
        /\ VersionMatches(h, r)
        /\ Store(h.content)
        /\ Continue(e, Handling("record", h.before, r.version + 1, h.expected, h.content, h.undo))

UpdateRole(e) == kind = "role" /\ Write(e, FALSE)
UpdatePermission(e) == kind = "permission" /\ Write(e, FALSE)
UpdateResource(e) == kind = "resource" /\ Write(e, FALSE)

RestoreRole(e) == kind = "role" /\ Write(e, TRUE)
RestorePermission(e) == kind = "permission" /\ Write(e, TRUE)
RestoreResource(e) == kind = "resource" /\ Write(e, TRUE)

\* the INSERT into the history.  guarded: the client named the version that the
\* handler read, which the handler itself never compares.
RecordChange(e) ==
    /\ \E h \in edits[e] :
          /\ h.step = "record"
          /\ history' = history \cup {[version |-> h.after, before |-> h.before, guarded |-> h.expected = h.before.version, undo |-> h.undo]}
    /\ edits' = [edits EXCEPT ![e] = {}]
    /\ UNCHANGED <<kind, row, past>>

RecordRoleChange(e) == kind = "role" /\ RecordChange(e)
RecordPermissionChange(e) == kind = "permission" /\ RecordChange(e)
RecordResourceChange(e) == kind = "resource" /\ RecordChange(e)

\* not found, a version conflict, an incompatible type, a failed statement, a crash
Abandon(e) ==
    /\ edits[e] # {}
    /\ Continue(e, {})
    /\ UNCHANGED <<row, past>>

-----------------------------------------------------------------------------
(* Changes that leave no record *)

\* create_resource_in_organization again, for the same code
CreateResourceAgain ==
    /\ kind = "resource"
    /\ \E c \in Contents : Store(c)
    /\ UNCHANGED <<kind, history, edits>>

DeleteRow ==
    /\ row # {} /\ row' = {}
    /\ UNCHANGED <<kind, history, edits, past>>

DeleteRoleRow == kind = "role" /\ DeleteRow
DeletePermissionRow == kind = "permission" /\ DeleteRow

HistoryNext ==
    \/ \E e \in Editors :
          \/ UpdateRoleHandler(e) \/ UpdatePermissionHandler(e) \/ UpdateResourceHandler(e)
          \/ RevertRoleHandler(e) \/ RevertPermissionHandler(e) \/ RevertResourceHandler(e)
          \/ GetRoleChange(e) \/ GetPermissionChange(e) \/ GetResourceChange(e)
          \/ UpdateRole(e) \/ UpdatePermission(e) \/ UpdateResource(e)
          \/ RestoreRole(e) \/ RestorePermission(e) \/ RestoreResource(e)
          \/ RecordRoleChange(e) \/ RecordPermissionChange(e) \/ RecordResourceChange(e)
          \/ Abandon(e)
    \/ CreateResourceAgain \/ DeleteRoleRow \/ DeletePermissionRow

HistorySpec == HistoryInit /\ [][HistoryNext]_historyVars

-----------------------------------------------------------------------------
(* Correctness *)

\* "Loads one recorded role change whose before_state is the exact target for a
\* revert": however updates, reverts and re-creations interleave, a recorded
\* before state is what the row held at an earlier version, and undoing the change
\* restores what it held then.  When the client named the version that the handler
\* read, that is the version before the change; when it named none, or one that
\* another handler wrote after the read, versions in between may be missing.
HistoryIsExact ==
    \A change \in history :
        /\ change.before.version < change.version
        /\ change.before.content = past[change.before.version]
        /\ change.guarded => change.before.version = change.version - 1
        /\ \A undone \in history :
              undone.version = change.undo => past[change.version] = past[undone.before.version]
=============================================================================
