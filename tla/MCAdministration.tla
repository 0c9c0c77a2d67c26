-------------------------- MODULE MCAdministration --------------------------
(***************************************************************************)
(* The components behind the administration interface, on small instances. *)
(* None of them writes a row of another, so each behaviour runs one of     *)
(* them while the others rest.                                             *)
(***************************************************************************)
EXTENDS JwtKeys, ChangeHistory, Rbac, Organization, RowLocks, Setup

VARIABLE focus   \* the component that runs

administrationVars ==
    <<now, keyVars, historyVars, rbacVars, orgVars, tx, setupVars, focus>>

Components == {"keys", "history", "bindings", "requests", "members", "locks", "setup"}

AdministrationInit ==
    /\ focus \in Components
    /\ KeyInit /\ HistoryInit /\ RbacInit /\ OrgInit /\ LocksInit /\ SetupInit
    /\ focus # "history" => kind = "role" /\ \A r \in row : r.content = "a"
    /\ focus \notin {"bindings", "requests"} => resources = {} /\ \A u \in People : class[u] = "internal"

\* the components other than c stay as they are
Rest(c) ==
    /\ UNCHANGED focus
    /\ c # "keys" => UNCHANGED keyVars
    /\ c # "history" => UNCHANGED historyVars
    /\ c \notin {"bindings", "requests"} => UNCHANGED rbacVars
    /\ c # "members" => UNCHANGED orgVars
    /\ c # "locks" => UNCHANGED tx
    /\ c # "setup" => UNCHANGED setupVars
    /\ c # "keys" => UNCHANGED now

AdministrationNext ==
    \/ focus = "keys" /\ KeyNext /\ Rest("keys")
    \/ focus = "history" /\ HistoryNext /\ Rest("history")
    \/ focus = "bindings" /\ BindingNext /\ Rest("bindings")
    \/ focus = "requests" /\ RequestNext /\ Rest("requests")
    \/ focus = "members" /\ OrgNext /\ Rest("members")
    \/ focus = "locks" /\ LocksNext /\ Rest("locks")
    \/ focus = "setup" /\ SetupNext /\ Rest("setup")

AdministrationSpec == AdministrationInit /\ [][AdministrationNext]_administrationVars
=============================================================================
