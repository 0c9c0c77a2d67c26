------------------------------ MODULE MCTenant ------------------------------
(***************************************************************************)
(* What an organization bounds, on small instances: the sessions of its    *)
(* members and the machines it owns.  Each behaviour runs one of the two;  *)
(* sessions are checked on a clock that stands still.                      *)
(***************************************************************************)
EXTENDS RefreshSession, MachineAccess

\* everything allowed, and a narrow policy that also disables the client
MCPolicies ==
    {[active |-> TRUE, caps |-> Capabilities, introspect |-> TRUE],
     [active |-> FALSE, caps |-> {"admin-backend"}, introspect |-> FALSE]}

VARIABLE focus   \* the component that runs

boundaryVars == <<vars, machineVars, focus>>

BoundaryInit == focus \in {"sessions", "machine"} /\ Init /\ MachineInit

BoundaryNext ==
    \/ focus = "sessions" /\ Next /\ now' = 0 /\ UNCHANGED <<machineVars, focus>>
    \/ focus = "machine" /\ MachineNext /\ UNCHANGED <<directoryVars, sessionVars, focus>>

BoundarySpec == BoundaryInit /\ [][BoundaryNext]_boundaryVars
=============================================================================
