--------------------------- MODULE MCAccountProofs ---------------------------
(* Small instances of AccountProofs for TLC. *)
EXTENDS AccountProofs

CONSTANTS e2

\* a username that looks like an address the account may also own
MCNameOf == [u \in Users |-> e2]
=============================================================================
