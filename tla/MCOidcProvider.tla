--------------------------- MODULE MCOidcProvider ---------------------------
(* A small instance of OidcProvider for TLC: one client of one tenant. *)
EXTENDS OidcProvider, TLC

CONSTANTS u1, o1, c1

MCClientOrg == c1 :> o1
MCSymmetry == Permutations(Codes) \cup Permutations(Slots) \cup Permutations(Grants)
=============================================================================
