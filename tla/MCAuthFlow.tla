----------------------------- MODULE MCAuthFlow -----------------------------
(* Small instances of AuthFlow for TLC. *)
EXTENDS AuthFlow, TLC

Symmetry == Permutations(SessionIds) \cup Permutations(TokenIds)
                \cup Permutations(Requests)
=============================================================================
