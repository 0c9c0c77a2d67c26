------------------------------ MODULE MCJwtKeys ------------------------------
(* Small instances of JwtKeys for TLC. *)
EXTENDS JwtKeys
=============================================================================
