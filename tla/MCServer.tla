------------------------------- MODULE MCServer ------------------------------
(* Instances of the server's life cycle for TLC. *)
EXTENDS Server
=============================================================================
