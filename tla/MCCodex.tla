------------------------------- MODULE MCCodex -------------------------------
(* Model-checking instance of CodexFollower. *)
EXTENDS CodexFollower
=============================================================================
