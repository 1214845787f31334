------------------------------- MODULE MCZcode -------------------------------
(* Model-checking instance of ZcodeHooks. *)
EXTENDS ZcodeHooks

CONSTANTS a1, k1

MCApprovals == {a1}
MCAsks == {k1}
=============================================================================
