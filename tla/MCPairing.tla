------------------------------ MODULE MCPairing ------------------------------
(* Model-checking instance of DevicePairing. *)
EXTENDS DevicePairing, TLC

CONSTANTS c1, c2, o1, o2, q1, q2, w1, w2

MCChallenges == {c1, c2}
MCConnecting == {c1}
MCOwners == {o1, o2}
MCClaims == {q1, q2}
MCConns == {w1, w2}
MCCodes == {1}

(* Owners, claims and connections differ by name only.                     *)
MCSymmetry ==
  Permutations(MCOwners) \cup Permutations(MCClaims) \cup Permutations(MCConns)
=============================================================================
