-------------------------- MODULE MCBridgeStreams ---------------------------
(* TLC instances of BridgeStreams. *)
EXTENDS BridgeStreams, TLC

CONSTANTS t1, t2

MCTasks == {t1, t2}
MCTargets == {"list", "session"}
MCSymmetry == Permutations(MCTasks)
=============================================================================
