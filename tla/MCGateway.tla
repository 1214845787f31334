------------------------------ MODULE MCGateway ------------------------------
(* TLC instance of BridgeGateway and its refinement. *)
EXTENDS GatewayRefinement

CONSTANTS r1, start, queue, stop

MCRequests == {r1}
MCPayloads == {start, queue, stop}
MCQueue == {queue}
MCRefused == {stop}
MCSnapshot == {start, queue}
=============================================================================
