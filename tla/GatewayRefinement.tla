------------------------- MODULE GatewayRefinement -------------------------
(* BridgeGateway implements CommandService: a request is accepted by its   *)
(* durable receipt row, and what counts as told are the messages about a   *)
(* receipt that the transport has handed to the Relay.                     *)
EXTENDS BridgeGateway

Service == INSTANCE CommandService WITH
    NoPayload <- NoRow.payload,
    accepted <- [r \in Requests |-> store[r].payload],
    effects <- executions,
    told <- {<<m.rid, m.status>> : m \in {n \in reported : n.recorded}}

(* Whatever the caller retries and wherever the Bridge crashes, restarts,  *)
(* shuts down or loses the IPC connection, submit, the forwarders, the     *)
(* shutdown and the replays of receipts together keep the promise of       *)
(* CommandService.                                                         *)
ImplementsService == Service!Spec
=============================================================================
