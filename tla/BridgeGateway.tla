--------------------------- MODULE BridgeGateway ---------------------------
(***************************************************************************)
(* The write-command path inside the Mac Bridge process: the inbound loop  *)
(* of main.rs, BridgeRuntime::handle_command, CommandGateway::submit with  *)
(* its SQLite receipts, the Codex adapter's native write over Desktop IPC, *)
(* the receipt forwarders, graceful shutdown, and process crashes.         *)
(*                                                                         *)
(* The inbound loop awaits handle_command, so one command at a time is     *)
(* between "received" and "answered"; receipt forwarders, the tasks that   *)
(* pass receipts to the Relay, Desktop, and the IPC socket run beside it.  *)
(***************************************************************************)
EXTENDS Integers, Sequences, FiniteSets

CONSTANTS
    Requests,            \* request ids (UUIDs chosen by the caller)
    Payloads,            \* canonical payload digests
    QueuePayloads,       \* next-turn queue operations, applied by the Bridge
    RefusedPayloads,     \* background stops: the adapter has no native method
    SnapshotPayloads,    \* payloads checked against a runtime snapshot
    OutboundCapacity,    \* frames the outbound queue to the Relay holds
    MaxDeliveries,       \* bound: command envelopes delivered to the Bridge
    MaxCrashes,          \* bound: crashes of the Bridge process
    MaxShutdowns,        \* bound: graceful shutdowns of the Bridge process
    IpcTimesOut,         \* TRUE if an IPC request may outlast its timeout
    StoreMayFail         \* TRUE if a SQLite write may fail (database locked)

ASSUME PayloadKinds ==
    /\ QueuePayloads \subseteq Payloads
    /\ RefusedPayloads \subseteq Payloads \ QueuePayloads
    /\ SnapshotPayloads \subseteq Payloads
    /\ "none" \notin Payloads          \* stands for the payload of no row

ASSUME BoundsAssumption ==
    /\ OutboundCapacity \in Nat
    /\ MaxDeliveries \in Nat
    /\ MaxCrashes \in Nat
    /\ MaxShutdowns \in Nat
    /\ IpcTimesOut \in BOOLEAN
    /\ StoreMayFail \in BOOLEAN

VARIABLES
    phase,        \* "up", "draining" (graceful_shutdown running) or "down"
    inbox,        \* inbound envelopes, not yet taken by the loop of main.rs
    handler,      \* the command in handle_command
    store,        \* SQLite request_receipts: request id -> row
    inflight,     \* CommandGateway::inflight: requests without final receipt
    draining,     \* what graceful_shutdown took from inflight and must settle
    forward,      \* spawn_forward tasks: request id -> receipts not forwarded
    recorded,     \* receipts a forwarder has stored but not yet sent on
    channel,      \* caller channels: request id -> receipts not yet reported
    listening,    \* requests whose receipt task in handle_command still reads
    wire,         \* native writes in the IPC socket or at Desktop
    reply,        \* the IPC response waiting for the handler
    outbox,       \* outbound queue of the Relay transport
    reported,     \* every message the transport has handed to the Relay
    executions,   \* how often the effect of a request has happened
    executed,     \* request and payload of every effect
    graceful,     \* TRUE once the current shutdown has run to its end
    deliveries,   \* envelopes delivered so far
    crashes,      \* crashes so far
    shutdowns     \* graceful shutdowns so far

handling == <<handler, wire, reply>>
receiptTasks == <<forward, recorded, channel, listening>>
effects == <<executions, executed>>
counters == <<deliveries, crashes, shutdowns>>
vars == <<phase, inbox, handler, store, inflight, draining, forward, recorded,
          channel, listening, wire, reply, outbox, reported, executions,
          executed, graceful, deliveries, crashes, shutdowns>>

-----------------------------------------------------------------------------
(* Receipt states of section 15.2 of the specification. *)

Terminal == {"COMPLETED", "REJECTED", "OUTCOME_UNKNOWN"}
Status == Terminal \cup {"ACCEPTED_BY_BRIDGE", "DISPATCHED_TO_CODEX"}

NoRow == [payload |-> "none", status |-> "NO_ROW"]
Rows == [payload : Payloads, status : Status]
HasRow(r) == store[r] # NoRow

Command == [rid : Requests, payload : Payloads]

(* A message to the Relay.  "recorded" tells a result that comes from a     *)
(* receipt row from one that is answered before any row exists (capability *)
(* gate, digest mismatch, failed insert).                                  *)
Message == [rid : Requests, payload : Payloads, status : Status,
            recorded : BOOLEAN]

Idle == [at |-> "idle"]
Handling(at, c) == [at |-> at, rid |-> c.rid, payload |-> c.payload]
Finalizing(c, s) ==
    [at |-> "finalize", rid |-> c.rid, payload |-> c.payload, outcome |-> s]

NativePayloads == Payloads \ (QueuePayloads \cup RefusedPayloads)

HandlerStates ==
    {Idle}
    \cup [at : {"recorded", "dispatch", "wait"}, rid : Requests,
          payload : Payloads]
    \cup [at : {"finalize"}, rid : Requests, payload : Payloads,
          outcome : Terminal]

TypeOK ==
    /\ phase \in {"up", "draining", "down"}
    /\ inbox \in Seq(Command)
    /\ handler \in HandlerStates
    /\ store \in [Requests -> Rows \cup {NoRow}]
    /\ inflight \subseteq Requests
    /\ draining \subseteq Requests
    /\ forward \in [Requests -> Seq(Status)]
    /\ recorded \in [Requests -> Status \cup {"none"}]
    /\ channel \in [Requests -> Seq(Status)]
    /\ listening \subseteq Requests
    /\ wire \subseteq Command
    /\ reply \in {"none", "ok", "error"}
    /\ outbox \in Seq(Message)
    /\ reported \subseteq Message
    /\ executions \in [Requests -> Nat]
    /\ executed \subseteq Command
    /\ graceful \in BOOLEAN
    /\ deliveries \in Nat
    /\ crashes \in Nat
    /\ shutdowns \in Nat

-----------------------------------------------------------------------------
(* LocalStore. *)

\* update_receipt_status: no guard on the previous status; an error of the
\* store is discarded by every caller.
UpdateReceiptStatus(r, s) ==
    \/ store' = [store EXCEPT ![r].status = s]
    \/ StoreMayFail /\ UNCHANGED store

-----------------------------------------------------------------------------
(* Messages to the Relay: send_envelope drops what does not fit. *)

Push(q, m) == IF Len(q) < OutboundCapacity THEN Append(q, m) ELSE q

Result(c, s, rec) ==
    [rid |-> c.rid, payload |-> c.payload, status |-> s, recorded |-> rec]

\* A rejection answered before any receipt row exists.
RejectUnrecorded(c) ==
    /\ outbox' = Push(outbox, Result(c, "REJECTED", FALSE))
    /\ UNCHANGED <<store, handler, inflight, channel>>

\* CommandAccepted.
Accepted(c) == Result(c, "ACCEPTED_BY_BRIDGE", TRUE)

-----------------------------------------------------------------------------
(* The inbound loop and CommandGateway::submit. *)

\* The environment: the transport queues a command envelope.
Deliver(c) ==
    /\ phase = "up"
    /\ deliveries < MaxDeliveries
    /\ inbox' = Append(inbox, c)
    /\ deliveries' = deliveries + 1
    /\ UNCHANGED <<phase, handler, store, inflight, draining, receiptTasks,
                   wire, reply, outbox, reported, effects, graceful, crashes,
                   shutdowns>>

\* Same request id, same digest: the stored state is replayed and nothing is
\* executed.  A row that cannot be read counts as ACCEPTED_BY_BRIDGE.
Replay(c) ==
    /\ \E s \in {store[c.rid].status, "ACCEPTED_BY_BRIDGE"} :
          /\ s = store[c.rid].status \/ StoreMayFail
          /\ outbox' = Push(Push(outbox, Accepted(c)), Result(c, s, TRUE))
    /\ UNCHANGED <<store, handler, inflight, channel>>

\* Faulty variant: dispatch starts before the row is written.
RecordReceiptLate(c) ==
    /\ handler' = Handling("recorded", c)
    /\ inflight' = inflight \cup {c.rid}
    /\ channel' = [channel EXCEPT ![c.rid] = <<>>]
    /\ UNCHANGED <<store, outbox>>

\* New request id: ACCEPTED_BY_BRIDGE is durable before anything is executed.
RecordReceipt(c) ==
    /\ store' = [store EXCEPT ![c.rid] =
                    [payload |-> c.payload, status |-> "ACCEPTED_BY_BRIDGE"]]
    /\ handler' = Handling("recorded", c)
    /\ inflight' = inflight \cup {c.rid}
    /\ channel' = [channel EXCEPT ![c.rid] = <<>>]
    /\ UNCHANGED outbox

\* Faulty variant: a retry of a request without final receipt runs again.
AdmitRerunsUnfinished(c) ==
    \/ c.payload \notin QueuePayloads /\ RejectUnrecorded(c)
    \/ HasRow(c.rid) /\ store[c.rid].payload # c.payload /\ RejectUnrecorded(c)
    \/ HasRow(c.rid) /\ store[c.rid].status \in Terminal /\ Replay(c)
    \/ ~(HasRow(c.rid) /\ store[c.rid].status \in Terminal) /\ RecordReceipt(c)

\* Faulty variant: a retry of a rejected request is taken as a new one.
AdmitRetriesRejected(c) ==
    \/ HasRow(c.rid) /\ store[c.rid].status # "REJECTED" /\ Replay(c)
    \/ ~(HasRow(c.rid) /\ store[c.rid].status # "REJECTED") /\ RecordReceipt(c)

\* Gate and store failure first, then deduplication.
Admit(c) ==
    \/ c.payload \notin QueuePayloads /\ RejectUnrecorded(c)
    \/ StoreMayFail /\ RejectUnrecorded(c)
    \/ HasRow(c.rid) /\ store[c.rid].payload # c.payload /\ RejectUnrecorded(c)
    \/ HasRow(c.rid) /\ store[c.rid].payload = c.payload /\ Replay(c)
    \/ ~HasRow(c.rid) /\ RecordReceipt(c)

Submit ==
    /\ phase = "up"
    /\ handler = Idle
    /\ inbox # <<>>
    /\ inbox' = Tail(inbox)
    /\ Admit(Head(inbox))
    /\ UNCHANGED <<phase, draining, forward, recorded, listening, wire, reply,
                   reported, effects, graceful, counters>>

\* Expected turn and revision against a runtime snapshot (STALE_TURN, or the
\* snapshot cannot be had).
Validate ==
    /\ phase = "up"
    /\ handler.at = "recorded"
    /\ \/ handler' = Handling("dispatch", handler)
       \/ /\ handler.payload \in SnapshotPayloads
          /\ handler' = Finalizing(handler, "REJECTED")
    /\ UNCHANGED <<phase, inbox, store, inflight, draining, receiptTasks, wire,
                   reply, outbox, reported, effects, graceful, counters>>

Execute(c) ==
    /\ executions' = [executions EXCEPT ![c.rid] = @ + 1]
    /\ executed' = executed \cup {[rid |-> c.rid, payload |-> c.payload]}

\* QueueNextTurn, CancelQueue, PauseQueue: applied to SQLite or refused.
QueueOperation ==
    /\ phase = "up"
    /\ handler.at = "dispatch"
    /\ handler.payload \in QueuePayloads
    /\ \/ Execute(handler) /\ handler' = Finalizing(handler, "COMPLETED")
       \/ UNCHANGED effects /\ handler' = Finalizing(handler, "REJECTED")
    /\ UNCHANGED <<phase, inbox, store, inflight, draining, receiptTasks, wire,
                   reply, outbox, reported, graceful, counters>>

\* submit returns Accepted: CommandAccepted is sent and a task reads the
\* caller channel from now on.
Answer(c) ==
    /\ handler' = Idle
    /\ outbox' = Push(outbox, Accepted(c))
    /\ listening' = listening \cup {c.rid}

\* Faulty variant: the refusal is streamed as a success.
AdapterConfirms ==
    /\ phase = "up"
    /\ handler.at = "dispatch"
    /\ handler.payload \in RefusedPayloads
    /\ forward' = [forward EXCEPT ![handler.rid] = <<"COMPLETED">>]
    /\ Answer(handler)
    /\ UNCHANGED <<phase, inbox, store, inflight, draining, recorded, channel,
                   wire, reply, reported, effects, graceful, counters>>

\* Background stops: the adapter answers with a stream that holds REJECTED.
AdapterRefuses ==
    /\ phase = "up"
    /\ handler.at = "dispatch"
    /\ handler.payload \in RefusedPayloads
    /\ forward' = [forward EXCEPT ![handler.rid] = <<"REJECTED">>]
    /\ Answer(handler)
    /\ UNCHANGED <<phase, inbox, store, inflight, draining, recorded, channel,
                   wire, reply, reported, effects, graceful, counters>>

\* execute_command fails before the native write: no owner, IPC offline,
\* stale turn, gate (REJECTED), or the IPC writer is gone (OUTCOME_UNKNOWN).
DispatchFails ==
    /\ phase = "up"
    /\ handler.at = "dispatch"
    /\ handler.payload \in Payloads \ QueuePayloads
    /\ \E s \in {"REJECTED", "OUTCOME_UNKNOWN"} :
          handler' = Finalizing(handler, s)
    /\ UNCHANGED <<phase, inbox, store, inflight, draining, receiptTasks, wire,
                   reply, outbox, reported, effects, graceful, counters>>

\* The native request is queued to the IPC writer; the handler awaits.
WriteNative ==
    /\ phase = "up"
    /\ handler.at = "dispatch"
    /\ handler.payload \in NativePayloads
    /\ wire' = wire \cup {[rid |-> handler.rid, payload |-> handler.payload]}
    /\ handler' = Handling("wait", handler)
    /\ UNCHANGED <<phase, inbox, store, inflight, draining, receiptTasks, reply,
                   outbox, reported, effects, graceful, counters>>

\* The answer "ok" makes execute_command return DISPATCHED and COMPLETED in
\* one stream; spawn_forward takes it over and submit returns.
NativeSucceeded ==
    /\ phase = "up"
    /\ handler.at = "wait"
    /\ reply = "ok"
    /\ reply' = "none"
    /\ forward' = [forward EXCEPT ![handler.rid] =
                      <<"DISPATCHED_TO_CODEX", "COMPLETED">>]
    /\ Answer(handler)
    /\ UNCHANGED <<phase, inbox, store, inflight, draining, recorded, channel,
                   wire, reported, effects, graceful, counters>>

\* map_ipc_write_error and AdapterError::code: a peer error, and also the
\* request timeout, reach the gateway as a code other than OUTCOME_UNKNOWN.
WriteErrorOutcome == "REJECTED"

NativeFailed ==
    /\ phase = "up"
    /\ handler.at = "wait"
    /\ \/ reply = "error"                 \* a response frame of type Error
       \/ reply = "none" /\ IpcTimesOut   \* no response within the timeout
    /\ reply' = "none"
    /\ handler' = Finalizing(handler, WriteErrorOutcome)
    /\ UNCHANGED <<phase, inbox, store, inflight, draining, receiptTasks, wire,
                   outbox, reported, effects, graceful, counters>>

\* Faulty variant: the final receipt is stored, the caller is not told.
FinalizeSilently ==
    /\ phase = "up"
    /\ handler.at = "finalize"
    /\ UpdateReceiptStatus(handler.rid, handler.outcome)
    /\ inflight' = inflight \ {handler.rid}
    /\ Answer(handler)
    /\ UNCHANGED <<phase, inbox, draining, forward, recorded, channel, wire,
                   reply, reported, effects, graceful, counters>>

\* finalize_receipt: store, caller channel, inflight; then submit returns.
FinalizeReceipt ==
    /\ phase = "up"
    /\ handler.at = "finalize"
    /\ UpdateReceiptStatus(handler.rid, handler.outcome)
    /\ channel' = [channel EXCEPT ![handler.rid] = Append(@, handler.outcome)]
    /\ inflight' = inflight \ {handler.rid}
    /\ Answer(handler)
    /\ UNCHANGED <<phase, inbox, draining, forward, recorded, wire, reply,
                   reported, effects, graceful, counters>>

-----------------------------------------------------------------------------
(* Desktop and the IPC socket (outside the repository). *)

AwaitedBy(w) ==
    phase = "up" /\ handler.at = "wait" /\ handler.rid = w.rid /\ reply = "none"

DesktopExecutes(w) ==
    /\ w \in wire
    /\ wire' = wire \ {w}
    /\ Execute(w)
    /\ reply' = IF AwaitedBy(w) THEN "ok" ELSE reply
    /\ UNCHANGED <<phase, inbox, handler, store, inflight, draining,
                   receiptTasks, outbox, reported, graceful, counters>>

DesktopRefuses(w) ==
    /\ w \in wire
    /\ wire' = wire \ {w}
    /\ reply' = IF AwaitedBy(w) THEN "error" ELSE reply
    /\ UNCHANGED <<phase, inbox, handler, store, inflight, draining,
                   receiptTasks, outbox, reported, effects, graceful, counters>>

\* The socket breaks: the reader loop answers every pending request with an
\* Error frame ("connection-closed").  Desktop may still act on what it has
\* already read.
IpcLost ==
    /\ phase = "up"
    /\ handler.at = "wait"
    /\ reply = "none"
    /\ reply' = "error"
    /\ wire' \in {wire, wire \ {w \in wire : AwaitedBy(w)}}
    /\ UNCHANGED <<phase, inbox, handler, store, inflight, draining,
                   receiptTasks, outbox, reported, effects, graceful, counters>>

-----------------------------------------------------------------------------
(* Receipt tasks. *)

\* spawn_forward, first half of an iteration: take a receipt and store it.
ForwardRecord(r) ==
    /\ phase # "down"
    /\ forward[r] # <<>>
    /\ recorded[r] = "none"
    /\ UpdateReceiptStatus(r, Head(forward[r]))
    /\ recorded' = [recorded EXCEPT ![r] = Head(forward[r])]
    /\ forward' = [forward EXCEPT ![r] = Tail(@)]
    /\ UNCHANGED <<phase, inbox, handler, inflight, draining, channel,
                   listening, wire, reply, outbox, reported, effects, graceful,
                   counters>>

\* Second half: pass it to the caller; after a final receipt leave inflight.
ForwardSend(r) ==
    /\ phase # "down"
    /\ recorded[r] # "none"
    /\ channel' = [channel EXCEPT ![r] = Append(@, recorded[r])]
    /\ recorded' = [recorded EXCEPT ![r] = "none"]
    /\ inflight' = IF recorded[r] \in Terminal THEN inflight \ {r} ELSE inflight
    /\ UNCHANGED <<phase, inbox, handler, store, draining, forward, listening,
                   wire, reply, outbox, reported, effects, graceful, counters>>

\* The task handle_command spawned: CommandResult per receipt, until the
\* first final one.
ReportReceipt(r) ==
    /\ phase # "down"
    /\ r \in listening
    /\ channel[r] # <<>>
    /\ LET s == Head(channel[r]) IN
          /\ outbox' = Push(outbox, Result([rid |-> r,
                                payload |-> store[r].payload], s, TRUE))
          /\ listening' = IF s \in Terminal THEN listening \ {r} ELSE listening
          /\ channel' = [channel EXCEPT ![r] =
                            IF s \in Terminal THEN <<>> ELSE Tail(@)]
    /\ UNCHANGED <<phase, inbox, handler, store, inflight, draining, forward,
                   recorded, wire, reply, reported, effects, graceful, counters>>

\* The transport hands the oldest frame to the Relay connection.
TransportSend ==
    /\ phase # "down"
    /\ outbox # <<>>
    /\ reported' = reported \cup {Head(outbox)}
    /\ outbox' = Tail(outbox)
    /\ UNCHANGED <<phase, inbox, handler, store, inflight, draining,
                   receiptTasks, wire, reply, effects, graceful, counters>>

-----------------------------------------------------------------------------
(* Shutdown, crash, restart. *)

\* ctrl_c is selected between two envelopes: closed is set and inflight is
\* drained in one critical section.
BeginShutdown ==
    /\ phase = "up"
    /\ handler = Idle
    /\ shutdowns < MaxShutdowns
    /\ phase' = "draining"
    /\ draining' = inflight
    /\ inflight' = {}
    /\ shutdowns' = shutdowns + 1
    /\ UNCHANGED <<inbox, handler, store, receiptTasks, wire, reply, outbox,
                   reported, effects, graceful, deliveries, crashes>>

\* Faulty variant: shutdown calls what it cannot prove rejected.
ShutdownRejects(r) ==
    /\ phase = "draining"
    /\ r \in draining
    /\ UpdateReceiptStatus(r, "REJECTED")
    /\ channel' = [channel EXCEPT ![r] = Append(@, "REJECTED")]
    /\ draining' = draining \ {r}
    /\ UNCHANGED <<phase, inbox, handler, inflight, forward, recorded,
                   listening, wire, reply, outbox, reported, effects, graceful,
                   counters>>

\* One iteration of graceful_shutdown's loop.
ShutdownFinalize(r) ==
    /\ phase = "draining"
    /\ r \in draining
    /\ UpdateReceiptStatus(r, "OUTCOME_UNKNOWN")
    /\ channel' = [channel EXCEPT ![r] = Append(@, "OUTCOME_UNKNOWN")]
    /\ draining' = draining \ {r}
    /\ UNCHANGED <<phase, inbox, handler, inflight, forward, recorded,
                   listening, wire, reply, outbox, reported, effects, graceful,
                   counters>>

\* What the death of the process leaves: SQLite, Desktop and its socket.
LoseMemory ==
    /\ phase' = "down"
    /\ inbox' = <<>>
    /\ handler' = Idle
    /\ inflight' = {}
    /\ draining' = {}
    /\ forward' = [r \in Requests |-> <<>>]
    /\ recorded' = [r \in Requests |-> "none"]
    /\ channel' = [r \in Requests |-> <<>>]
    /\ listening' = {}
    /\ reply' = "none"
    /\ outbox' = <<>>
    /\ UNCHANGED <<store, wire, reported, effects, deliveries, shutdowns>>

\* main returns 100 ms after the relay handle was shut down; tasks that are
\* still running are dropped with the runtime.
Exit ==
    /\ phase = "draining"
    /\ draining = {}
    /\ LoseMemory
    /\ graceful' = TRUE
    /\ UNCHANGED crashes

Crash ==
    /\ phase # "down"
    /\ crashes < MaxCrashes
    /\ LoseMemory
    /\ graceful' = FALSE
    /\ crashes' = crashes + 1

\* A fresh process on the same SQLite file; nothing reads old receipts.
Restart ==
    /\ phase = "down"
    /\ phase' = "up"
    /\ graceful' = FALSE
    /\ UNCHANGED <<inbox, handler, store, inflight, draining, receiptTasks,
                   wire, reply, outbox, reported, effects, counters>>

-----------------------------------------------------------------------------
Init ==
    /\ phase = "up"
    /\ inbox = <<>>
    /\ handler = Idle
    /\ store = [r \in Requests |-> NoRow]
    /\ inflight = {}
    /\ draining = {}
    /\ forward = [r \in Requests |-> <<>>]
    /\ recorded = [r \in Requests |-> "none"]
    /\ channel = [r \in Requests |-> <<>>]
    /\ listening = {}
    /\ wire = {}
    /\ reply = "none"
    /\ outbox = <<>>
    /\ reported = {}
    /\ executions = [r \in Requests |-> 0]
    /\ executed = {}
    /\ graceful = FALSE
    /\ deliveries = 0
    /\ crashes = 0
    /\ shutdowns = 0

HandlerStep ==
    \/ Submit \/ Validate \/ QueueOperation \/ AdapterRefuses \/ DispatchFails
    \/ WriteNative \/ NativeSucceeded \/ NativeFailed \/ FinalizeReceipt

DesktopStep ==
    \/ \E w \in wire : DesktopExecutes(w) \/ DesktopRefuses(w)
    \/ IpcLost

ReceiptStep(r) == ForwardRecord(r) \/ ForwardSend(r) \/ ReportReceipt(r)

LifecycleStep ==
    \/ BeginShutdown \/ (\E r \in Requests : ShutdownFinalize(r)) \/ Exit
    \/ Crash \/ Restart

Next ==
    \/ \E c \in Command : Deliver(c)
    \/ HandlerStep
    \/ DesktopStep
    \/ \E r \in Requests : ReceiptStep(r)
    \/ TransportSend
    \/ LifecycleStep

Spec == Init /\ [][Next]_vars

\* Tokio polls every ready task: the loop of main.rs (an awaited IPC request
\* has a timeout), every forwarder and receipt task, the transport.
Fairness ==
    /\ WF_vars(HandlerStep)
    /\ \A r \in Requests :
          WF_vars(ForwardRecord(r)) /\ WF_vars(ForwardSend(r))
          /\ WF_vars(ReportReceipt(r))
    /\ WF_vars(TransportSend)
    /\ WF_vars(\E r \in Requests : ShutdownFinalize(r))

FairSpec == Spec /\ Fairness

-----------------------------------------------------------------------------
(* The inductive invariant behind AtMostOnce and EffectsAreRecorded. *)

\* Whatever still writes to the receipt of a request finds its row.
OpenHaveRows ==
    /\ \A r \in inflight \cup draining \cup listening : HasRow(r)
    /\ \A r \in Requests : forward[r] # <<>> => HasRow(r)

\* A command that is handled, or that Desktop may still see, is the one its
\* receipt was recorded for.
RecordedAs(c) == HasRow(c.rid) /\ store[c.rid].payload = c.payload
HandlerIsRecorded == handler # Idle => RecordedAs(handler)
WireIsRecorded == \A w \in wire : RecordedAs(w)

\* The one execution a request may have is spent when it happens, and
\* reserved while the command is on its way to Desktop.
OnItsWay(r) ==
    \/ ~HasRow(r)
    \/ \E w \in wire : w.rid = r
    \/ handler.at \in {"recorded", "dispatch"} /\ handler.rid = r
SpentOnce ==
    \A r \in Requests :
        /\ executions[r] \in {0, 1}
        /\ OnItsWay(r) => executions[r] = 0
NotYetWritten ==
    handler.at \in {"recorded", "dispatch"}
    => \A w \in wire : w.rid # handler.rid

GatewayInv ==
    /\ TypeOK
    /\ OpenHaveRows
    /\ HandlerIsRecorded
    /\ WireIsRecorded
    /\ SpentOnce
    /\ NotYetWritten
    /\ \A e \in executed : RecordedAs(e)

-----------------------------------------------------------------------------
(* Properties. *)

(* A request id takes effect at most once, however often the caller        *)
(* retries and wherever the Bridge crashes or is shut down: submit inserts *)
(* the receipt before it dispatches and replays an existing one.           *)
AtMostOnce == \A r \in Requests : executions[r] <= 1

(* An effect is the effect of the payload whose digest the durable receipt *)
(* of its request id holds: no other payload ever runs under that id.      *)
EffectsAreRecorded == \A e \in executed : RecordedAs(e)

(* COMPLETED, stored in SQLite or told to the Relay (first answer or       *)
(* replay), means that the effect has happened.                            *)
CompletedIsTrue ==
    \A r \in Requests :
        \/ store[r].status = "COMPLETED"
        \/ \E m \in reported : m.rid = r /\ m.status = "COMPLETED"
        => executions[r] = 1

(* A stored COMPLETED or REJECTED never goes back to an open state and     *)
(* never turns into the other; only shutdown may still overwrite it with   *)
(* OUTCOME_UNKNOWN.                                                        *)
SettledStaysSettled ==
    [][\A r \in Requests :
          store[r].status \in {"COMPLETED", "REJECTED"}
          => store'[r].status \in {store[r].status, "OUTCOME_UNKNOWN"}]_vars

(* No request stays open: its handler returns, its entry leaves inflight   *)
(* and its receipt task ends with a final receipt, although the store may  *)
(* fail, the outbound queue may be full, an IPC request may never be       *)
(* answered, and a shutdown may take the entry over.                       *)
Open(r) ==
    \/ r \in inflight \cup draining \cup listening
    \/ handler # Idle /\ handler.rid = r
RequestsClose == \A r \in Requests : Open(r) ~> ~Open(r)
=============================================================================
