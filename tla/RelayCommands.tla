--------------------------- MODULE RelayCommands ---------------------------
(***************************************************************************)
(* Write commands in the Relay: on_browser_command of every browser        *)
(* connection, the Hub's registry of Bridge connections and pending        *)
(* commands, the Postgres receipts, the session task of every Bridge       *)
(* connection (bridge_ws.rs), Relay shutdown and crash.  One device.       *)
(*                                                                         *)
(* The Hub's mutex is held for one registry operation at a time and never  *)
(* across a database call, so an action is one critical section or one     *)
(* database statement.  The Bridge is the environment: it accepts a        *)
(* command once, settles it, and sends its receipts on whichever           *)
(* connection it has (module BridgeGateway).                               *)
(***************************************************************************)
EXTENDS Integers, Sequences, FiniteSets

CONSTANTS
    Requests,         \* request ids
    Digests,          \* canonical digests of a command
    Browsers,         \* browser connections
    MaxSessions,      \* bound: Bridge connections made
    Setups            \* bounds and failures of a behaviour, see bounds

ASSUME RelayBounds ==
    /\ MaxSessions \in Nat
    /\ Setups \subseteq [browsers : SUBSET Browsers, digests : SUBSET Digests,
                          submits : Nat, crashes : Nat, shutdown : BOOLEAN,
                          failures : BOOLEAN]

VARIABLES
    session,      \* bridge_session tasks: phase of each connection
    closing,      \* connections whose close channel was signalled
    registered,   \* Hub.bridges: the connection of the device, or 0
    pending,      \* Hub.commands: the browser that waits for a result
    receipt,      \* request_receipts: digest and status
    submit,       \* on_browser_command of every browser connection
    saving,       \* the receipt update a session task is about to make
    cleanup,      \* requests a session task or shutdown must still settle
    toBridge,     \* command frames on every connection
    fromBridge,   \* receipt frames on every connection
    told,         \* results the browsers have been sent
    client,       \* the connection the Bridge's transport uses, or 0
    outbound,     \* the outbound queue of the Bridge's transport
    bridge,       \* the Bridge's own receipt of every request
    unheard,      \* history: final receipts dropped on this connection
    forwarded,    \* how often a request was handed to a Bridge connection
    shutdown,     \* Hub.shutdown
    submits,      \* envelopes from browsers so far
    crashes,      \* Relay crashes so far
    bounds        \* the bounds of this behaviour (constant)

connections == <<session, closing, registered>>
frames == <<toBridge, fromBridge>>
bridgeSide == <<client, outbound, bridge, unheard>>
counters == <<submits, crashes>>
vars == <<session, closing, registered, pending, receipt, submit, saving,
          cleanup, toBridge, fromBridge, told, client, outbound, bridge,
          unheard, forwarded, shutdown, submits, crashes, bounds>>

MaxSubmits == bounds.submits       \* CommandRequest envelopes from browsers
MaxCrashes == bounds.crashes       \* crashes of the Relay
MayShutDown == bounds.shutdown     \* the Relay may be shut down
StoreMayFail == bounds.failures    \* a Postgres statement may fail

Sessions == 1 .. MaxSessions
Nobody == "nobody"
Final == {"COMPLETED", "REJECTED", "OUTCOME_UNKNOWN"}
FromBridge == Final \cup {"ACCEPTED_BY_BRIDGE", "DISPATCHED_TO_CODEX"}
Status == FromBridge \cup {"RECEIVED"}
Rows == [digest : Digests, status : Status]
NoRow == [digest |-> "none", status |-> "NO_ROW"]
Tasks == [at : {"online", "inserted", "registered", "failed", "taken"},
          rid : Requests, digest : Digests]
Idle == [at |-> "idle"]
Frame == [rid : Requests, status : FromBridge]
NoFrame == [rid |-> "none", status |-> "none"]

\* A result for a browser; "recorded" if it states what a receipt row holds.
Message == [to : Browsers, rid : Requests, status : Status, recorded : BOOLEAN]
Told(b, r, s, rec) == [to |-> b, rid |-> r, status |-> s, recorded |-> rec]

\* Who settles a set of pending commands: a session task, or shutdown (0).
Settlers == 0 .. MaxSessions

TypeOK ==
    /\ session \in [Sessions -> {"unused", "open", "closing", "removed", "gone"}]
    /\ closing \subseteq Sessions
    /\ registered \in Settlers
    /\ pending \in [Requests -> Browsers \cup {Nobody}]
    /\ receipt \in [Requests -> Rows \cup {NoRow}]
    /\ submit \in [Browsers -> Tasks \cup {Idle}]
    /\ saving \in [Sessions -> Frame \cup {NoFrame}]
    /\ cleanup \in [Settlers -> SUBSET Requests]
    /\ toBridge \in [Sessions -> Seq(Requests)]
    /\ fromBridge \in [Sessions -> Seq(Frame)]
    /\ told \subseteq Message
    /\ client \in Settlers
    /\ outbound \in Seq(Frame)
    /\ bridge \in [Requests -> FromBridge \cup {"none"}]
    /\ unheard \subseteq Requests
    /\ forwarded \in [Requests -> Nat]
    /\ shutdown \in BOOLEAN
    /\ submits \in Nat
    /\ crashes \in Nat
    /\ bounds \in Setups

-----------------------------------------------------------------------------
(* Postgres: update_receipt has no guard on the stored status, and every   *)
(* caller discards its error.                                              *)

HasRow(r) == receipt[r] # NoRow
UpdateReceipt(r, s) ==
    \/ receipt' = IF HasRow(r) THEN [receipt EXCEPT ![r].status = s] ELSE receipt
    \/ StoreMayFail /\ UNCHANGED receipt

-----------------------------------------------------------------------------
(* on_browser_command. *)

\* The target must be online; otherwise, during shutdown, or when the device,
\* the session or the receipt table cannot be had, the command is refused
\* without a receipt.
Submit(b, r, d) ==
    /\ submit[b] = Idle
    /\ submits < MaxSubmits
    /\ submits' = submits + 1
    /\ \/ /\ ~shutdown /\ registered # 0
          /\ submit' = [submit EXCEPT ![b] =
                           [at |-> "online", rid |-> r, digest |-> d]]
          /\ UNCHANGED told
       \/ /\ shutdown \/ registered = 0 \/ StoreMayFail
          /\ told' = told \cup {Told(b, r, "REJECTED", FALSE)}
          /\ UNCHANGED submit
    /\ UNCHANGED <<connections, pending, receipt, saving, cleanup, frames,
                   bridgeSide, forwarded, shutdown, crashes>>

\* Faulty variant: a request whose receipt is not final is forwarded again.
InsertUnfinished(b) ==
    LET c == submit[b] IN
    /\ c.at = "online"
    /\ \/ /\ ~HasRow(c.rid) \/ receipt[c.rid].status \notin Final
          /\ receipt' = [receipt EXCEPT ![c.rid] =
                            [digest |-> c.digest, status |-> "RECEIVED"]]
          /\ submit' = [submit EXCEPT ![b].at = "inserted"]
          /\ UNCHANGED told
       \/ /\ HasRow(c.rid) /\ receipt[c.rid].status \in Final
          /\ told' = told \cup {Told(b, c.rid, receipt[c.rid].status, TRUE)}
          /\ submit' = [submit EXCEPT ![b] = Idle]
          /\ UNCHANGED receipt
    /\ UNCHANGED <<connections, pending, saving, cleanup, frames, bridgeSide,
                   forwarded, shutdown, counters>>

\* insert_receipt ... ON CONFLICT DO NOTHING: the first one inserts, everyone
\* else is told the stored status or that the content differs.
InsertReceipt(b) ==
    LET c == submit[b] IN
    /\ c.at = "online"
    /\ \/ /\ ~HasRow(c.rid)
          /\ receipt' = [receipt EXCEPT ![c.rid] =
                            [digest |-> c.digest, status |-> "RECEIVED"]]
          /\ submit' = [submit EXCEPT ![b].at = "inserted"]
          /\ UNCHANGED told
       \/ /\ HasRow(c.rid)
          /\ told' = told \cup
                {IF receipt[c.rid].digest = c.digest
                 THEN Told(b, c.rid, receipt[c.rid].status, TRUE)
                 ELSE Told(b, c.rid, "REJECTED", FALSE)}
          /\ submit' = [submit EXCEPT ![b] = Idle]
          /\ UNCHANGED receipt
    /\ UNCHANGED <<connections, pending, saving, cleanup, frames, bridgeSide,
                   forwarded, shutdown, counters>>

RegisterCommand(b) ==
    /\ submit[b].at = "inserted"
    /\ pending' = [pending EXCEPT ![submit[b].rid] = b]
    /\ submit' = [submit EXCEPT ![b].at = "registered"]
    /\ UNCHANGED <<connections, receipt, saving, cleanup, frames, told,
                   bridgeSide, forwarded, shutdown, counters>>

\* send_to_bridge: to whichever connection is registered now.  It fails when
\* there is none, and may fail when its writer is gone or its queue is full.
Forward(b) ==
    /\ submit[b].at = "registered"
    /\ \/ /\ registered # 0
          /\ toBridge' = [toBridge EXCEPT ![registered] =
                             Append(@, submit[b].rid)]
          /\ forwarded' = [forwarded EXCEPT ![submit[b].rid] = @ + 1]
          /\ submit' = [submit EXCEPT ![b] = Idle]
       \/ /\ submit' = [submit EXCEPT ![b].at = "failed"]
          /\ UNCHANGED <<toBridge, forwarded>>
    /\ UNCHANGED <<connections, pending, receipt, saving, cleanup, fromBridge,
                   told, bridgeSide, shutdown, counters>>

TakeCommand(b) ==
    /\ submit[b].at = "failed"
    /\ pending' = [pending EXCEPT ![submit[b].rid] = Nobody]
    /\ submit' = [submit EXCEPT ![b].at = "taken"]
    /\ UNCHANGED <<connections, receipt, saving, cleanup, frames, told,
                   bridgeSide, forwarded, shutdown, counters>>

\* Faulty variant: status and error code of update_receipt are swapped.
RejectSwapped(b) ==
    /\ submit[b].at = "taken"
    /\ UpdateReceipt(submit[b].rid, "DEVICE_OFFLINE")
    /\ told' = told \cup {Told(b, submit[b].rid, "REJECTED", TRUE)}
    /\ submit' = [submit EXCEPT ![b] = Idle]
    /\ UNCHANGED <<connections, pending, saving, cleanup, frames, bridgeSide,
                   forwarded, shutdown, counters>>

\* The receipt becomes REJECTED (DEVICE_OFFLINE) and the browser is told.
RejectForward(b) ==
    /\ submit[b].at = "taken"
    /\ UpdateReceipt(submit[b].rid, "REJECTED")
    /\ told' = told \cup {Told(b, submit[b].rid, "REJECTED", TRUE)}
    /\ submit' = [submit EXCEPT ![b] = Idle]
    /\ UNCHANGED <<connections, pending, saving, cleanup, frames, bridgeSide,
                   forwarded, shutdown, counters>>

-----------------------------------------------------------------------------
(* The session task of a Bridge connection. *)

\* The Bridge connects; force_close_bridge signals the connection that is
\* registered and register_bridge takes its place.
Connect(s) ==
    /\ client = 0
    /\ session[s] = "unused"
    /\ \A o \in 1 .. (s - 1) : session[o] # "unused"
    /\ client' = s
    /\ session' = [session EXCEPT ![s] = "open"]
    /\ closing' = IF registered = 0 THEN closing ELSE closing \cup {registered}
    /\ registered' = s
    /\ UNCHANGED <<pending, receipt, submit, saving, cleanup, frames, told,
                   outbound, bridge, unheard, forwarded, shutdown, counters>>

ResultsOf(R, s) ==
    {Told(pending[r], r, s, TRUE) : r \in {q \in R : pending[q] # Nobody}}

\* on_command_accepted and on_command_result: tell the browser that waits, and
\* keep waiting unless the result is final ...
ReadFrame(s) ==
    /\ session[s] = "open"
    /\ saving[s] = NoFrame
    /\ fromBridge[s] # <<>>
    /\ LET f == Head(fromBridge[s]) IN
          /\ told' = told \cup ResultsOf({f.rid}, f.status)
          /\ pending' = IF f.status \in Final
                        THEN [pending EXCEPT ![f.rid] = Nobody] ELSE pending
          /\ saving' = [saving EXCEPT ![s] = f]
    /\ fromBridge' = [fromBridge EXCEPT ![s] = Tail(@)]
    /\ UNCHANGED <<connections, receipt, submit, cleanup, toBridge, bridgeSide,
                   forwarded, shutdown, counters>>

\* ... then, without the lock, write the receipt.
SaveFrame(s) ==
    /\ saving[s] # NoFrame
    /\ UpdateReceipt(saving[s].rid, saving[s].status)
    /\ saving' = [saving EXCEPT ![s] = NoFrame]
    /\ UNCHANGED <<connections, pending, submit, cleanup, frames, told,
                   bridgeSide, forwarded, shutdown, counters>>

\* The read loop ends: closed by a newer connection, end of stream or silence,
\* or a heartbeat that finds no connection registered for the device.
SessionEnds(s) ==
    /\ session[s] = "open"
    /\ saving[s] = NoFrame
    /\ s \in closing \/ client # s \/ registered = 0
    /\ session' = [session EXCEPT ![s] = "closing"]
    /\ UNCHANGED <<closing, registered, pending, receipt, submit, saving,
                   cleanup, frames, told, bridgeSide, forwarded, shutdown,
                   counters>>

Unfinished == {r \in Requests : pending[r] # Nobody}
Forget == pending' = [r \in Requests |-> Nobody]

\* Faulty variant: a device that goes offline rejects what it was sent.
RemoveRejects(s) ==
    /\ session[s] = "closing"
    /\ session' = [session EXCEPT ![s] = "removed"]
    /\ registered' = 0
    /\ told' = told \cup ResultsOf(Unfinished, "REJECTED")
    /\ cleanup' = [cleanup EXCEPT ![s] = Unfinished]
    /\ Forget
    /\ UNCHANGED <<closing, receipt, submit, saving, frames, bridgeSide,
                   forwarded, shutdown, counters>>

\* Faulty variant: pending commands are left to the next connection.
RemoveKeepsPending(s) ==
    /\ session[s] = "closing"
    /\ session' = [session EXCEPT ![s] = "removed"]
    /\ registered' = 0
    /\ UNCHANGED <<closing, pending, receipt, submit, saving, cleanup, frames,
                   told, bridgeSide, forwarded, shutdown, counters>>

\* remove_bridge: whatever connection the device has by now is unregistered,
\* and every pending command of the device ends as OUTCOME_UNKNOWN.
RemoveBridge(s) ==
    /\ session[s] = "closing"
    /\ session' = [session EXCEPT ![s] = "removed"]
    /\ registered' = 0
    /\ told' = told \cup ResultsOf(Unfinished, "OUTCOME_UNKNOWN")
    /\ cleanup' = [cleanup EXCEPT ![s] = Unfinished]
    /\ Forget
    /\ UNCHANGED <<closing, receipt, submit, saving, frames, bridgeSide,
                   forwarded, shutdown, counters>>

\* The receipts of those commands, one statement each.
SaveCleanup(s) ==
    /\ \E r \in cleanup[s] :
          /\ UpdateReceipt(r, "OUTCOME_UNKNOWN")
          /\ cleanup' = [cleanup EXCEPT ![s] = @ \ {r}]
    /\ UNCHANGED <<connections, pending, submit, saving, frames, told,
                   bridgeSide, forwarded, shutdown, counters>>

SessionGone(s) ==
    /\ session[s] = "removed"
    /\ cleanup[s] = {}
    /\ session' = [session EXCEPT ![s] = "gone"]
    /\ UNCHANGED <<closing, registered, pending, receipt, submit, saving,
                   cleanup, frames, told, bridgeSide, forwarded, shutdown,
                   counters>>

-----------------------------------------------------------------------------
(* Relay shutdown and crash. *)

\* begin_shutdown drains the pending commands; lib.rs stores them (settler 0).
BeginShutdown ==
    /\ MayShutDown /\ ~shutdown
    /\ shutdown' = TRUE
    /\ told' = told \cup ResultsOf(Unfinished, "OUTCOME_UNKNOWN")
    /\ cleanup' = [cleanup EXCEPT ![0] = Unfinished]
    /\ Forget
    /\ UNCHANGED <<connections, receipt, submit, saving, frames, bridgeSide,
                   forwarded, counters>>

\* The process dies and a new one starts: receipts stay as they are, every
\* connection is gone.
Crash ==
    /\ crashes < MaxCrashes
    /\ crashes' = crashes + 1
    /\ session' = [s \in Sessions |->
                      IF session[s] = "unused" THEN "unused" ELSE "gone"]
    /\ closing' = {}
    /\ registered' = 0
    /\ Forget
    /\ submit' = [b \in Browsers |-> Idle]
    /\ saving' = [s \in Sessions |-> NoFrame]
    /\ cleanup' = [s \in Settlers |-> {}]
    /\ fromBridge' = [s \in Sessions |-> <<>>]
    /\ shutdown' = FALSE
    /\ UNCHANGED <<receipt, toBridge, told, bridgeSide, forwarded, submits>>

-----------------------------------------------------------------------------
(* The Bridge and the network (BridgeGateway is the detailed model). *)

\* The socket breaks, or the Bridge reads Close: commands it has not read are
\* lost, and so is any tail of what it has written.
Disconnect ==
    /\ client # 0
    /\ client' = 0
    /\ toBridge' = [toBridge EXCEPT ![client] = <<>>]
    /\ \E n \in 0 .. Len(fromBridge[client]) :
          fromBridge' = [fromBridge EXCEPT ![client] = SubSeq(@, 1, n)]
    /\ unheard' = {}
    /\ UNCHANGED <<connections, pending, receipt, submit, saving, cleanup, told,
                   outbound, bridge, forwarded, shutdown, counters>>

\* send_envelope: the receipt enters the transport's queue, or it is dropped
\* because the queue, which all frames of the Bridge share, is full.
Report(r, s) ==
    \/ /\ outbound' = Append(outbound, [rid |-> r, status |-> s])
       /\ UNCHANGED unheard
    \/ /\ unheard' = IF s \in Final /\ client # 0 THEN unheard \cup {r}
                                                   ELSE unheard
       /\ UNCHANGED outbound

\* submit of the gateway: accepted and durable, or refused by its gate.
BridgeAccepts ==
    /\ client # 0
    /\ toBridge[client] # <<>>
    /\ toBridge' = [toBridge EXCEPT ![client] = Tail(@)]
    /\ LET r == Head(toBridge[client]) IN
       \E s \in {"ACCEPTED_BY_BRIDGE", "REJECTED"} :
          /\ bridge[r] = "none"
          /\ bridge' = [bridge EXCEPT ![r] = s]
          /\ Report(r, s)
    /\ UNCHANGED <<connections, pending, receipt, submit, saving, cleanup,
                   fromBridge, told, client, forwarded, shutdown, counters>>

BridgeSettles(r) ==
    /\ \E s \in Final \cup {"DISPATCHED_TO_CODEX"} :
          /\ \/ bridge[r] = "ACCEPTED_BY_BRIDGE"
             \/ bridge[r] = "DISPATCHED_TO_CODEX" /\ s \in Final
          /\ bridge' = [bridge EXCEPT ![r] = s]
          /\ Report(r, s)
    /\ UNCHANGED <<connections, pending, receipt, submit, saving, cleanup, frames,
                   told, client, forwarded, shutdown, counters>>

BridgeSends ==
    /\ client # 0
    /\ outbound # <<>>
    /\ fromBridge' = [fromBridge EXCEPT ![client] = Append(@, Head(outbound))]
    /\ outbound' = Tail(outbound)
    /\ UNCHANGED <<connections, pending, receipt, submit, saving, cleanup,
                   toBridge, told, client, bridge, unheard, forwarded, shutdown,
                   counters>>

-----------------------------------------------------------------------------
Init ==
    /\ session = [s \in Sessions |-> "unused"]
    /\ closing = {}
    /\ registered = 0
    /\ pending = [r \in Requests |-> Nobody]
    /\ receipt = [r \in Requests |-> NoRow]
    /\ submit = [b \in Browsers |-> Idle]
    /\ saving = [s \in Sessions |-> NoFrame]
    /\ cleanup = [s \in Settlers |-> {}]
    /\ toBridge = [s \in Sessions |-> <<>>]
    /\ fromBridge = [s \in Sessions |-> <<>>]
    /\ told = {}
    /\ client = 0
    /\ outbound = <<>>
    /\ bridge = [r \in Requests |-> "none"]
    /\ unheard = {}
    /\ forwarded = [r \in Requests |-> 0]
    /\ shutdown = FALSE
    /\ submits = 0
    /\ crashes = 0
    /\ bounds \in Setups

BrowserStep(b) ==
    \/ InsertReceipt(b) \/ RegisterCommand(b) \/ Forward(b) \/ TakeCommand(b)
    \/ RejectForward(b)

SessionStep(s) ==
    \/ ReadFrame(s) \/ SaveFrame(s) \/ SessionEnds(s) \/ RemoveBridge(s)
    \/ SessionGone(s)

BridgeStep ==
    \/ BridgeAccepts \/ (\E r \in Requests : BridgeSettles(r)) \/ BridgeSends

\* A step within the bounds of the behaviour.
Within(A) == A /\ UNCHANGED bounds

Next ==
    \/ \E b \in bounds.browsers, r \in Requests, d \in bounds.digests :
          Within(Submit(b, r, d))
    \/ \E b \in Browsers : Within(BrowserStep(b))
    \/ \E s \in Sessions : Within(Connect(s)) \/ Within(SessionStep(s))
    \/ \E s \in Settlers : Within(SaveCleanup(s))
    \/ Within(BeginShutdown) \/ Within(Crash)
    \/ Within(BridgeStep) \/ Within(Disconnect)

Spec == Init /\ [][Next]_vars

\* Tokio polls every ready task; the read loop of a dead connection ends by
\* end of stream or heartbeat; the Bridge settles and sends (BridgeGateway);
\* it drops a connection that the Relay has closed.
Fairness ==
    /\ \A b \in Browsers : WF_vars(Within(BrowserStep(b)))
    /\ \A s \in Sessions : WF_vars(Within(SessionStep(s)))
    /\ \A s \in Settlers : WF_vars(Within(SaveCleanup(s)))
    /\ WF_vars(Within(BridgeAccepts))
    /\ \A r \in Requests : WF_vars(Within(BridgeSettles(r)))
    /\ WF_vars(Within(BridgeSends))

FairSpec == Spec /\ Fairness

-----------------------------------------------------------------------------
(* Properties. *)

(* A request id reaches the Bridge at most once, whichever browsers submit *)
(* it, in whatever order their inserts, retries, reconnects and Relay      *)
(* crashes interleave.                                                     *)
ForwardedAtMostOnce == \A r \in Requests : forwarded[r] <= 1

(* What a browser is told of a receipt agrees with the Bridge: COMPLETED   *)
(* only if the Bridge completed it, REJECTED only if the Bridge rejected   *)
(* it or never got it, across takeovers, shutdown and crashes.             *)
AnswersAreTrue ==
    \A m \in told : m.recorded =>
        /\ m.status = "COMPLETED" => bridge[m.rid] = "COMPLETED"
        /\ m.status = "REJECTED" => \/ bridge[m.rid] = "REJECTED"
                                    \/ bridge[m.rid] = "none"
                                       /\ forwarded[m.rid] = 0

(* A pending command ends: its browser gets a final result, or the loss of *)
(* the Bridge connection ends it.  The one exception is the command whose  *)
(* final receipt the Bridge's full queue has dropped: the Relay has no     *)
(* timeout for a pending command, so it waits until that connection ends.  *)
PendingEnds ==
    \A r \in Requests : []<>(pending[r] = Nobody \/ r \in unheard)
=============================================================================
