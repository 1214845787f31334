----------------------------- MODULE ZcodeHooks ------------------------------
(***************************************************************************)
(* Remote decisions for ZCode.  A helper process (bridge zcode-hook for a  *)
(* PermissionRequest, a call of bridge mcp-stdio for agent_console.ask_    *)
(* user) connects to the Bridge's Unix socket, one connection per invoke,  *)
(* and waits.  The Bridge registers the invoke, publishes a card, and      *)
(* waits for the first of: a Browser's answer, the end of the connection,  *)
(* the deadline.  An answer is written back, the helper hands it to the    *)
(* native runtime and acknowledges; only then is the Browser told          *)
(* COMPLETED.                                                              *)
(*                                                                         *)
(*   reg    PendingRegistry: state of the record, dl: its deadline passed  *)
(*   chan   the oneshot channel of the decision                            *)
(*   deliv  the oneshot channel of the delivery's outcome                  *)
(*   srv    the task of the socket server for this connection              *)
(*   sock   the connection: helper's end open, reply written, ack written  *)
(*   hp     the helper, out what the native runtime got from it            *)
(*   card   the card the Browser shows                                     *)
(*   stream the stream of each session at the Bridge: not established,     *)
(*          live, or being established, when held is the net effect of the *)
(*          events it buffers and snap what the snapshot shows             *)
(*   cmd    the command the Bridge is at (commands are taken one by one)   *)
(*                                                                         *)
(* History: decided (answers that resolve accepted), told (the answers     *)
(* reported COMPLETED) and orphaned (see Cancel, Resolve, Settle).         *)
(* The two answers stand for allow and deny, or for two options of a       *)
(* question.  Establishments of a stream that overlap, and the way of its  *)
(* messages to the Browser, are in BridgeStreams and RelayStreams.         *)
(* Bridge: zcode/*, handle_command in runtime/mod.rs.                      *)
(***************************************************************************)
EXTENDS Integers, FiniteSets, Sequences

CONSTANTS
  Approvals,    \* invokes of PermissionRequest hooks that carry a session
  Asks,         \* invokes of the MCP tool
  MaxAnswers,   \* bound: commands of Browsers
  MaxRestarts,  \* bound: restarts of the Bridge
  MaxStarts     \* bound: establishments of streams

ASSUME ZcodeAssumption ==
  /\ Approvals \cap Asks = {} /\ Approvals \cup Asks # {}
  /\ {MaxAnswers, MaxRestarts, MaxStarts} \subseteq Nat

VARIABLES reg, dl, chan, deliv, srv, sock, hp, out, card, stream, held, snap, cmd,
          decided, told, orphaned, answers, restarts, starts

registry == <<reg, dl, chan, deliv>>
view == <<card, stream, held, snap>>
bounds == <<answers, restarts, starts>>
history == <<decided, told, orphaned, bounds>>
vars == <<registry, srv, sock, hp, out, view, cmd, history>>

Invokes == Approvals \cup Asks
Answers == {"allow", "deny"}
Replies == Answers \cup {"cancelled", "expired"}
Terminal == {"Returned", "Expired", "Local"}
Session(i) == IF i \in Asks THEN "plugin-ask" ELSE i
Sessions == {Session(i) : i \in Invokes}
Connections == [helper : BOOLEAN, reply : {"none"} \cup Replies, ack : BOOLEAN]
Commands == [ph : {"idle", "resolve", "deliver"}, i : Invokes, d : Answers]
NoCmd == [ph |-> "idle", i |-> CHOOSE i \in Invokes : TRUE, d |-> "allow"]

-----------------------------------------------------------------------------
(* The helper                                                              *)

(* invoke_once_with_ack: connect, write the invoke.                        *)
HelperCalls(i) ==
  /\ hp[i] = "idle"
  /\ hp' = [hp EXCEPT ![i] = "waiting"]
  /\ sock' = [sock EXCEPT ![i].helper = TRUE]
  /\ UNCHANGED <<registry, srv, out, view, cmd, history>>

(* run_hook: the reply is read and the native protocol output written;     *)
(* without an answer it is the native confirmation.                        *)
NativeOutput(i) == IF sock[i].reply \in Answers THEN sock[i].reply ELSE "native"

HookOutputs(i) ==
  /\ i \in Approvals /\ hp[i] = "waiting" /\ sock[i].reply # "none"
  /\ hp' = [hp EXCEPT ![i] = "output"]
  /\ out' = [out EXCEPT ![i] = NativeOutput(i)]
  /\ UNCHANGED <<registry, srv, sock, view, cmd, history>>

(* The loop of the MCP server takes the result of a call: of one its host  *)
(* has cancelled it is dropped, and the connection with it.                *)
McpOutputs(i) ==
  /\ i \in Asks /\ hp[i] \in {"waiting", "cancelled"} /\ sock[i].reply # "none"
  /\ IF hp[i] = "waiting"
     THEN /\ hp' = [hp EXCEPT ![i] = "output"]
          /\ out' = [out EXCEPT ![i] = NativeOutput(i)]
          /\ UNCHANGED sock
     ELSE /\ hp' = [hp EXCEPT ![i] = "done"]
          /\ out' = [out EXCEPT ![i] = "native"]
          /\ sock' = [sock EXCEPT ![i].helper = FALSE]
  /\ UNCHANGED <<registry, srv, view, cmd, history>>

HelperAcks(i) ==
  /\ hp[i] = "output"
  /\ sock' = [sock EXCEPT ![i].ack = TRUE, ![i].helper = FALSE]
  /\ hp' = [hp EXCEPT ![i] = "done"]
  /\ UNCHANGED <<registry, srv, out, view, cmd, history>>

(* Its own wait is over, its output failed, the Bridge closed the          *)
(* connection without a reply, or ZCode killed it.                         *)
HelperLeaves(i) ==
  /\ hp[i] \in {"waiting", "cancelled", "output"}
  /\ hp' = [hp EXCEPT ![i] = "done"]
  /\ sock' = [sock EXCEPT ![i].helper = FALSE]
  /\ out' = [out EXCEPT ![i] = IF @ = "none" THEN "native" ELSE @]
  /\ UNCHANGED <<registry, srv, view, cmd, history>>

-----------------------------------------------------------------------------
(* The cards                                                               *)

(* publish: an event of a session without stream is dropped, that of a     *)
(* stream being established is buffered.  `e` is "added" or "removed".     *)
Emit(i, e) ==
  LET s == stream[Session(i)] IN
  /\ card' = IF s = "live" THEN [card EXCEPT ![i] = (e = "added")] ELSE card
  /\ held' = IF s \in {"buffering", "taken"} THEN [held EXCEPT ![i] = e] ELSE held
  /\ UNCHANGED <<stream, snap>>

PublishAttentionAdded(i) == Emit(i, "added")
PublishAttentionRemoved(i) == Emit(i, "removed")

(* establish_session_stream for a ZCode session: events are buffered,      *)
(* the snapshot is read from the registry, and it is sent, followed by     *)
(* what was buffered.                                                      *)
StreamStarts(s) ==
  /\ stream[s] \in {"none", "live"} /\ starts < MaxStarts /\ starts' = starts + 1
  /\ stream' = [stream EXCEPT ![s] = "buffering"]
  /\ UNCHANGED <<registry, srv, sock, hp, out, card, held, snap, cmd,
                 decided, told, orphaned, answers, restarts>>

WaitingFor(s) == {i \in Invokes : Session(i) = s /\ reg[i] = "Waiting"}

RuntimeSnapshot(s) ==
  /\ stream[s] = "buffering"
  /\ stream' = [stream EXCEPT ![s] = "taken"]
  /\ snap' = [i \in Invokes |-> IF Session(i) = s THEN i \in WaitingFor(s) ELSE snap[i]]
  /\ UNCHANGED <<registry, srv, sock, hp, out, card, held, cmd, history>>

SnapshotSent(s) ==
  LET Here(i) == Session(i) = s IN
  /\ stream[s] = "taken"
  /\ stream' = [stream EXCEPT ![s] = "live"]
  /\ card' = [i \in Invokes |->
                IF ~Here(i) THEN card[i]
                ELSE IF held[i] = "none" THEN snap[i] ELSE held[i] = "added"]
  /\ snap' = [i \in Invokes |-> IF Here(i) THEN FALSE ELSE snap[i]]
  /\ held' = [i \in Invokes |-> IF Here(i) THEN "none" ELSE held[i]]
  /\ UNCHANGED <<registry, srv, sock, hp, out, cmd, history>>

-----------------------------------------------------------------------------
(* The socket server                                                       *)

(* register: records that are terminal and past their deadline are dropped *)
(* on the way.                                                             *)
Registered(i) ==
  [j \in Invokes |-> IF j = i THEN "Waiting"
                     ELSE IF dl[j] /\ reg[j] \in Terminal THEN "none" ELSE reg[j]]

(* handle_pending_invoke, up to the registration.                          *)
Accept(i) ==
  /\ hp[i] # "idle" /\ srv[i] = "idle" /\ reg[i] = "none"
  /\ reg' = Registered(i)
  /\ srv' = [srv EXCEPT ![i] = "publish"]
  /\ UNCHANGED <<dl, chan, deliv, sock, hp, out, view, cmd, history>>

Publish(i) ==
  /\ srv[i] = "publish"
  /\ srv' = [srv EXCEPT ![i] = "select"]
  /\ PublishAttentionAdded(i)
  /\ UNCHANGED <<registry, sock, hp, out, cmd, history>>

DeadlinePasses(i) ==
  /\ srv[i] # "idle" /\ ~dl[i]
  /\ dl' = [dl EXCEPT ![i] = TRUE]
  /\ UNCHANGED <<reg, chan, deliv, srv, sock, hp, out, view, cmd, history>>

(* The three arms of the select; when several are ready any may win.  With *)
(* the second and the third the receiver of the decision is dropped.       *)
SelectDecision(i) ==
  /\ srv[i] = "select" /\ chan[i] # "empty"
  /\ srv' = [srv EXCEPT ![i] = "write"]
  /\ UNCHANGED <<registry, sock, hp, out, view, cmd, history>>

SelectGone(i) ==
  /\ srv[i] = "select" /\ ~sock[i].helper
  /\ srv' = [srv EXCEPT ![i] = "gone"]
  /\ UNCHANGED <<registry, sock, hp, out, view, cmd, history>>

SelectTimeout(i) ==
  /\ srv[i] = "select" /\ dl[i]
  /\ srv' = [srv EXCEPT ![i] = "timeout"]
  /\ UNCHANGED <<registry, sock, hp, out, view, cmd, history>>

(* complete_delivery: only a record that is still Decided changes, and     *)
(* only then the card is removed.                                          *)
CompleteDelivery(i, o) ==
  /\ srv' = [srv EXCEPT ![i] = "done"]
  /\ IF reg[i] = "Decided"
     THEN /\ reg' = [reg EXCEPT ![i] = IF o = "delivered" THEN "Returned" ELSE "Local"]
          /\ deliv' = [deliv EXCEPT ![i] = o]
          /\ PublishAttentionRemoved(i)
     ELSE UNCHANGED <<reg, deliv, view>>

(* write_reply: it fails if the helper has closed its end.                 *)
WriteReply(i) ==
  /\ srv[i] = "write"
  /\ IF sock[i].helper
     THEN /\ sock' = [sock EXCEPT ![i].reply =
                        IF chan[i] = "dropped" THEN "cancelled" ELSE chan[i]]
          /\ srv' = [srv EXCEPT ![i] = "ack"]
          /\ UNCHANGED <<reg, deliv, view>>
     ELSE CompleteDelivery(i, "unconfirmed") /\ UNCHANGED sock
  /\ UNCHANGED <<dl, chan, hp, out, cmd, history>>

(* wait_delivery_ack: the ack; or the end of the connection or             *)
(* DELIVERY_ACK_WAIT_MS.                                                   *)
WaitAckAnyEvent(i) ==  \* mutant: any event of the connection counts
  /\ srv[i] = "ack" /\ (sock[i].ack \/ ~sock[i].helper)
  /\ CompleteDelivery(i, "delivered")
  /\ UNCHANGED <<dl, chan, sock, hp, out, cmd, history>>
WaitAck(i) ==
  /\ srv[i] = "ack"
  /\ CompleteDelivery(i, IF sock[i].ack THEN "delivered" ELSE "unconfirmed")
  /\ UNCHANGED <<dl, chan, sock, hp, out, cmd, history>>

(* settle_without_decision and the reply `expired`.  `Settles` is          *)
(* expire_or_already_expired, or cancel; finalize_decided_after_race takes *)
(* a record whose decision nobody can deliver any more.  A late resolve    *)
(* may have expired the record when the end of the connection wins, or the *)
(* register of another invoke dropped it since: that card stays.           *)
Settles(i) ==
  IF srv[i] = "timeout" THEN reg[i] \in {"Waiting", "Expired"} ELSE reg[i] = "Waiting"

FinalizeNever(i) == FALSE  \* mutant
FinalizeDecidedAfterRace(i) == reg[i] = "Decided"

Settle(i) ==
  /\ srv[i] \in {"gone", "timeout"}
  /\ srv' = [srv EXCEPT ![i] = "done"]
  /\ sock' = [sock EXCEPT ![i].reply = IF sock[i].helper THEN "expired" ELSE @]
  /\ IF Settles(i) \/ FinalizeDecidedAfterRace(i)
     THEN /\ reg' = [reg EXCEPT ![i] =
                       IF Settles(i) /\ srv[i] = "gone" THEN "Local" ELSE "Expired"]
          /\ PublishAttentionRemoved(i)
     ELSE UNCHANGED <<reg, view>>
  /\ orphaned' = IF reg[i] = "none" \/ (srv[i] = "gone" /\ reg[i] = "Expired")
                 THEN orphaned \cup {i} ELSE orphaned
  /\ UNCHANGED <<dl, chan, deliv, hp, out, cmd, decided, told, bounds>>

(* A cancel event (notifications/cancelled of the MCP host), on a          *)
(* connection of its own: a waiting record is cancelled, and the card of   *)
(* any record is removed - even one that is not published yet: that card   *)
(* appears afterwards and nothing removes it.                              *)
Cancel(i) ==
  /\ i \in Asks /\ hp[i] = "waiting"
  /\ hp' = [hp EXCEPT ![i] = "cancelled"]
  /\ IF reg[i] = "Waiting"
     THEN reg' = [reg EXCEPT ![i] = "Local"] /\ chan' = [chan EXCEPT ![i] = "dropped"]
     ELSE UNCHANGED <<reg, chan>>
  /\ IF reg[i] = "none" THEN UNCHANGED view ELSE PublishAttentionRemoved(i)
  /\ orphaned' = IF reg[i] = "Waiting" /\ srv[i] = "publish"
                 THEN orphaned \cup {i} ELSE orphaned
  /\ UNCHANGED <<dl, deliv, srv, sock, out, cmd, decided, told, bounds>>

-----------------------------------------------------------------------------
(* A Browser's answer: handle_command                                      *)

(* matches_command finds a record of this kind and session.                *)
Match(i, d) ==
  /\ cmd.ph = "idle" /\ answers < MaxAnswers
  /\ reg[i] # "none"
  /\ cmd' = [ph |-> "resolve", i |-> i, d |-> d] /\ answers' = answers + 1
  /\ UNCHANGED <<registry, srv, sock, hp, out, view, decided, told, orphaned, restarts, starts>>

(* resolve.  With the receiver gone - the select has ended otherwise and   *)
(* is about to settle - the record becomes HandledLocally, for which       *)
(* settle_without_decision then has nothing to do: the card stays.         *)
ResolvableTwice(i) == reg[i] \in {"Waiting", "Decided"} /\ ~dl[i]  \* mutant
Resolvable(i) == reg[i] = "Waiting" /\ ~dl[i]

Resolve ==
  LET i == cmd.i IN
  /\ cmd.ph = "resolve"
  /\ IF Resolvable(i) /\ srv[i] \in {"publish", "select"}
     THEN /\ reg' = [reg EXCEPT ![i] = "Decided"]
          /\ chan' = [chan EXCEPT ![i] = cmd.d]
          /\ cmd' = [cmd EXCEPT !.ph = "deliver"]
          /\ decided' = [decided EXCEPT ![i] = Append(@, cmd.d)]
          /\ UNCHANGED orphaned
     ELSE /\ reg' = [reg EXCEPT ![i] =
                       IF @ # "Waiting" THEN @ ELSE IF dl[i] THEN "Expired" ELSE "Local"]
          /\ orphaned' = IF reg[i] = "Waiting" /\ ~dl[i] THEN orphaned \cup {i} ELSE orphaned
          /\ cmd' = NoCmd
          /\ UNCHANGED <<chan, decided>>
  /\ UNCHANGED <<dl, deliv, srv, sock, hp, out, view, told, bounds>>

(* take_delivery and the wait for the outcome, which is a little longer    *)
(* than the server's; a record that is gone has no channel.                *)
AwaitDelivery ==
  /\ cmd.ph = "deliver"
  /\ told' = IF reg[cmd.i] # "none" /\ deliv[cmd.i] = "delivered"
             THEN told \cup {[i |-> cmd.i, d |-> cmd.d]} ELSE told
  /\ cmd' = NoCmd
  /\ UNCHANGED <<registry, srv, sock, hp, out, view, decided, orphaned, bounds>>

-----------------------------------------------------------------------------
(* The Bridge restarts: registry, streams and connections are gone, and    *)
(* the cards with them; the next stream starts from its own snapshot.      *)
BridgeRestarts ==
  /\ restarts < MaxRestarts /\ restarts' = restarts + 1
  /\ reg' = [i \in Invokes |-> "none"]
  /\ srv' = [i \in Invokes |-> IF srv[i] = "idle" THEN "idle" ELSE "done"]
  /\ stream' = [s \in Sessions |-> "none"]
  /\ card' = [i \in Invokes |-> FALSE] /\ snap' = card' /\ held' = [i \in Invokes |-> "none"]
  /\ cmd' = NoCmd
  /\ UNCHANGED <<dl, chan, deliv, sock, hp, out, decided, told, orphaned, answers, starts>>

-----------------------------------------------------------------------------
(* A Browser has subscribed to the streams of all sessions.                *)
Init ==
  /\ reg = [i \in Invokes |-> "none"] /\ dl = [i \in Invokes |-> FALSE]
  /\ chan = [i \in Invokes |-> "empty"] /\ deliv = [i \in Invokes |-> "open"]
  /\ srv = [i \in Invokes |-> "idle"]
  /\ sock = [i \in Invokes |-> [helper |-> FALSE, reply |-> "none", ack |-> FALSE]]
  /\ hp = [i \in Invokes |-> "idle"] /\ out = [i \in Invokes |-> "none"]
  /\ card = [i \in Invokes |-> FALSE] /\ cmd = NoCmd
  /\ stream = [s \in Sessions |-> "live"]
  /\ held = [i \in Invokes |-> "none"] /\ snap = [i \in Invokes |-> FALSE]
  /\ decided = [i \in Invokes |-> <<>>] /\ told = {} /\ orphaned = {}
  /\ answers = 0 /\ restarts = 0 /\ starts = 0

ServerSteps(i) ==
  \/ Accept(i) \/ Publish(i) \/ SelectDecision(i) \/ SelectGone(i) \/ SelectTimeout(i)
  \/ WriteReply(i) \/ WaitAck(i) \/ Settle(i)

Next ==
  \/ \E i \in Invokes :
       \/ HelperCalls(i) \/ HookOutputs(i) \/ McpOutputs(i) \/ HelperAcks(i)
       \/ HelperLeaves(i) \/ Cancel(i) \/ DeadlinePasses(i) \/ ServerSteps(i)
       \/ \E d \in Answers : Match(i, d)
  \/ \E s \in Sessions : StreamStarts(s) \/ RuntimeSnapshot(s) \/ SnapshotSent(s)
  \/ Resolve \/ AwaitDelivery \/ BridgeRestarts

Spec == Init /\ [][Next]_vars

-----------------------------------------------------------------------------
(* Properties                                                              *)

(* Types; a record exists only from the accepted connection on.            *)
TypeOK ==
  /\ reg \in [Invokes -> {"none", "Waiting", "Decided"} \cup Terminal]
  /\ dl \in [Invokes -> BOOLEAN]
  /\ chan \in [Invokes -> {"empty", "dropped"} \cup Answers]
  /\ deliv \in [Invokes -> {"open", "delivered", "unconfirmed"}]
  /\ srv \in [Invokes -> {"idle", "publish", "select", "write", "gone", "timeout", "ack", "done"}]
  /\ sock \in [Invokes -> Connections]
  /\ hp \in [Invokes -> {"idle", "waiting", "cancelled", "output", "done"}]
  /\ out \in [Invokes -> {"none", "native"} \cup Answers]
  /\ card \in [Invokes -> BOOLEAN] /\ snap \in [Invokes -> BOOLEAN]
  /\ stream \in [Sessions -> {"none", "live", "buffering", "taken"}]
  /\ held \in [Invokes -> {"none", "added", "removed"}]
  /\ cmd \in Commands
  /\ answers \in 0..MaxAnswers /\ restarts \in 0..MaxRestarts /\ starts \in 0..MaxStarts
  /\ decided \in [Invokes -> Seq(Answers)] /\ orphaned \subseteq Invokes
  /\ told \subseteq [i : Invokes, d : Answers]
  /\ \A i \in Invokes : srv[i] = "idle" => reg[i] = "none"

(* A Browser that is told COMPLETED gave the answer the native runtime     *)
(* got: not one that was lost on the way back, nor one the helper no       *)
(* longer waited for (R2-ZC01: write_reply, wait_delivery_ack,             *)
(* complete_delivery, take_delivery).                                      *)
CompletedWasOutput ==
  \A t \in told : out[t.i] = t.d

(* The registry accepts one answer per invoke, whatever arrives late or    *)
(* twice, and what the runtime is given is that answer: a timeout, a       *)
(* cancellation and a restart lead to the native confirmation, never to an *)
(* approval (resolve, settle_without_decision, run_hook).                  *)
OneDecision ==
  \A i \in Invokes :
    /\ Len(decided[i]) <= 1
    /\ out[i] \in Answers => decided[i] = <<out[i]>>

(* When the server is done with an invoke its record is closed and its     *)
(* card is gone, whoever disappeared on the way, whichever arm of the      *)
(* select won and however the events crossed the snapshot of a new stream  *)
(* - except for an invoke that was cancelled before its card was           *)
(* published, or answered while the server was giving it up, or too late   *)
(* by a Browser while its helper was leaving (settle_without_decision,     *)
(* complete_delivery, establish_session_stream).  While a stream is being  *)
(* established the Browser still shows the old one.                        *)
NothingLeftBehind ==
  \A i \in Invokes :
    srv[i] = "done" =>
      /\ reg[i] \notin {"Waiting", "Decided"}
      /\ card[i] => i \in orphaned \/ stream[Session(i)] \in {"buffering", "taken"}

=============================================================================
