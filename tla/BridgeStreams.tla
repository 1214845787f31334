---------------------------- MODULE BridgeStreams ---------------------------
(***************************************************************************)
(* The Bridge's side of a stream (apps/bridge/src/runtime/mod.rs): the list *)
(* stream or the stream of one session, its establishment by handlers that  *)
(* are spawned concurrently, the pump of domain events, the observer, and   *)
(* the queue to the Relay that outlives connections (transport/mod.rs).     *)
(*                                                                          *)
(* The state lock makes every locked section one action; a handler is in    *)
(* between while it awaits. Desktop's content is a version; every change    *)
(* produces an event that the adapter queues for the pump. What the Relay   *)
(* does with the messages is in module RelayStreams.                        *)
(***************************************************************************)
EXTENDS Integers, Sequences, Functions

CONSTANTS
    Targets,        \* which of "list" and "session" are explored
    Tasks,          \* handlers that may run at the same time
    OutMax,         \* outbound_capacity
    MaxChanges,     \* changes at Desktop
    MaxStarts,      \* stream establishments
    MaxObserves,    \* observations that send something
    MaxLinks,       \* connections to the Relay
    MaxEnds         \* Unsubscribe messages

ASSUME BridgeStreamsAssumption ==
    /\ Targets \subseteq {"list", "session"} /\ Targets # {}
    /\ OutMax \in Nat \ {0}
    /\ {MaxChanges, MaxStarts, MaxObserves, MaxLinks, MaxEnds} \subseteq Nat

VARIABLES
    target,
    ver,        \* the content at Desktop
    events,     \* channel of attach_session: events the pump has not taken
    stream,     \* StreamState, or absent
    counter,    \* epoch_counter
    task,       \* the establish handlers
    observer,   \* the observer's snapshot between read and send
    cache,      \* SessionCache: has_snapshot and runtime_revision
    out,        \* outbound_rx: messages not yet sent
    link,       \* the connection: up, and whether a resync is due
    asked,      \* Subscribe messages on their way to the Bridge
    budget,
    given       \* history of the epoch: newest snapshot and events the queue took,
                \* events it dropped, whether it took the handler's own snapshot

vars == <<target, ver, events, stream, counter, task, observer, cache, out, link,
          asked, budget, given>>
wireVars == <<out, link, asked>>

Streams == [open : BOOLEAN, epoch : Nat, next : Nat \ {0}, buffering : BOOLEAN,
            buffer : Seq(Nat)]
Handlers == [at : {"idle", "begun", "reading", "sending"}, epoch : Nat, ver : Nat,
             ok : BOOLEAN]
Messages == [type : {"snapshot", "batch"}, epoch : Nat, seq : Nat, ver : Nat]
            \cup [type : {"subscribed"}, epoch : Nat]
Budgets == [changes : Nat, starts : Nat, observes : Nat, links : Nat, ends : Nat]
History == [snap : Nat, events : SUBSET Nat, lost : SUBSET Nat, own : BOOLEAN]
NoStream == [open |-> FALSE, epoch |-> 0, next |-> 1, buffering |-> FALSE, buffer |-> <<>>]
Idle == [at |-> "idle", epoch |-> 0, ver |-> 0, ok |-> TRUE]
Nothing == [snap |-> 0, events |-> {}, lost |-> {}, own |-> FALSE]

Init ==
    /\ target \in Targets
    /\ ver = 0
    /\ events = <<>>
    /\ stream = NoStream
    /\ counter = 0
    /\ task = [t \in Tasks |-> Idle]
    /\ observer = Idle
    /\ cache = [has |-> FALSE, revision |-> 0]
    /\ out = <<>>
    /\ link = [up |-> FALSE, resync |-> FALSE]
    /\ asked = 0
    /\ budget = [changes |-> MaxChanges, starts |-> MaxStarts, observes |-> MaxObserves,
                 links |-> MaxLinks, ends |-> MaxEnds]
    /\ given = Nothing

---------------------------------------------------------------------------
\* send_envelope: a full queue drops the message.
\* Mutant SendUnbounded: nothing is ever refused.
SendUnbounded(q, msgs) == q \o msgs
Send(q, msgs) == LET all == q \o msgs
                 IN  IF Len(all) <= OutMax THEN all ELSE SubSeq(all, 1, OutMax)

\* assign_sequence and send_stream_locked, for a sequence of payloads: they
\* take the stream's current epoch and its next numbers.
Numbered(s, kinds, vers) ==
    [i \in DOMAIN vers |-> [type |-> kinds[i], epoch |-> s.epoch,
                            seq |-> s.next + i - 1, ver |-> vers[i]]]

\* The queue takes the i-th of the messages that are sent now.
Fits(i) == Len(out) + i <= OutMax

\* What the epoch has given out, or lost to the full queue.
Give(g, snap, evs, dropped) ==
    [g EXCEPT !.snap = IF snap > @ THEN snap ELSE @,
              !.events = @ \cup evs, !.lost = @ \cup dropped]
GiveSnapshot(g, v) == Give(g, IF Fits(1) THEN v ELSE 0, {}, {})
GiveEvent(g, v) == IF Fits(1) THEN Give(g, 0, {v}, {}) ELSE Give(g, 0, {}, {v})

---------------------------------------------------------------------------
\* Desktop changes; the adapter queues the event (watcher.send awaits room).
Change ==
    /\ budget.changes > 0
    /\ budget' = [budget EXCEPT !.changes = @ - 1]
    /\ ver' = ver + 1
    /\ events' = Append(events, ver + 1)
    /\ UNCHANGED <<target, stream, counter, task, observer, cache, wireVars, given>>

\* The pump: dispatch_domain_event. Without a stream the event is not sent,
\* while a snapshot is being built it is kept, otherwise it is sent.
Dispatch ==
    /\ events # <<>>
    /\ events' = Tail(events)
    /\ \/ /\ ~stream.open
          /\ UNCHANGED <<stream, out, given>>
       \/ /\ stream.open /\ stream.buffering
          /\ stream' = [stream EXCEPT !.buffer = Append(@, Head(events))]
          /\ UNCHANGED <<out, given>>
       \/ /\ stream.open /\ ~stream.buffering
          /\ stream' = [stream EXCEPT !.next = @ + 1]
          /\ out' = Send(out, Numbered(stream, <<"batch">>, <<Head(events)>>))
          /\ given' = GiveEvent(given, Head(events))
    /\ UNCHANGED <<target, ver, counter, task, observer, cache, link, asked, budget>>

\* First locked section of establish_list_stream and establish_session_stream:
\* a new epoch, numbers from 1, and events are kept from here on.
\* Mutant BeginKeepingNumbers: the epoch is taken only once.
BeginKeepingNumbers(t) ==
    /\ task[t].at = "idle" /\ budget.starts > 0
    /\ budget' = [budget EXCEPT !.starts = @ - 1]
    /\ counter' = IF stream.open THEN counter ELSE counter + 1
    /\ stream' = [open |-> TRUE, epoch |-> counter', next |-> 1,
                  buffering |-> TRUE, buffer |-> <<>>]
    /\ task' = [task EXCEPT ![t] = [Idle EXCEPT !.at = "begun", !.epoch = counter']]
    /\ given' = Nothing
Begin(t) ==
    /\ task[t].at = "idle" /\ budget.starts > 0
    /\ budget' = [budget EXCEPT !.starts = @ - 1]
    /\ counter' = counter + 1
    /\ stream' = [open |-> TRUE, epoch |-> counter + 1, next |-> 1,
                  buffering |-> TRUE, buffer |-> <<>>]
    /\ task' = [task EXCEPT ![t] = [Idle EXCEPT !.at = "begun", !.epoch = counter + 1]]
    /\ given' = Nothing

\* handle_subscribe, spawned by handle_envelope.
HandleSubscribe(t) ==
    /\ asked > 0
    /\ Begin(t)
    /\ asked' = asked - 1
    /\ UNCHANGED <<target, ver, events, observer, cache, out, link>>

\* resync_inner, spawned when the connection is made: existing streams only.
ResyncInner(t) ==
    /\ link.resync
    /\ link' = [link EXCEPT !.resync = FALSE]
    /\ \/ stream.open /\ Begin(t)
       \/ ~stream.open /\ UNCHANGED <<stream, counter, task, budget, given>>
    /\ UNCHANGED <<target, ver, events, observer, cache, out, asked>>

\* handle_stream_resync for a known stream.
HandleStreamResync(t) ==
    /\ link.up /\ stream.open
    /\ Begin(t)
    /\ UNCHANGED <<target, ver, events, observer, cache, wireVars>>

\* handle_unsubscribe: the stream is forgotten, running handlers are not told.
HandleUnsubscribe ==
    /\ link.up /\ stream.open /\ budget.ends > 0
    /\ budget' = [budget EXCEPT !.ends = @ - 1]
    /\ stream' = NoStream
    /\ given' = Nothing
    /\ UNCHANGED <<target, ver, events, counter, task, observer, cache, wireVars>>

\* send_subscribed, after the lock was released.
Announce(t) ==
    /\ task[t].at = "begun"
    /\ task' = [task EXCEPT ![t].at = "reading"]
    /\ out' = Send(out, <<[type |-> "subscribed", epoch |-> task[t].epoch]>>)
    /\ UNCHANGED <<target, ver, events, stream, counter, observer, cache, link, asked,
                   budget, given>>

\* list_sessions, runtime_snapshot, refresh_snapshot: the content as of now.
\* When list_sessions fails, an empty page is sent in place of the content.
Read(t) ==
    /\ task[t].at = "reading"
    /\ \/ task' = [task EXCEPT ![t].at = "sending", ![t].ver = ver]
       \/ /\ target = "list"
          /\ task' = [task EXCEPT ![t].at = "sending", ![t].ok = FALSE]
    /\ UNCHANGED <<target, ver, events, stream, counter, observer, cache, wireVars,
                   budget, given>>

\* note_snapshot; the list stream has no cache.
NoteSnapshot(v) ==
    cache' = IF target = "session" THEN [has |-> TRUE, revision |-> v] ELSE cache

\* The kept events the queue takes behind the snapshot, and whether it takes
\* the content the handler of the newest epoch has read.
Flushed == {i \in DOMAIN stream.buffer : Fits(i + 1)}
Own(t) == task[t].epoch = stream.epoch /\ task[t].ok /\ Fits(1)

\* Second locked section: the snapshot, then the kept events, under the
\* epoch the stream has by now.
\* Mutant FinishForgetting: what was kept is not sent.
FinishForgetting(t) ==
    /\ task[t].at = "sending"
    /\ task' = [task EXCEPT ![t] = Idle]
    /\ NoteSnapshot(task[t].ver)
    /\ IF ~stream.open THEN UNCHANGED <<stream, out, given>>
       ELSE /\ stream' = [stream EXCEPT !.buffering = FALSE, !.buffer = <<>>, !.next = @ + 1]
            /\ out' = Send(out, Numbered(stream, <<"snapshot">>, <<task[t].ver>>))
            /\ given' = [GiveSnapshot(given, task[t].ver) EXCEPT !.own = @ \/ Own(t)]
    /\ UNCHANGED <<target, ver, events, counter, observer, link, asked, budget>>
Finish(t) ==
    /\ task[t].at = "sending"
    /\ task' = [task EXCEPT ![t] = Idle]
    /\ NoteSnapshot(task[t].ver)
    /\ IF ~stream.open THEN UNCHANGED <<stream, out, given>>
       ELSE LET vers == <<task[t].ver>> \o stream.buffer
                kinds == [i \in DOMAIN vers |-> IF i = 1 THEN "snapshot" ELSE "batch"]
            IN  /\ stream' = [stream EXCEPT !.buffering = FALSE, !.buffer = <<>>,
                                            !.next = @ + Len(vers)]
                /\ out' = Send(out, Numbered(stream, kinds, vers))
                /\ given' = [Give(given, IF Fits(1) THEN task[t].ver ELSE 0,
                                  {stream.buffer[i] : i \in Flushed},
                                  {stream.buffer[i] : i \in DOMAIN stream.buffer \ Flushed})
                               EXCEPT !.own = @ \/ Own(t)]
    /\ UNCHANGED <<target, ver, events, counter, observer, link, asked, budget>>

\* No snapshot from Desktop: a ProtocolError, and the stream stops keeping
\* events; what was kept stays where it is.
Fail(t) ==
    /\ target = "session" /\ task[t].at = "reading"
    /\ task' = [task EXCEPT ![t] = Idle]
    /\ stream' = [stream EXCEPT !.buffering = FALSE]
    /\ UNCHANGED <<target, ver, events, counter, observer, cache, wireVars, budget, given>>

\* observe_session for a session with a snapshot, and refresh_list_summary:
\* the content is read and, after an await, sent as a snapshot when it has
\* changed (session) or the epoch is still the same (list).
ObserveRead ==
    /\ observer.at = "idle" /\ budget.observes > 0
    /\ budget' = [budget EXCEPT !.observes = @ - 1]
    /\ target = "session" => cache.has
    /\ target = "list" => stream.open
    /\ observer' = [Idle EXCEPT !.at = "sending", !.epoch = stream.epoch, !.ver = ver]
    /\ UNCHANGED <<target, ver, events, stream, counter, task, cache, wireVars, given>>
ObserveSend ==
    /\ observer.at = "sending"
    /\ observer' = Idle
    /\ NoteSnapshot(observer.ver)
    /\ IF /\ stream.open /\ ~stream.buffering
          /\ IF target = "session" THEN observer.ver # cache.revision
                                   ELSE observer.epoch = stream.epoch
       THEN /\ stream' = [stream EXCEPT !.next = @ + 1]
            /\ out' = Send(out, Numbered(stream, <<"snapshot">>, <<observer.ver>>))
            /\ given' = GiveSnapshot(given, observer.ver)
       ELSE UNCHANGED <<stream, out, given>>
    /\ UNCHANGED <<target, ver, events, counter, task, link, asked, budget>>

---------------------------------------------------------------------------
\* run_loop, run_session: a connection is made; on_connected asks for a
\* resync, the Relay registers the Bridge and subscribes.
Connect ==
    /\ ~link.up /\ budget.links > 0
    /\ budget' = [budget EXCEPT !.links = @ - 1]
    /\ link' = [up |-> TRUE, resync |-> TRUE]
    /\ asked' = 1
    /\ UNCHANGED <<target, ver, events, stream, counter, task, observer, cache, out, given>>

\* The connection is lost with what was in flight; the rest of the queue stays.
Disconnect ==
    /\ link.up
    /\ link' = [link EXCEPT !.up = FALSE]
    /\ asked' = 0
    /\ \E n \in 0..Len(out) : out' = SubSeq(out, n + 1, Len(out))
    /\ UNCHANGED <<target, ver, events, stream, counter, task, observer, cache,
                   budget, given>>

\* run_session writes the next message; the Relay takes it.
Transmit ==
    /\ link.up /\ out # <<>>
    /\ out' = Tail(out)
    /\ UNCHANGED <<target, ver, events, stream, counter, task, observer, cache, link,
                   asked, budget, given>>

Next ==
    \/ Change \/ Dispatch \/ HandleUnsubscribe
    \/ \E t \in Tasks : \/ HandleSubscribe(t) \/ ResyncInner(t) \/ HandleStreamResync(t)
                        \/ Announce(t) \/ Read(t) \/ Finish(t) \/ Fail(t)
    \/ ObserveRead \/ ObserveSend
    \/ Connect \/ Disconnect \/ Transmit

Spec == Init /\ [][Next]_vars

---------------------------------------------------------------------------
\* The variables' types, the newest epoch and the queue's limit.
TypeOK ==
    /\ target \in Targets /\ ver \in 0..MaxChanges /\ counter \in 0..MaxStarts
    /\ events \in Seq(Nat) /\ stream \in Streams /\ stream.epoch <= counter
    /\ task \in [Tasks -> Handlers] /\ observer \in Handlers
    /\ cache \in [has : BOOLEAN, revision : Nat]
    /\ out \in Seq(Messages) /\ Len(out) <= OutMax
    /\ link \in [up : BOOLEAN, resync : BOOLEAN] /\ asked \in 0..1
    /\ budget \in Budgets
    /\ given \in History

\* However the handlers, the pump and the observer interleave, numbers leave
\* in the order they are assigned and none is used twice: along the queue the
\* epochs never go back, and within an epoch the numbers rise (the state lock
\* is held from assign_sequence to the send).
NumbersAscend ==
    \A i, j \in DOMAIN out :
        LET a == out[i] b == out[j] IN
        (i < j /\ a.type # "subscribed" /\ b.type # "subscribed") =>
            a.epoch < b.epoch \/ (a.epoch = b.epoch /\ a.seq < b.seq)

\* Once the queue has taken the content that the newest establishment read, no
\* change is skipped, whatever older handlers still send or fail at: each change
\* at Desktop is contained in some snapshot of the epoch that the queue took, or
\* the queue took it as an event of the epoch, or the full queue dropped that
\* event, or it is still on its way to the pump.  An establishment whose snapshot
\* the queue dropped, or whose list could not be read, promises nothing; nor does
\* the newest snapshot come last (README, section 4).
NothingSkipped ==
    stream.open /\ given.own =>
        \A v \in 1..ver :
            \/ v <= given.snap \/ v \in given.events \/ v \in given.lost
            \/ v \in Range(events)
=============================================================================
