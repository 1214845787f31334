---------------------------- MODULE RelayStreams ----------------------------
(***************************************************************************)
(* Subscriptions in the Relay (apps/relay/src/realtime/mod.rs): one         *)
(* downstream stream of one owner - the session list fed by every online    *)
(* Bridge, or the detail stream of one session - its upstream bindings, its *)
(* snapshot cache and replay window, and the browsers that follow it.       *)
(*                                                                          *)
(* The Hub's lock makes every handler one action; browser_subscribe takes   *)
(* the lock twice and is two actions. The Bridge is the environment, with   *)
(* the locked sections of module BridgeStreams: establishments overlap, a   *)
(* snapshot is read before it is sent, the outbound queue may drop what it  *)
(* is given. The browser's side is the sequence gate of the web client      *)
(* (apps/web/src/transport/real-transport.ts). A device's content is its    *)
(* version: event number n brings n - 1 to n.                               *)
(***************************************************************************)
EXTENDS StreamBuffer, FiniteSets

CONSTANTS
    Devices, Conns,
    Scenes          \* what is explored: a target and the bounds of its exploration

\* A scene: the kinds of events the Bridges emit; how many events (of all devices),
\* Subscribe messages of browsers, establishments of a Bridge and connections of
\* all Bridges there are; how many rare steps (a link, a Subscribe or messages in a
\* full queue are lost, a snapshot is missing or repeated, frames age, memory is
\* short, the Relay closes a browser).
Bounds == [target : {"list", "session"}, kinds : SUBSET (Kinds \ {"presence"}),
           events : Nat, subscribes : Nat, epochs : Nat, links : Nat, rare : Nat]
ASSUME StreamsAssumption == Scenes \subseteq Bounds /\ Scenes # {}

VARIABLES
    scene,      \* the target of the stream and the bounds; never changes
    bridge,     \* per device: version, StreamState, the establish handlers
    up,         \* per device: the queue to the Relay, kept between connections
    asked,      \* per device: Subscribe messages on their way to the Bridge
    online,     \* HubInner.bridges
    loop,       \* per device: bridge_session tasks of the Relay
    hub,        \* the DStream (exists, id, epoch, next, stores, subs, ups)
    attaching,  \* browsers between the two halves of browser_subscribe
    registered, \* HubInner.browsers
    outbox,     \* per browser connection
    client,     \* per browser: coordinates, recovery, content
    budget,     \* what is left of the bounds
    told,       \* history: what the messages a Bridge has queued amount to
    mixed,      \* history: a stashed batch was published out of its order
    partial     \* history: the browsers whose latest replay had gaps

vars == <<scene, bridge, up, asked, online, loop, hub, attaching, registered, outbox,
          client, budget, told, mixed, partial>>
browserVars == <<attaching, registered, client>>
historyVars == <<told, mixed, partial>>

\* What the stream is about, the device of the session, the devices involved.
target == scene.target
Home == CHOOSE d \in Devices : TRUE
Followed == IF target = "list" THEN Devices ELSE {Home}

NoStream(id) ==
    [exists |-> FALSE, id |-> id, epoch |-> 1, next |-> 1, snaps |-> <<>>,
     pending |-> <<>>, buffer |-> <<>>, aged |-> 0, subs |-> <<>>, ups |-> <<>>]
FreshBinding == [epoch |-> 0, last |-> 0, covers |-> 0, received |-> FALSE]
Blank == [d \in Devices |-> [ver |-> 0, whole |-> FALSE]]
FreshClient ==
    [up |-> FALSE, sid |-> 0, epoch |-> 0, last |-> 0, wants |-> FALSE,
     recovers |-> FALSE, sent |-> FALSE, view |-> Blank]
FreshBridge ==
    [ver |-> 0, off |-> 0, open |-> FALSE, epoch |-> 0, seq |-> 0, buffering |-> FALSE,
     buffer |-> <<>>, jobs |-> <<>>, deaf |-> FALSE, resync |-> FALSE]

Init ==
    /\ scene \in Scenes
    /\ bridge = [d \in Devices |-> FreshBridge]
    /\ up = [d \in Devices |-> <<>>]
    /\ asked = [d \in Devices |-> 0]
    /\ online = {}
    /\ loop = [d \in Devices |-> [at |-> "off", ends |-> 0, parts |-> 0]]
    /\ hub = NoStream(1)
    /\ attaching = {}
    /\ registered = {}
    /\ outbox = [c \in Conns |-> NewOutbox]
    /\ client = [c \in Conns |-> FreshClient]
    /\ budget = [events |-> scene.events, subscribes |-> scene.subscribes,
                 links |-> scene.links, rare |-> scene.rare]
    /\ told = Blank
    /\ mixed = FALSE
    /\ partial = {}

---------------------------------------------------------------------------
\* Handlers as functions of s = [hub, outbox, asked].

State == [hub |-> hub, outbox |-> outbox, asked |-> asked]
Becomes(s) == hub' = s.hub /\ outbox' = s.outbox /\ asked' = s.asked

ResyncRequired(h) == [type |-> "resync", sid |-> h.id]
Subscribed(h, base) == [type |-> "subscribed", sid |-> h.id, epoch |-> h.epoch, base |-> base]

\* send_to_bridge_locked: without a live connection the Subscribe is lost.
Ask(s, devs) ==
    [s EXCEPT !.asked = [d \in Devices |->
        IF d \in devs \cap online /\ loop[d].at # "off" THEN @[d] + 1 ELSE @[d]]]

Awaiting(h) == [h EXCEPT !.subs = [c \in DOMAIN @ |-> TRUE]]
Emptied(h) == [h EXCEPT !.snaps = <<>>, !.pending = <<>>, !.buffer = <<>>]

\* A ResyncRequired for every subscriber.
Notify(s) ==
    [s EXCEPT !.outbox = [c \in Conns |->
        IF c \in DOMAIN s.hub.subs \cap registered
        THEN PushDirect(@[c], ResyncRequired(s.hub)) ELSE @[c]]]

\* detach_failed_subscriber, for a set of connections.
Detach(s, cs) ==
    [s EXCEPT
       !.hub.subs = Restrict(@, DOMAIN @ \ cs),
       !.outbox = [c \in Conns |->
          IF c \in cs \cap registered
          THEN Close(PushDirect(@[c], ResyncRequired(s.hub))) ELSE @[c]]]

\* refresh_snapshot_envs: the stores are emptied, everybody waits, and the
\* bindings that are not waiting for a snapshot anyway (or all) ask again.
Refresh(s, force) ==
    LET again == {d \in DOMAIN s.hub.ups : force \/ s.hub.ups[d].received}
    IN  Ask([s EXCEPT !.hub = [Awaiting(Emptied(@)) EXCEPT
                !.ups = [d \in DOMAIN @ |->
                           IF d \in again THEN FreshBinding ELSE @[d]]]],
            again)

\* Subscribed and the replay for one subscriber: all of it is queued and the
\* subscriber becomes active, or it is detached.
DeliverReplay(s, c) ==
    LET r == Replay(s.hub.snaps, s.hub.buffer, s.hub.next)
        o == PushDirect(s.outbox[c], Subscribed(s.hub, r.base))
    IN  IF Fits(o, Len(r.frames))
        THEN [s EXCEPT !.outbox[c] = PushFrames(o, r.frames), !.hub.subs[c] = FALSE]
        ELSE Detach([s EXCEPT !.outbox[c] = o], {c})

\* The replay leads a new subscriber to everything published so far: it has a
\* snapshot of every device that gave one, and no gaps after the first frame.
WholeReplay(h) ==
    LET frames == Replay(h.snaps, h.buffer, h.next).frames
    IN  /\ Contiguous(frames, frames[1].seq, h.next)
        /\ \A d \in DOMAIN h.ups : h.ups[d].received =>
              \E i \in DOMAIN h.snaps : h.snaps[i].dev = d
Replayed(h, cs) ==
    partial' = (partial \ cs) \cup (IF cs = {} \/ WholeReplay(h) THEN {} ELSE cs)


\* A numbered frame enters the window and goes to the active subscribers;
\* a slow one is detached, a reset window is announced instead.
Publish(s, f, announce) ==
    LET kept == Insert(s.hub.buffer, f, s.hub.aged)
        s1 == [s EXCEPT !.hub.buffer = kept.items, !.hub.next = @ + 1]
        active == {c \in DOMAIN s.hub.subs \cap registered : ~s.hub.subs[c]}
        slow == {c \in active : ~s.outbox[c].closed /\ ~Fits(s.outbox[c], 1)}
    IN  IF kept.reset /\ announce
        THEN Notify(s1)
        ELSE Detach([s1 EXCEPT !.outbox = [c \in Conns |->
                       IF c \in active /\ Fits(@[c], 1) THEN PushFrames(@[c], <<f>>)
                       ELSE @[c]]], slow)

\* A batch that comes before the stream has any snapshot is stashed; when the
\* stash overflows the subscribers are told and the snapshots asked for again.
MustStash(h, d) == ~h.ups[d].received /\ h.snaps = <<>>
Stash(s, b) ==
    LET p == PushPending(s.hub.pending, b)
        s1 == [s EXCEPT !.hub.pending = p.items]
    IN  IF p.over THEN Refresh(Notify(s1), TRUE) ELSE s1

\* fan_out_events: duplicates are ignored, the rest is stashed or published.
FanOutEvents(s, b) ==
    IF b.dev \notin DOMAIN s.hub.ups \/ b.seq <= s.hub.ups[b.dev].last
    THEN s
    ELSE IF MustStash(s.hub, b.dev) THEN Stash(s, b)
    ELSE Publish([s EXCEPT !.hub.ups[b.dev].last = b.seq],
                 EventFrame(s.hub.id, s.hub.epoch, s.hub.next, b.dev, b), TRUE)

\* fan_out_presence: only the list shows devices; nobody needs the frame
\* while everybody waits for the first snapshot.
FanOutPresence(s, d) ==
    IF ~s.hub.exists \/ target # "list"
       \/ (s.hub.snaps = <<>> /\ \A c \in DOMAIN s.hub.subs : s.hub.subs[c])
    THEN s
    ELSE Publish(s, EventFrame(s.hub.id, s.hub.epoch, s.hub.next, d,
                       [kind |-> "presence", seq |-> 0, ver |-> 0, off |-> 0]), FALSE)

\* handle_upstream_subscribed: the binding takes the new epoch; when it had a
\* snapshot of another epoch the stream starts over and the others ask again.
UpstreamSubscribed(s, d, m) ==
    LET u == s.hub.ups[d]
        changed == u.received /\ u.epoch # m.epoch
        s1 == [s EXCEPT !.hub.ups[d] =
                 [epoch |-> m.epoch, last |-> 0, covers |-> 1, received |-> FALSE]]
        others == DOMAIN s.hub.ups \ {d}
    IN  IF d \notin DOMAIN s.hub.ups THEN s
        ELSE IF ~changed THEN s1
        ELSE Ask(Notify([s1 EXCEPT !.hub = [Awaiting(Emptied(@)) EXCEPT
                   !.epoch = @ + 1,
                   !.ups = [e \in DOMAIN @ |->
                              IF e \in others THEN FreshBinding ELSE @[e]]]]),
                 others)

\* Mutant: the snapshot does not use up its number.
TakeSnapshotUnnumbered(h, d, m) ==
    [h EXCEPT !.ups[d].received = TRUE,
              !.pending = <<>>,
              !.buffer = RetainUncovered(@, d, h.ups[d].covers),
              !.snaps = CacheSnapshot(@, SnapshotFrame(h.id, h.epoch, h.next, d, m.ver))]
\* handle_upstream_snapshot: the snapshot takes the next number, waiting
\* subscribers get the replay, active ones the frame; then the stash follows.
TakeSnapshot(h, d, m) ==
    [h EXCEPT !.ups[d].received = TRUE,
              !.pending = <<>>,
              !.buffer = RetainUncovered(@, d, h.ups[d].covers),
              !.next = @ + 1,
              !.snaps = CacheSnapshot(@, SnapshotFrame(h.id, h.epoch, h.next, d, m.ver))]
UpstreamSnapshot(s, d, m) ==
    LET h == s.hub
        f == SnapshotFrame(h.id, h.epoch, h.next, d, m.ver)
        s1 == [s EXCEPT !.hub = TakeSnapshot(h, d, m)]
        subs == DOMAIN h.subs \cap registered
        Serve(t, c) ==
            IF h.subs[c] THEN DeliverReplay(t, c)
            ELSE IF Fits(t.outbox[c], 1)
            THEN [t EXCEPT !.outbox[c] = PushFrames(@, <<f>>)]
            ELSE Detach(t, {c})
        served == FoldLeft(Serve, s1, SetToSeq(subs))
        Flush(t, b) ==
            IF b.dev \in DOMAIN t.hub.ups /\ b.seq <= t.hub.ups[b.dev].covers
            THEN t ELSE FanOutEvents(t, b)
    IN  IF d \notin DOMAIN h.ups THEN s
        ELSE FoldLeft(Flush, served, h.pending)

\* The snapshot of d releases a stashed batch out of its order: one that its
\* Bridge sent before that snapshot, or in an earlier upstream epoch.
FlushesLate(h, d) ==
    d \in DOMAIN h.ups /\ \E i \in DOMAIN h.pending : LET b == h.pending[i] IN
        /\ b.dev \in DOMAIN h.ups /\ b.seq > h.ups[b.dev].covers
        /\ b.dev = d \/ b.epoch # h.ups[b.dev].epoch

---------------------------------------------------------------------------
\* The Bridges.

\* What a reader of snapshots and of changes shows.
ShowSnapshot(ver) == [ver |-> ver, whole |-> TRUE]
ShowChange(view, ver, len) == [ver |-> ver, whole |-> view.whole /\ ver <= view.ver + len]

\* assign_sequence, send_stream_locked: payloads take the current epoch and the
\* next numbers of the stream.
Numbered(d, payloads) ==
    [i \in DOMAIN payloads |->
        [type |-> payloads[i].type, epoch |-> bridge[d].epoch, seq |-> bridge[d].seq + i,
         dev |-> d, ver |-> payloads[i].ver, kind |-> payloads[i].kind, off |-> payloads[i].off]]
Change(kind, ver, off) == [type |-> "batch", ver |-> ver, kind |-> kind, off |-> off]
Snapshot(ver) == [type |-> "snapshot", ver |-> ver, kind |-> "critical", off |-> 0]

\* send_envelope: the messages enter the queue to the Relay, save for those
\* (lost) that find it full.
Queue(d, msgs, lost) ==
    LET kept == SelectSeq([i \in DOMAIN msgs |-> <<i, msgs[i]>>], LAMBDA p : p[1] \notin lost)
        Show(view, p) == CASE p[2].type = "subscribed" -> view
                           [] p[2].type = "snapshot" -> ShowSnapshot(p[2].ver)
                           [] p[2].type = "batch" -> ShowChange(view, p[2].ver, 1)
    IN  /\ up' = [up EXCEPT ![d] = @ \o [i \in DOMAIN kept |-> kept[i][2]]]
        /\ told' = [told EXCEPT ![d] = FoldLeft(Show, @, kept)]
Spend(n) == budget.rare >= n /\ budget' = [budget EXCEPT !.rare = @ - n]
Losses(lost) == IF lost = {} THEN 0 ELSE 1

\* dispatch_domain_event: without a stream the event is not sent, while a
\* snapshot is being built it is kept, otherwise it is sent.
BridgeEvent(d, kind) ==
    /\ d \in Followed /\ budget.events > 0
    /\ LET b == bridge[d]
           changed == [b EXCEPT !.ver = @ + 1, !.off = IF kind = "append" THEN @ + 1 ELSE @]
           c == Change(kind, b.ver + 1, b.off)
           spent == [budget EXCEPT !.events = @ - 1]
       IN  \/ /\ ~b.open
              /\ bridge' = [bridge EXCEPT ![d] = changed]
              /\ budget' = spent
              /\ UNCHANGED <<up, told>>
           \/ /\ b.open /\ b.buffering
              /\ bridge' = [bridge EXCEPT ![d] = [changed EXCEPT !.buffer = Append(@, c)]]
              /\ budget' = spent
              /\ UNCHANGED <<up, told>>
           \/ /\ b.open /\ ~b.buffering
              /\ bridge' = [bridge EXCEPT ![d] = [changed EXCEPT !.seq = @ + 1]]
              /\ \E lost \in SUBSET {1} :
                   /\ budget.rare >= Losses(lost)
                   /\ budget' = [spent EXCEPT !.rare = @ - Losses(lost)]
                   /\ Queue(d, Numbered(d, <<c>>), lost)
    /\ UNCHANGED <<scene, asked, online, loop, hub, outbox, browserVars, mixed, partial>>

\* First locked section of establish_*_stream: a new epoch, numbers from 1,
\* events are kept from here on.
Begin(d, b) ==
    /\ b.epoch < scene.epochs
    /\ bridge' = [bridge EXCEPT ![d] =
         [b EXCEPT !.open = TRUE, !.epoch = @ + 1, !.seq = 0, !.buffering = TRUE,
                   !.buffer = <<>>, !.deaf = TRUE,
                   !.jobs = [e \in DOMAIN @ \cup {b.epoch + 1} |->
                               IF e \in DOMAIN @ THEN @[e]
                               ELSE [said |-> FALSE, from |-> 0]]]]

\* handle_subscribe.
BridgeSubscribe(d) ==
    /\ asked[d] > 0
    /\ Begin(d, bridge[d])
    /\ asked' = [asked EXCEPT ![d] = @ - 1]
    /\ UNCHANGED <<scene, up, online, loop, hub, outbox, browserVars, budget, historyVars>>

\* resync_inner: after a reconnect the Bridge rebuilds the streams it had.
BridgeResync(d) ==
    /\ bridge[d].resync
    /\ Begin(d, [bridge[d] EXCEPT !.resync = FALSE])
    /\ UNCHANGED <<scene, up, asked, online, loop, hub, outbox, browserVars, budget,
                   historyVars>>

\* send_subscribed, after the lock was released; then the handler reads.
BridgeAnnounces(d, e) ==
    /\ e \in DOMAIN bridge[d].jobs /\ ~bridge[d].jobs[e].said
    /\ \E lost \in SUBSET {1} :
         /\ Spend(Losses(lost))
         /\ Queue(d, <<[type |-> "subscribed", epoch |-> e]>>, lost)
         /\ bridge' = [bridge EXCEPT
              ![d].jobs[e] = [said |-> TRUE, from |-> bridge[d].ver],
              ![d].deaf = @ /\ lost # {}]
    /\ UNCHANGED <<scene, asked, online, loop, hub, outbox, browserVars, mixed, partial>>

Done(b, e) == [b EXCEPT !.buffering = FALSE, !.jobs = Restrict(@, DOMAIN @ \ {e})]

\* Second locked section: what the handler has read meanwhile (an empty page
\* when list_sessions failed) and the kept events, under the epoch of by now.
BridgePublishes(d, e) ==
    /\ e \in DOMAIN bridge[d].jobs /\ bridge[d].jobs[e].said
    /\ LET b == bridge[d] IN
       \E read \in {b.jobs[e].from..b.ver, {}}, lost \in SUBSET (1..(1 + Len(b.buffer))) :
         /\ read = {} => target = "list"
         /\ Spend(Losses(lost) + (IF read = {} THEN 1 ELSE 0))
         /\ \E v \in (IF read = {} THEN {0} ELSE read) :
              Queue(d, Numbered(d, <<Snapshot(v)>> \o b.buffer), lost)
         /\ bridge' = [bridge EXCEPT ![d] =
              [Done(b, e) EXCEPT !.buffer = <<>>, !.seq = @ + 1 + Len(b.buffer)]]
    /\ UNCHANGED <<scene, asked, online, loop, hub, outbox, browserVars, mixed, partial>>

\* No snapshot from Desktop: a ProtocolError; what was kept stays kept.
BridgeFails(d, e) ==
    /\ target = "session"
    /\ e \in DOMAIN bridge[d].jobs /\ bridge[d].jobs[e].said
    /\ Spend(1)
    /\ bridge' = [bridge EXCEPT ![d] = Done(@, e)]
    /\ UNCHANGED <<scene, up, asked, online, loop, hub, outbox, browserVars, historyVars>>

\* observe_session, refresh_list_summary: a snapshot inside the epoch, of what
\* was read some time before.
BridgeConfirms(d) ==
    /\ bridge[d].open /\ ~bridge[d].buffering
    /\ Spend(1)
    /\ \E v \in 0..bridge[d].ver : Queue(d, Numbered(d, <<Snapshot(v)>>), {})
    /\ bridge' = [bridge EXCEPT ![d].seq = @ + 1]
    /\ UNCHANGED <<scene, asked, online, loop, hub, outbox, browserVars, mixed, partial>>

\* A Subscribe is lost: the queue to the Bridge is full (try_send).
SubscribeLost(d) ==
    /\ asked[d] > 0 /\ budget.rare > 0
    /\ asked' = [asked EXCEPT ![d] = @ - 1]
    /\ budget' = [budget EXCEPT !.rare = @ - 1]
    /\ UNCHANGED <<scene, bridge, up, online, loop, hub, outbox, browserVars, historyVars>>

\* A Bridge connects, also while the Relay has not noticed the end of its former
\* connection: register_bridge, ensure_bindings_for_device; resync_inner is due.
RegisterBridge(d) ==
    /\ d \in Followed /\ loop[d].at = "off" /\ budget.links > 0
    /\ budget' = [budget EXCEPT !.links = @ - 1]
    /\ loop' = [loop EXCEPT ![d].at = "joining"]
    /\ online' = online \cup {d}
    /\ bridge' = [bridge EXCEPT ![d].resync = @ \/ bridge[d].open]
    /\ LET bind == hub.exists /\ d \notin DOMAIN hub.ups
       IN  Becomes(IF ~bind THEN State
                   ELSE [State EXCEPT
                          !.hub.ups = [e \in DOMAIN @ \cup {d} |->
                                         IF e = d THEN FreshBinding ELSE @[e]],
                          !.asked[d] = 1])
    /\ UNCHANGED <<scene, up, browserVars, historyVars>>

\* fan_out_presence(true), after the database was told; the read loop begins.
BridgeJoins(d) ==
    /\ loop[d].at = "joining"
    /\ loop' = [loop EXCEPT ![d].at = "reading"]
    /\ Becomes(FanOutPresence(State, d))
    /\ UNCHANGED <<scene, bridge, up, online, browserVars, budget, historyVars>>

\* The read loop ends with the connection, or because the heartbeat finds no
\* registration: what was in flight is lost.
LinkEnds(d) ==
    /\ loop[d].at = "reading"
    /\ Spend(IF d \in online THEN 1 ELSE 0)
    /\ loop' = [loop EXCEPT ![d].at = "off", ![d].ends = @ + 1]
    /\ \E n \in 0..Len(up[d]) : up' = [up EXCEPT ![d] = SubSeq(@, n + 1, Len(@))]
    /\ asked' = [asked EXCEPT ![d] = 0]
    /\ UNCHANGED <<scene, bridge, online, hub, outbox, browserVars, historyVars>>

\* remove_bridge: by device, whoever is registered by now.
RemoveBridge(d) ==
    /\ loop[d].ends > 0
    /\ loop' = [loop EXCEPT ![d].ends = @ - 1, ![d].parts = @ + 1]
    /\ online' = online \ {d}
    /\ hub' = [hub EXCEPT !.ups = Restrict(@, DOMAIN @ \ {d})]
    /\ UNCHANGED <<scene, bridge, up, asked, outbox, browserVars, budget, historyVars>>

\* fan_out_presence(false), after the database was told.
BridgeParts(d) ==
    /\ loop[d].parts > 0
    /\ loop' = [loop EXCEPT ![d].parts = @ - 1]
    /\ Becomes(FanOutPresence(State, d))
    /\ UNCHANGED <<scene, bridge, up, online, browserVars, budget, historyVars>>

\* handle_bridge_envelope takes the next message of a Bridge.
RelayReceives(d) ==
    /\ loop[d].at = "reading" /\ up[d] # <<>>
    /\ LET m == Head(up[d]) IN
       /\ Becomes(CASE m.type = "subscribed" -> UpstreamSubscribed(State, d, m)
                    [] m.type = "snapshot" -> UpstreamSnapshot(State, d, m)
                    [] m.type = "batch" -> FanOutEvents(State, m))
       /\ mixed' = (mixed \/ (m.type = "snapshot" /\ FlushesLate(hub, d)))
       /\ IF m.type = "snapshot" /\ d \in DOMAIN hub.ups
          THEN Replayed(TakeSnapshot(hub, d, m), {c \in DOMAIN hub.subs : hub.subs[c]})
          ELSE UNCHANGED partial
    /\ up' = [up EXCEPT ![d] = Tail(@)]
    /\ UNCHANGED <<scene, bridge, online, loop, browserVars, budget, told>>

\* Frames outlive BUFFER_RETENTION; the next insert drops them.
Age ==
    /\ budget.rare > 0 /\ hub.aged < hub.next - 1
    /\ hub' = [hub EXCEPT !.aged = hub.next - 1]
    /\ budget' = [budget EXCEPT !.rare = @ - 1]
    /\ UNCHANGED <<scene, bridge, up, asked, online, loop, outbox, browserVars, historyVars>>

\* sweep_global_memory: a stream without subscribers is removed.
SweepUnused ==
    /\ hub.exists /\ hub.subs = <<>>
    /\ hub' = NoStream(hub.id + 1)
    /\ UNCHANGED <<scene, bridge, up, asked, online, loop, outbox, browserVars, budget, historyVars>>

\* sweep_global_memory over the limit: the stream's stores are dropped and
\* its subscribers told; they stay active.
SweepPressure ==
    /\ hub.exists /\ hub.subs # <<>> /\ budget.rare > 0
    /\ Becomes(Notify([State EXCEPT !.hub = Emptied(@)]))
    /\ budget' = [budget EXCEPT !.rare = @ - 1]
    /\ UNCHANGED <<scene, bridge, up, online, loop, browserVars, historyVars>>

---------------------------------------------------------------------------
\* The browsers.

Connect(c) ==
    /\ c \notin registered /\ ~client[c].up
    /\ registered' = registered \cup {c}
    /\ outbox' = [outbox EXCEPT ![c] = NewOutbox]
    /\ client' = [client EXCEPT ![c].up = TRUE]
    /\ UNCHANGED <<scene, bridge, up, asked, online, loop, hub, attaching, budget, historyVars>>

\* remove_browser at the end of a connection; the client forgets its streams.
Disconnect(c) ==
    /\ client[c].up
    /\ registered' = registered \ {c}
    /\ attaching' = attaching \ {c}
    /\ client' = [client EXCEPT ![c] = FreshClient]
    /\ outbox' = [outbox EXCEPT ![c] = NewOutbox]
    /\ hub' = [hub EXCEPT !.subs = Restrict(@, DOMAIN @ \ {c})]
    /\ UNCHANGED <<scene, bridge, up, asked, online, loop, budget, historyVars>>

\* close_browser: the Relay ends a connection (expiry, revocation, overload).
CloseBrowser(c) ==
    /\ c \in registered /\ budget.rare > 0
    /\ registered' = registered \ {c}
    /\ outbox' = [outbox EXCEPT ![c] = Close(@)]
    /\ hub' = [hub EXCEPT !.subs = Restrict(@, DOMAIN @ \ {c})]
    /\ budget' = [budget EXCEPT !.rare = @ - 1]
    /\ UNCHANGED <<scene, bridge, up, asked, online, loop, attaching, client, historyVars>>

\* on_browser_subscribe: the list needs every online device of the owner, a
\* session its own device, without which it is refused.
Needs == online \cap Followed
MaySubscribe == target = "list" \/ Home \in online

\* First half of browser_subscribe: missing bindings are made; a session's
\* binding that has its snapshot starts over, so that the new subscriber gets
\* a fresh one.
SubscribeBind(c) ==
    /\ c \in registered \ attaching /\ client[c].up
    /\ client[c].sid = 0 /\ budget.subscribes > 0
    /\ MaySubscribe
    /\ budget' = [budget EXCEPT !.subscribes = @ - 1]
    /\ client' = [client EXCEPT ![c].wants = TRUE]
    /\ attaching' = attaching \cup {c}
    /\ LET new == Needs \ DOMAIN hub.ups
           again == {d \in Needs \ new : target = "session" /\ hub.ups[d].received}
           h == [hub EXCEPT !.exists = @ \/ Needs # {},
                            !.ups = [d \in DOMAIN @ \cup Needs |->
                               IF d \in new \cup again THEN FreshBinding ELSE @[d]]]
       IN  Becomes(Ask([State EXCEPT !.hub =
                          IF again # {} THEN Awaiting(Emptied(h)) ELSE h], new \cup again))
    /\ UNCHANGED <<scene, bridge, up, online, loop, registered, historyVars>>

\* Second half: the subscriber is attached, with a replay if there is a
\* snapshot.
SubscribeAttach(c) ==
    /\ c \in attaching
    /\ attaching' = attaching \ {c}
    /\ IF c \notin registered THEN UNCHANGED <<hub, outbox, asked>>
       ELSE LET s == [State EXCEPT
                        !.hub.exists = TRUE,
                        !.hub.subs = [x \in DOMAIN @ \cup {c} |->
                                        IF x = c THEN TRUE ELSE @[x]]]
            IN  Becomes(IF hub.snaps = <<>> THEN s ELSE DeliverReplay(s, c))
    /\ Replayed(hub, IF c \in registered /\ hub.snaps # <<>> THEN {c} ELSE {})
    /\ UNCHANGED <<scene, bridge, up, online, loop, registered, client, budget, told, mixed>>

\* browser_unsubscribe.
Unsubscribe(c) ==
    /\ c \in registered /\ client[c].sid # 0
    /\ hub' = IF client[c].sid = hub.id
              THEN [hub EXCEPT !.subs = Restrict(@, DOMAIN @ \ {c})] ELSE hub
    /\ client' = [client EXCEPT ![c] = [FreshClient EXCEPT !.up = TRUE]]
    /\ UNCHANGED <<scene, bridge, up, asked, online, loop, attaching, registered, outbox, budget, historyVars>>

\* browser_resync: a session, or a list without snapshot, asks the Bridges
\* again; a list with snapshots replays its window.
BrowserResync(c) ==
    /\ client[c].sent /\ c \in registered
    /\ client' = [client EXCEPT ![c].sent = FALSE]
    /\ \/ /\ client[c].sid # hub.id \/ c \notin DOMAIN hub.subs
          /\ UNCHANGED <<hub, outbox, asked, partial>>
       \/ /\ client[c].sid = hub.id /\ c \in DOMAIN hub.subs
          /\ target = "session" \/ hub.snaps = <<>>
          /\ Becomes(Refresh(State, FALSE))
          /\ UNCHANGED partial
       \/ /\ client[c].sid = hub.id /\ c \in DOMAIN hub.subs
          /\ target = "list" /\ hub.snaps # <<>>
          /\ Becomes(DeliverReplay(State, c))
          /\ Replayed(hub, {c})
    /\ UNCHANGED <<scene, bridge, up, online, loop, attaching, registered, budget, told, mixed>>

\* requestStreamResync of the client: one recovery at a time.
AskResync(k) ==
    IF k.recovers THEN k ELSE [k EXCEPT !.recovers = TRUE, !.sent = TRUE]

\* The client's handling of one message.
ClientApplies(k, m) ==
    CASE m.type = "subscribed" ->
           IF m.sid = k.sid \/ (k.sid = 0 /\ k.wants)
           THEN [k EXCEPT !.sid = m.sid, !.epoch = m.epoch, !.last = m.base, !.wants = FALSE]
           ELSE k
      [] m.type = "resync" -> IF m.sid = k.sid THEN AskResync(k) ELSE k
      [] m.type = "snapshot" ->
           IF m.sid = k.sid /\ m.epoch = k.epoch
           THEN [k EXCEPT !.last = m.seq, !.recovers = FALSE,
                          !.view[m.dev] = ShowSnapshot(m.ver)]
           ELSE k
      [] m.type = "event" ->
           IF m.sid # k.sid \/ m.epoch # k.epoch \/ m.seq <= k.last THEN k
           ELSE IF m.seq # k.last + 1 THEN AskResync(k)
           ELSE IF m.kind = "presence" THEN [k EXCEPT !.last = m.seq]
           ELSE [k EXCEPT !.last = m.seq,
                          !.view[m.dev] = ShowChange(@, m.ver, m.len)]

ClientReceives(c) ==
    /\ client[c].up /\ outbox[c].items # <<>>
    /\ Head(outbox[c].items).type # "close"
    /\ outbox' = [outbox EXCEPT ![c].items = Tail(@)]
    /\ client' = [client EXCEPT ![c] = ClientApplies(@, Head(outbox[c].items))]
    /\ UNCHANGED <<scene, bridge, up, asked, online, loop, hub, attaching, registered, budget, historyVars>>

Next ==
    \/ \E d \in Devices :
         \/ \E kind \in scene.kinds : BridgeEvent(d, kind)
         \/ BridgeSubscribe(d) \/ BridgeResync(d) \/ BridgeConfirms(d)
         \/ \E e \in 1..scene.epochs :
              BridgeAnnounces(d, e) \/ BridgePublishes(d, e) \/ BridgeFails(d, e)
         \/ SubscribeLost(d) \/ RegisterBridge(d) \/ BridgeJoins(d)
         \/ LinkEnds(d) \/ RemoveBridge(d) \/ BridgeParts(d) \/ RelayReceives(d)
    \/ Age \/ SweepUnused \/ SweepPressure
    \/ \E c \in Conns :
         \/ Connect(c) \/ Disconnect(c) \/ CloseBrowser(c)
         \/ SubscribeBind(c) \/ SubscribeAttach(c) \/ Unsubscribe(c)
         \/ BrowserResync(c) \/ ClientReceives(c)

Spec == Init /\ [][Next]_vars

---------------------------------------------------------------------------
Messages == UNION {{up[d][i] : i \in DOMAIN up[d]} : d \in Devices}
Queued(c) == {outbox[c].items[i] : i \in DOMAIN outbox[c].items}
Frames == {f \in UNION {Queued(c) : c \in Conns} : IsFrame(f)}
          \cup {hub.snaps[i] : i \in DOMAIN hub.snaps}

\* The stores keep within their limits and the indices name known parties.
TypeOK ==
    /\ scene \in Scenes
    /\ \A d \in Devices : /\ bridge[d].ver \in 0..scene.events
                          /\ bridge[d].seq \in 0..(scene.events + scene.rare + scene.epochs)
                          /\ Len(bridge[d].buffer) <= scene.events
                          /\ asked[d] \in Nat
    /\ \A m \in Messages : m.type \in {"subscribed", "snapshot", "batch"}
    /\ online \subseteq Devices /\ registered \subseteq Conns /\ attaching \subseteq Conns
    /\ DOMAIN hub.subs \subseteq Conns /\ DOMAIN hub.ups \subseteq Devices
    /\ Len(hub.buffer) <= BufferMax /\ Len(hub.snaps) <= Cardinality(Devices)
    /\ \A c \in Conns : FrameCount(outbox[c]) <= OutboxMax

\* Nothing is on its way between the Bridge of d and the client c, and the
\* client believes to be in sync.
Quiet(c, d) ==
    /\ c \in registered \ attaching /\ client[c].sid = hub.id
    /\ c \in DOMAIN hub.subs /\ ~hub.subs[c]
    /\ outbox[c] = NewOutbox /\ ~client[c].recovers /\ ~client[c].sent
    /\ d \in DOMAIN hub.ups /\ hub.ups[d].received
    /\ loop[d].at = "reading" /\ up[d] = <<>> /\ asked[d] = 0
    /\ ~bridge[d].resync /\ ~bridge[d].deaf


\* handle_upstream_subscribed does not subscribe again to the Bridge that
\* announced a new epoch, so that "自激重订阅循环" cannot arise: every
\* connection of a Bridge accounts for at most two resets of the stream.
EpochSettles ==
    hub.epoch <= 1 + 2 * (Cardinality(Devices) + scene.rare - budget.rare)

\* A number of a stream means the same frame to every browser, whether it
\* came live, in a replay or as a cached snapshot (browser_subscribe and
\* browser_resync never renumber).
SameSeqSameFrame ==
    \A f, g \in Frames : f.sid = g.sid /\ f.seq = g.seq => f = g
=============================================================================
