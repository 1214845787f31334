---------------------------- MODULE CodexFollower ----------------------------
(***************************************************************************)
(* The Bridge as a follower of one conversation of Codex Desktop: the IPC  *)
(* client with its reader task, the pump that feeds the mapper, the        *)
(* watchers that get the mapper's events and ask Desktop questions while   *)
(* they handle one, the supervisor that attaches again, refresh_snapshot.  *)
(*                                                                         *)
(*   desk    Desktop: up, incarnation of the owner, revision and state of  *)
(*           the conversation, whether this client follows it              *)
(*   conn    number of the current IpcClient (0: none), open: its reader   *)
(*           runs, wire: Desktop's end is open                             *)
(*   outq    messages to Desktop, sock messages from it, not yet read      *)
(*   evq     the event queue between reader and pump                       *)
(*   rest    events the pump has yet to hand to the watcher's channel wch  *)
(*   req     the requests of the watcher ("w") and of a refresh ("r")      *)
(*   m       the SessionMapper, following its session's flag               *)
(*   view    what the watcher made of its events                           *)
(*                                                                         *)
(* History: gap (why the mapper may be behind with nothing on its way to   *)
(* it: "unparsed", the last change came as something the client could not  *)
(* parse, "failed", the complete history the pump asked for was refused,   *)
(* or "none"), torn (a pump was aborted while it handed out events),       *)
(* astray (a refresh marked the session as followed on a client that was   *)
(* being replaced), blurred (outputs rewritten at the same length), res    *)
(* (what the refresh gave).                                                *)
(* Bridge: adapter/codex/mod.rs, adapter/codex/ipc/*.                      *)
(***************************************************************************)
EXTENDS CodexMapper, FiniteSets

CONSTANTS
  EventQueue,    \* DEFAULT_EVENT_QUEUE
  WatcherQueue,  \* capacity of a watcher's channel
  MaxRestarts,   \* bound: restarts of Desktop and changes of the owner
  MaxChanges     \* bound: those and changes of the conversation together

ASSUME FollowerAssumption ==
  /\ EventQueue \in Nat \ {0} /\ WatcherQueue \in Nat \ {0}
  /\ MaxChanges \in Nat /\ MaxRestarts \in Nat /\ MaxTurns \in Nat \ {0}

VARIABLES desk, conn, open, wire, outq, sock, evq, rest, wch, req, m, following, view,
          gap, torn, astray, blurred, res, changes

link == <<conn, open, wire>>
history == <<gap, torn, astray, blurred, res, changes>>
vars == <<desk, conn, open, wire, outq, sock, evq, rest, wch, req, m, following, view,
          gap, torn, astray, blurred, res, changes>>

Callers == {"w", "r"}
NoReq == [ph |-> "idle", id |-> 0, h |-> 0, gen |-> 0, rev |-> 0, ag |-> 0, ar |-> 0]
Ended(r) == [NoReq EXCEPT !.id = r.id]

-----------------------------------------------------------------------------
(* Desktop, as fake_owner.rs plays it                                      *)

Snapshot == [k |-> "snap", gen |-> desk.gen, rev |-> desk.rev, st |-> desk.st]

(* What a turn may do next, as the fields that change: start; add output;  *)
(* ask, or have its question answered; end, completed or interrupted, with *)
(* an authoritative output that may be another one.                        *)
StartTurn(st) == IF ~st.run /\ st.t < MaxTurns THEN {[t |-> st.t + 1, run |-> TRUE]} ELSE {}

EmitOutput(st) == IF st.run THEN {[out |-> [st.out EXCEPT ![st.t].n = @ + 1]]} ELSE {}

InjectPending(st) == IF st.run THEN {[q |-> ~st.q]} ELSE {}

Rewritten(st, n) ==
  IF st.run /\ st.out[st.t].n > 0
  THEN {[st.out EXCEPT ![st.t] = [w |-> @.w + 1, n |-> n]]} ELSE {}
RunTurn(st) ==
  IF st.run THEN {[run |-> FALSE]} \cup {[run |-> FALSE, out |-> o] : o \in Rewritten(st, 1)} ELSE {}

Steps(st) == StartTurn(st) \cup EmitOutput(st) \cup InjectPending(st) \cup RunTurn(st)
             \cup {[out |-> o] : o \in Rewritten(st, 2)}

(* push_change: the revision moves on and the followers are told, with     *)
(* patches or with a snapshot.  A change can also reach the client as      *)
(* something it cannot parse.                                              *)
DeskChanges(p) ==
  LET st == ApplyImmerPatches(desk.st, p)
      sent == desk.follows /\ wire
      patch == [k |-> "patch", gen |-> desk.gen, base |-> desk.rev, rev |-> desk.rev + 1, p |-> p]
      snap == [k |-> "snap", gen |-> desk.gen, rev |-> desk.rev + 1, st |-> st]
  IN  /\ desk.up /\ changes < MaxChanges
      /\ changes' = changes + 1
      /\ desk' = [desk EXCEPT !.rev = @ + 1, !.st = st]
      /\ IF sent
         THEN \/ \E msg \in {patch, snap} : sock' = Append(sock, msg) /\ gap' = "none"
              \/ sock' = Append(sock, [k |-> "bad"]) /\ gap' = "unparsed"
         ELSE UNCHANGED <<sock, gap>>
      /\ UNCHANGED <<link, outq, evq, rest, wch, req, m, following, view,
                     torn, astray, blurred, res>>

(* dispatch: a message of the client.  load-complete-history answers with  *)
(* the revision and sends the snapshot again; it may also fail, of which   *)
(* the pump takes no notice, and for which a refresh ends with an error as *)
(* it does with a timeout.                                                 *)
DeskHandles ==
  LET msg == Head(outq) IN
  /\ desk.up /\ wire /\ outq # <<>>
  /\ outq' = Tail(outq)
  /\ \/ /\ msg.k = "follow"
        /\ desk' = [desk EXCEPT !.follows = TRUE]
        /\ sock' = Append(sock, Snapshot) /\ gap' = "none"
     \/ /\ msg.k = "owner"
        /\ sock' = Append(sock, [k |-> "resp", c |-> msg.c, id |-> msg.id, gen |-> 0, rev |-> 0])
        /\ UNCHANGED <<desk, gap>>
     \/ /\ msg.k = "load"
        /\ LET resp == [k |-> "resp", c |-> msg.c, id |-> msg.id, gen |-> desk.gen, rev |-> desk.rev]
           IN  \/ /\ sock' = (IF msg.c = "l" THEN sock ELSE Append(sock, resp))
                             \o (IF desk.follows THEN <<Snapshot>> ELSE <<>>)
                  /\ gap' = IF desk.follows THEN "none" ELSE gap
               \/ gap' = (IF msg.c = "l" THEN "failed" ELSE gap) /\ UNCHANGED sock
        /\ UNCHANGED desk
  /\ UNCHANGED <<link, evq, rest, wch, req, m, following, view,
                 torn, astray, blurred, res, changes>>

(* Desktop quits; the client still reads what is in the socket.  The next  *)
(* one counts revisions from zero, and no turn runs in it.                 *)
Reborn == [desk EXCEPT !.gen = @ + 1, !.rev = 0, !.st.run = FALSE, !.follows = FALSE]

DeskQuits ==
  /\ desk.up /\ desk.gen < MaxRestarts /\ changes < MaxChanges
  /\ changes' = changes + 1
  /\ desk' = [Reborn EXCEPT !.up = FALSE]
  /\ wire' = FALSE /\ outq' = <<>>
  /\ UNCHANGED <<conn, open, sock, evq, rest, wch, req, m, following, view,
                 gap, torn, astray, blurred, res>>

DeskStarts ==
  /\ ~desk.up /\ desk' = [desk EXCEPT !.up = TRUE]
  /\ UNCHANGED <<link, outq, sock, evq, rest, wch, req, m, following, view, history>>

(* The conversation gets another owner: its clients are told.              *)
DeskChangesOwner ==
  /\ desk.up /\ desk.gen < MaxRestarts /\ changes < MaxChanges
  /\ changes' = changes + 1
  /\ desk' = Reborn
  /\ sock' = IF wire THEN Append(sock, [k |-> "status"]) ELSE sock
  /\ UNCHANGED <<link, outq, evq, rest, wch, req, m, following, view,
                 gap, torn, astray, blurred, res>>

-----------------------------------------------------------------------------
(* The IPC client                                                          *)

(* A message goes out if the client the caller holds is the one that is    *)
(* connected.                                                              *)
Sent(h, msgs) == IF h = conn /\ open /\ wire THEN outq \o msgs ELSE outq

(* set_following; discover_owner; load_complete_history of caller c ("l":  *)
(* the pump's, whose answer nobody waits for).                             *)
FollowMessage == [k |-> "follow"]
OwnerRequest(id) == [k |-> "owner", c |-> "w", id |-> id]
LoadRequest(c, id) == [k |-> "load", c |-> c, id |-> id]

(* reader_loop, dispatch: a response goes to its caller at once, anything  *)
(* else into the event queue, and the reader waits while that is full.     *)
ReaderDispatches ==
  LET msg == Head(sock)
      r == req[msg.c] IN
  /\ open /\ sock # <<>>
  /\ sock' = Tail(sock)
  /\ IF msg.k = "resp"
     THEN /\ req' = IF r.ph \in {"owner", "load"} /\ r.id = msg.id
                    THEN [req EXCEPT ![msg.c] =
                            [r EXCEPT !.ph = IF r.ph = "owner" THEN "owned" ELSE "loaded",
                                      !.gen = msg.gen, !.rev = msg.rev]]
                    ELSE req
          /\ UNCHANGED evq
     ELSE Len(evq) < EventQueue /\ evq' = Append(evq, msg) /\ UNCHANGED req
  /\ UNCHANGED <<desk, link, outq, rest, wch, m, following, view, history>>

(* The end of the connection wakes every pending request with an error.    *)
ReaderEnds ==
  /\ open /\ ~wire /\ sock = <<>>
  /\ open' = FALSE
  /\ req' = [c \in Callers |->
               IF req[c].ph \in {"owner", "load"} /\ req[c].h = conn
               THEN Ended(req[c]) ELSE req[c]]
  /\ UNCHANGED <<desk, conn, wire, outq, sock, evq, rest, wch, m, following, view, history>>

(* A request without an answer ends with its timeout.                      *)
TimeoutNever(c) == FALSE /\ UNCHANGED vars  \* mutant: requests wait for ever
RequestTimesOut(c) ==
  /\ req[c].ph \in {"owner", "load"}
  /\ req' = [req EXCEPT ![c] = Ended(@)]
  /\ UNCHANGED <<desk, link, outq, sock, evq, rest, wch, m, following, view, history>>

-----------------------------------------------------------------------------
(* The pump                                                                *)

Hand(r) == m' = r.m /\ rest' = r.ev

(* A watcher that comes with the first snapshot starts from it.            *)
Rebase(st) == [view EXCEPT !.out = IF m.has THEN @ ELSE st.out]

Blur(st) == blurred \cup {i \in Turns : /\ m.has /\ m.st.out[i].n = st.out[i].n
                                        /\ m.st.out[i].w # st.out[i].w}

Take(gen, rev, st) ==
  /\ Hand(ApplySnapshot(m, gen, rev, st))
  /\ view' = Rebase(st) /\ blurred' = Blur(st)
  /\ UNCHANGED outq

(* pump_loop: a snapshot; a patch that applies; one that does not, because *)
(* it is for another revision or its operations fail (the complete history *)
(* is asked for); a change of clients (follow again); something unknown,   *)
(* which is ignored, as are streams nobody asked for.  The pump goes on    *)
(* with what is in the queue after the reader has ended.                   *)
PumpTakes ==
  LET e == Head(evq) IN
  /\ rest = <<>> /\ evq # <<>>
  /\ evq' = Tail(evq)
  /\ \/ /\ e.k = "snap"
        /\ Take(e.gen, e.rev, e.st)
     \/ /\ e.k = "patch" /\ Applies(m, e.base, e.rev)
        /\ Take(e.gen, e.rev, ApplyImmerPatches(m.st, e.p))
     \/ /\ e.k = "patch"
        /\ outq' = Sent(conn, <<LoadRequest("l", 0)>>)
        /\ UNCHANGED <<m, rest, view, blurred>>
     \/ /\ e.k = "status"
        /\ outq' = IF following THEN Sent(conn, <<FollowMessage>>) ELSE outq
        /\ UNCHANGED <<m, rest, view, blurred>>
     \/ /\ e.k = "bad"
        /\ UNCHANGED <<m, rest, view, blurred, outq>>
  /\ UNCHANGED <<desk, link, sock, wch, req, following, gap, torn, astray, res, changes>>

(* The ticker: merged output that is due.  A pump whose reader has ended   *)
(* can flush until it finds the queue closed.                              *)
PumpFlushes(i) ==
  /\ rest = <<>> /\ m.pend[i].on
  /\ Hand(FlushDue(m, i))
  /\ UNCHANGED <<desk, link, outq, sock, evq, wch, req, following, view, history>>

(* dispatch_to_watchers waits for room.                                    *)
PumpHandsOut ==
  /\ rest # <<>> /\ Len(wch) < WatcherQueue
  /\ wch' = Append(wch, Head(rest)) /\ rest' = Tail(rest)
  /\ UNCHANGED <<desk, link, outq, sock, evq, req, m, following, view, history>>

-----------------------------------------------------------------------------
(* The watchers, taken together: each event enters the caches of the       *)
(* runtime, where output is appended only at the offset it is meant for;   *)
(* on a turn or an attention the queue and the power coordinator first ask *)
(* for the runtime snapshot, whose owner is looked for anew each time.     *)
ViewOf(v, e) ==
  CASE e.k = "append" ->
         [v EXCEPT !.out[e.t] = IF e.at # @.n THEN @
                                ELSE [w |-> IF @.n = 0 \/ e.w = @.w THEN e.w ELSE -1,
                                      n |-> @.n + e.n]]
    [] e.k = "replace" -> [v EXCEPT !.out[e.t] = [w |-> e.w, n |-> e.n]]
    [] e.k = "final" -> [v EXCEPT !.wrong = @ \/ v.out[e.t].n # e.n]
    [] e.k = "turn" -> [v EXCEPT !.run = e.run]
    [] e.k = "attention" -> [v EXCEPT !.q = e.q]
    [] OTHER -> v

(* ensure_owner: without a client there is nobody to ask.                  *)
EnsureOwner ==
  IF conn = 0 THEN UNCHANGED <<req, outq>>
  ELSE /\ req' = [req EXCEPT !["w"].ph = "owner", !["w"].id = @ + 1, !["w"].h = conn]
       /\ outq' = Sent(conn, <<OwnerRequest(req["w"].id + 1)>>)

WatcherTakes ==
  LET e == Head(wch) IN
  /\ wch # <<>> /\ req["w"].ph = "idle"
  /\ wch' = Tail(wch) /\ view' = ViewOf(view, e)
  /\ IF e.k \in {"turn", "attention"} THEN EnsureOwner ELSE UNCHANGED <<req, outq>>
  /\ UNCHANGED <<desk, link, sock, evq, rest, m, following, history>>

WatcherGoesOn ==
  /\ req["w"].ph = "owned"
  /\ req' = [req EXCEPT !["w"] = Ended(@)]
  /\ UNCHANGED <<desk, link, outq, sock, evq, rest, wch, m, following, view, history>>

-----------------------------------------------------------------------------
(* follow_locked: with a client, and not followed yet, mark the session as *)
(* followed and tell Desktop; subscribe.                                   *)
FollowLocked ==
  /\ conn # 0 /\ ~following
  /\ following' = TRUE
  /\ outq' = Sent(conn, <<FollowMessage>>)

Subscribe ==
  /\ FollowLocked
  /\ UNCHANGED <<desk, link, sock, evq, rest, wch, req, m, view, history>>

(* refresh_snapshot, from where the owner is confirmed: take the client;   *)
(* mark and follow, ask for the complete history; wait for its revision.   *)
RefreshStarts ==
  /\ conn # 0 /\ req["r"] = NoReq
  /\ req' = [req EXCEPT !["r"] = [NoReq EXCEPT !.ph = "client", !.id = 1, !.h = conn,
                                               !.ag = desk.gen, !.ar = desk.rev]]
  /\ UNCHANGED <<desk, link, outq, sock, evq, rest, wch, m, following, view, history>>

RefreshAsks ==
  /\ req["r"].ph = "client"
  /\ req' = [req EXCEPT !["r"].ph = "load"]
  /\ astray' = (astray \/ (~following /\ req["r"].h # conn))
  /\ following' = TRUE
  /\ outq' = Sent(req["r"].h, <<FollowMessage, LoadRequest("r", 1)>>)
  /\ UNCHANGED <<desk, link, sock, evq, rest, wch, m, view, gap, torn, blurred, res, changes>>

ReachedAtOnce == m.has  \* mutant: any snapshot will do
Reached == m.has /\ m.rev >= req["r"].rev

(* History: the snapshot a refresh gets, against what Desktop had when it  *)
(* was called; an older one is "former" when it is still the state of the  *)
(* owner before the one that answered: only the revisions are compared,    *)
(* and those of two owners say nothing about each other.                   *)
Compared(r) == IF m.gen > r.ag \/ (m.gen = r.ag /\ m.rev >= r.ar) THEN "fresh"
               ELSE IF m.gen < r.gen THEN "former" ELSE "stale"

RefreshEnds ==
  /\ req["r"].ph = "loaded"
  /\ req' = [req EXCEPT !["r"] = Ended(@)]
  /\ \/ Reached /\ res' = Compared(req["r"])
     \/ ~Reached /\ UNCHANGED res  \* SNAPSHOT_WAIT is over
  /\ UNCHANGED <<desk, link, outq, sock, evq, rest, wch, m, following, view,
                 gap, torn, astray, blurred, changes>>

-----------------------------------------------------------------------------
(* attach_supervisor tries again and again while there is no connection.   *)
Detached == ~open

(* connect: the handshake succeeds if Desktop is there.                    *)
NewClient ==
  /\ desk.up
  /\ conn' = conn + 1 /\ open' = TRUE /\ wire' = TRUE
  /\ sock' = <<>> /\ evq' = <<>>

(* try_attach: a new client and a new pump; the old pump is aborted        *)
(* wherever it is; followed sessions are followed again.                   *)
Attach ==
  /\ Detached /\ NewClient
  /\ rest' = <<>>
  /\ outq' = IF following THEN <<FollowMessage>> ELSE <<>>
  /\ torn' = (torn \/ rest # <<>>) /\ astray' = FALSE
  /\ UNCHANGED <<desk, wch, req, m, following, view, gap, blurred, res, changes>>

-----------------------------------------------------------------------------
(* The Bridge starts with Desktop running, or before it; the conversation  *)
(* is new, or in its first turn with some output.                          *)
Started == [NewConversation EXCEPT !.t = 1, !.run = TRUE, !.out[1].n = 1]

Init ==
  /\ \E up \in BOOLEAN, st \in {NewConversation, Started} :
       /\ desk = [up |-> up, gen |-> 0, rev |-> 0, st |-> st, follows |-> FALSE]
       /\ conn = (IF up THEN 1 ELSE 0) /\ open = up /\ wire = up
  /\ outq = <<>> /\ sock = <<>> /\ evq = <<>> /\ rest = <<>> /\ wch = <<>>
  /\ req = [c \in Callers |-> NoReq]
  /\ m = NewMapper /\ following = FALSE
  /\ view = [run |-> FALSE, q |-> FALSE, out |-> [i \in Turns |-> Empty], wrong |-> FALSE]
  /\ gap = "none" /\ torn = FALSE /\ astray = FALSE /\ blurred = {} /\ res = "none"
  /\ changes = 0

BridgeSteps ==
  \/ ReaderDispatches \/ ReaderEnds \/ PumpTakes \/ PumpHandsOut
  \/ WatcherTakes \/ WatcherGoesOn
  \/ RefreshAsks \/ RefreshEnds \/ Attach
  \/ \E i \in Turns : PumpFlushes(i)

Next ==
  \/ \E p \in Steps(desk.st) : DeskChanges(p)
  \/ DeskHandles \/ DeskQuits \/ DeskStarts \/ DeskChangesOwner
  \/ Subscribe \/ RefreshStarts
  \/ \E c \in Callers : RequestTimesOut(c)
  \/ BridgeSteps

(* Fairness: every task of the Bridge that can go on goes on (each is its  *)
(* own task; only one of these steps of a task is possible at a time), and *)
(* timeouts come.  Desktop owes nothing.                                   *)
Spec ==
  /\ Init /\ [][Next]_vars
  /\ WF_vars(ReaderDispatches) /\ WF_vars(ReaderEnds)
  /\ WF_vars(PumpTakes) /\ WF_vars(PumpHandsOut)
  /\ WF_vars(WatcherTakes) /\ WF_vars(WatcherGoesOn)
  /\ \A c \in Callers : WF_vars(RequestTimesOut(c))

-----------------------------------------------------------------------------
(* Properties                                                              *)

(* Types, the bounds of the queues; only followed sessions have a state.   *)
TypeOK ==
  /\ desk.up \in BOOLEAN /\ desk.gen \in 0 .. MaxRestarts /\ desk.rev \in 0 .. MaxChanges
  /\ conn \in Nat /\ open \in BOOLEAN /\ wire \in BOOLEAN
  /\ Len(evq) <= EventQueue /\ Len(wch) <= WatcherQueue
  /\ req \in [Callers -> [ph : {"idle", "owner", "owned", "client", "load", "loaded"},
                          id : Nat, h : 0 .. conn, gen : Nat, rev : Nat, ag : Nat, ar : Nat]]
  /\ following \in BOOLEAN /\ blurred \subseteq Turns
  /\ wire => open /\ desk.up
  /\ m.has => following

(* Nothing is on its way between Desktop and the mapper.                   *)
Settled == open /\ wire /\ outq = <<>> /\ sock = <<>> /\ evq = <<>>

(* Once everything sent has been handled, the projection of a followed     *)
(* conversation is Desktop's current state, across changes that could not  *)
(* be parsed or applied, restarts of Desktop and changes of the owner.     *)
(* Three cases are excused, in which the code leaves the projection behind *)
(* until the next change: the latest change could not be parsed (dispatch  *)
(* counts on a snapshot, but pump_loop ignores UnknownBroadcast), Desktop  *)
(* refused the complete history the pump asked for last (it drops the      *)
(* error), or a refresh marked the session as followed on a client that    *)
(* was being replaced (apply_patches, pump_loop, try_attach,               *)
(* follow_locked, refresh_snapshot).                                       *)
ProjectionIsCurrent ==
  Settled /\ following /\ gap = "none" /\ ~astray =>
    desk.follows /\ m.has /\ m.st = desk.st /\ m.rev = desk.rev /\ m.gen = desk.gen

(* Once the watcher has handled its events it knows the turn, the          *)
(* attentions and, up to what is still to be merged, the output the mapper *)
(* has, and every closing length was right - unless a pump was aborted in  *)
(* the middle, and for outputs rewritten at the same length                *)
(* (apply_snapshot, output_delta_events, dispatch_to_watchers).            *)
WatcherKnows ==
  rest = <<>> /\ wch = <<>> /\ m.has /\ ~torn =>
    /\ view.run = m.st.run /\ view.q = m.st.q
    /\ blurred = {} =>
         /\ ~view.wrong
         /\ \A i \in Turns \ blurred :
              ViewOf(view, IF m.pend[i].on THEN Pending(i, m.pend[i])[1] ELSE [k |-> "none"]).out[i]
                = (IF m.st.out[i].n = 0 THEN view.out[i] ELSE m.st.out[i])

(* refresh_snapshot returns nothing older than what Desktop had when it    *)
(* was called, as long as the conversation has kept its first owner.  One  *)
(* case is excused once the owner has changed: the mapper still has the    *)
(* state of an owner before the one that answered, at a revision that      *)
(* happens to be large enough ("former": refresh_snapshot compares         *)
(* revisions only, and those of two owners are not comparable).            *)
RefreshIsFresh == res # "stale" /\ (res = "former" => desk.gen > 0)

(* The backlog drains again and again: when the watcher asks while the     *)
(* pump waits for it, the reader waits for the pump and the answer waits   *)
(* behind the events, the timeout of the request gets all four going       *)
(* (ReaderDispatches, PumpHandsOut, WatcherTakes, RequestTimesOut).        *)
BacklogDrains ==
  []<>(wch = <<>> /\ rest = <<>> /\ evq = <<>> /\ (open => sock = <<>>))

=============================================================================
