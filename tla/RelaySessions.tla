---------------------------- MODULE RelaySessions ----------------------------
(***************************************************************************)
(* The Relay's session summaries and the push notifications made from      *)
(* them.  Every connection of a Bridge is read by a loop of its own; the   *)
(* loop writes the summaries to the database and awaits push::notify       *)
(* before it reads the next envelope.  A second connection of the same     *)
(* device asks the first to close, but the first sees that only when it is *)
(* back in its select, so two loops of one device overlap.                 *)
(*                                                                         *)
(*   row       session_summaries of the device: connection shown, position *)
(*             in the list (last_updated_at), muted, archived              *)
(*   enabled   notification_settings: the kinds switched on                *)
(*   subs      push_subscriptions: id to endpoint                          *)
(*   dedup     PushState.dedup: the (session, kind) pairs in the window    *)
(*   loop      the read loops, with notify's local variables               *)
(*   put       a PUT of the settings between its read and its write        *)
(*   walk      a Browser going through the pages of GET /sessions: cursor, *)
(*             how often each session was shown, the ones that stayed      *)
(*   told      how often a subscription was told of a kind (history)       *)
(*   expired   how often the window of a pair ended (history)              *)
(*   lost      the last write of OFFLINE did not happen (history)          *)
(*   left      what is left of the bounds                                  *)
(*                                                                         *)
(* Relay: sessions/store.rs, sessions/mod.rs, push/mod.rs,                 *)
(* devices/bridge_ws.rs, realtime/mod.rs (handle_bridge_envelope).         *)
(***************************************************************************)
EXTENDS Naturals, Sequences, FiniteSets, SequencesExt

CONSTANTS Loops,        \* connections of the device
          NSessions,    \* sessions are 1..NSessions, the order of their ids
          Kinds,        \* PushEventKind
          SubIds, Endpoints, NoEndpoint,
          PageSize,     \* page size of GET /sessions
          Setups        \* bounds: how often each thing may happen, the last
                        \* last_updated_at (time), and whether push is
                        \* configured (push = 1)

Sessions == 1..NSessions

Budgets == {"connects", "envelopes", "changes", "expiries", "walks", "faults",
            "restarts", "time", "push"}

ASSUME SessionsAssumption ==
  /\ NSessions \in Nat \ {0} /\ PageSize \in Nat \ {0}
  /\ IsFiniteSet(Loops) /\ IsFiniteSet(Kinds)
  /\ Setups \subseteq [Budgets -> Nat]

VARIABLES row, enabled, subs, dedup, loop, put, walk, told, expired, lost, left

vars == <<row, enabled, subs, dedup, loop, put, walk, told, expired, lost, left>>

db == <<row, enabled, subs>>

history == <<told, expired, lost>>

Summaries == [known : BOOLEAN, online : BOOLEAN, at : Nat, muted : BOOLEAN, archived : BOOLEAN]

NoRow == [known |-> FALSE, online |-> FALSE, at |-> 0, muted |-> FALSE, archived |-> FALSE]

(* ph: where the loop is; closed: its close signal; s, todo: the triggers  *)
(* being notified; targets: subscriptions still to send to; gone: the one  *)
(* to delete; free: what allowed the trigger since it was taken up         *)
(* (history).                                                              *)
LoopStates == [ph : {"out", "joining", "reading", "find", "decide", "load", "send", "gone",
                     "leaving"},
               closed : BOOLEAN, s : Sessions, todo : Seq(Kinds), targets : SUBSET SubIds,
               gone : SUBSET SubIds, free : SUBSET {"unmuted", "switched on", "read failed"}]

Idle == [ph |-> "out", closed |-> FALSE, s |-> 1, todo |-> <<>>, targets |-> {}, gone |-> {}, free |-> {}]

NoPut == [ph |-> "none", cur |-> {}, change |-> {}, on |-> FALSE]

NoWalk == [ph |-> "none", after |-> <<>>, seen |-> [s \in Sessions |-> 0], due |-> {}]

Init ==
  /\ row = [s \in Sessions |-> NoRow]
  /\ enabled = Kinds                     \* Settings::default
  /\ subs \in {f \in [SubIds -> Endpoints \cup {NoEndpoint}] :
                \A i, j \in SubIds : f[i] = f[j] => i = j \/ f[i] = NoEndpoint}
  /\ dedup = {}
  /\ loop = [c \in Loops |-> Idle]
  /\ put = NoPut
  /\ walk = NoWalk
  /\ told = [i \in SubIds |-> [p \in Sessions \X Kinds |-> 0]]
  /\ expired = [p \in Sessions \X Kinds |-> 0]
  /\ lost = FALSE
  /\ left \in Setups

Spend(b) == /\ left[b] > 0
            /\ left' = [left EXCEPT ![b] = @ - 1]

(* A database call that fails: its caller goes on without it.              *)
Fault == Spend("faults")

(* The list shows an unarchived session in the order of (at, id).          *)
Listed(r, s) == r[s].known /\ ~r[s].archived

Before(r, s, t) == \/ r[s].at > r[t].at
                   \/ r[s].at = r[t].at /\ s > t

(* Sessions whose place in the list a change of row leaves alone.          *)
Unmoved(r) == {s \in Sessions : Listed(r, s) = Listed(row, s) /\ r[s].at = row[s].at}

SetRow(r) == /\ row' = r
             /\ walk' = [walk EXCEPT !.due = @ \cap Unmoved(r)]

(* What now allows the trigger (s, k).                                     *)
Allows(r, e, s, k) == (IF r[s].muted THEN {} ELSE {"unmuted"})
                        \cup (IF k \in e THEN {"switched on"} ELSE {})

Freed(r, e) ==
  [c \in Loops |-> IF loop[c].todo = <<>> THEN loop[c]
                   ELSE [loop[c] EXCEPT !.free = @ \cup Allows(r, e, loop[c].s, Head(loop[c].todo))]]

-----------------------------------------------------------------------------
(* The loop of a connection                                                *)

(* bridge_session: force_close_bridge (the other loop sees it later), then *)
(* register_bridge.                                                        *)
Connect(c) ==
  /\ loop[c].ph = "out"
  /\ Spend("connects")
  /\ loop' = [d \in Loops |-> IF d = c THEN [Idle EXCEPT !.ph = "joining"]
                              ELSE [loop[d] EXCEPT !.closed = loop[d].ph # "out"]]
  /\ UNCHANGED <<db, dedup, put, walk, history>>

(* set_device_connection on every row of the device.                       *)
Shown(b) == [s \in Sessions |-> IF row[s].known THEN [row[s] EXCEPT !.online = b] ELSE row[s]]

ShowOnline(c) ==
  /\ loop[c].ph = "joining"
  /\ \/ SetRow(Shown(TRUE)) /\ UNCHANGED left
     \/ Fault /\ UNCHANGED <<row, walk>>
  /\ loop' = [loop EXCEPT ![c].ph = "reading"]
  /\ UNCHANGED <<enabled, subs, dedup, put, history>>

(* upsert_summary_batch: the summary's columns are overwritten, among them *)
(* the connection the Bridge reports of itself; pinned, muted and archived *)
(* are not in the statement.                                               *)
Upserted(s, t) == [row EXCEPT ![s] = [@ EXCEPT !.known = TRUE, !.online = TRUE, !.at = t]]

(* SessionSummaryBatch: the database first, then the triggers.             *)
SummaryBatch(c, s, t, ks) ==
  /\ loop[c].ph = "reading"
  /\ \/ Spend("envelopes") /\ SetRow(Upserted(s, t))
     \/ /\ left.envelopes > 0 /\ left.faults > 0
        /\ left' = [left EXCEPT !.envelopes = @ - 1, !.faults = @ - 1]
        /\ UNCHANGED <<row, walk>>
  /\ loop' = [loop EXCEPT ![c] = [@ EXCEPT !.ph = IF ks = <<>> THEN "reading" ELSE "find",
                                           !.s = s, !.todo = ks]]
  /\ UNCHANGED <<enabled, subs, dedup, put, history>>

(* EventBatch or RuntimeSnapshot of a detail stream: only triggers.        *)
EventBatch(c, s, ks) ==
  /\ loop[c].ph = "reading" /\ ks # <<>>
  /\ Spend("envelopes")
  /\ loop' = [loop EXCEPT ![c] = [@ EXCEPT !.ph = "find", !.s = s, !.todo = ks]]
  /\ UNCHANGED <<db, dedup, put, walk, history>>

(* The next trigger of the batch, or back to select.                       *)
NextTrigger(l) == [l EXCEPT !.ph = IF Len(l.todo) > 1 THEN "find" ELSE "reading",
                            !.todo = Tail(l.todo), !.targets = {}, !.free = {}]

(* Mutant: the mute is not looked at.                                      *)
FindSessionMutedToo(c) ==
  LET l == loop[c] IN
  /\ l.ph = "find"
  /\ loop' = [loop EXCEPT ![c] = IF ~row[l.s].known THEN NextTrigger(l)
                                 ELSE [l EXCEPT !.ph = "decide",
                                                !.free = Allows(row, enabled, l.s, Head(l.todo))]]
  /\ UNCHANGED <<db, dedup, put, walk, history, left>>

(* find_session and the mute; an unknown session or a failed read drops    *)
(* the trigger.                                                            *)
FindSession(c) ==
  LET l == loop[c] IN
  /\ l.ph = "find"
  /\ \/ /\ row[l.s].known /\ ~row[l.s].muted
        /\ loop' = [loop EXCEPT ![c].ph = "decide",
                                ![c].free = Allows(row, enabled, l.s, Head(l.todo))]
        /\ UNCHANGED left
     \/ /\ IF row[l.s].known /\ ~row[l.s].muted THEN Fault ELSE UNCHANGED left
        /\ loop' = [loop EXCEPT ![c] = NextTrigger(l)]
  /\ UNCHANGED <<db, dedup, put, walk, history>>

(* load_settings: a failed read yields the defaults, everything on.        *)
LoadSettings(e, read) ==
  \/ e = enabled /\ read = {} /\ UNCHANGED left
  \/ e = Kinds /\ read = {"read failed"} /\ Fault

(* Mutant: the pair is looked up but not recorded.                         *)
DecideUnrecorded(c) ==
  /\ loop[c].ph = "decide"
  /\ loop' = [loop EXCEPT ![c] = IF Head(@.todo) \in enabled /\ <<@.s, Head(@.todo)>> \notin dedup
                                 THEN [@ EXCEPT !.ph = "load"] ELSE NextTrigger(@)]
  /\ UNCHANGED <<db, dedup, put, walk, history, left>>

(* The rest of the decision runs in one step under the mutex of            *)
(* dedup_allow.  The pair is recorded before the subscriptions are read    *)
(* and before anything is sent.                                            *)
Decide(c) ==
  LET l == loop[c]
      p == <<l.s, Head(l.todo)>>
  IN
  /\ l.ph = "decide"
  /\ \E e \in SUBSET Kinds, read \in {{}, {"read failed"}} :
       /\ LoadSettings(e, read)
       /\ LET allow == p[2] \in e /\ p \notin dedup IN
          /\ dedup' = IF allow THEN dedup \cup {p} ELSE dedup
          /\ loop' = [loop EXCEPT ![c] = IF allow THEN [l EXCEPT !.ph = "load", !.free = l.free \cup read]
                                                  ELSE NextTrigger(l)]
  /\ UNCHANGED <<db, put, walk, history>>

(* The subscriptions of the owner; none when the read fails.               *)
LoadSubscriptions(c) ==
  /\ loop[c].ph = "load"
  /\ \E T \in {{i \in SubIds : subs[i] # NoEndpoint}, {}} :
       /\ IF \E i \in SubIds : subs[i] # NoEndpoint /\ i \notin T THEN Fault ELSE UNCHANGED left
       /\ loop' = [loop EXCEPT ![c] = IF T = {} THEN NextTrigger(@)
                                      ELSE [@ EXCEPT !.ph = "send", !.targets = T]]
  /\ UNCHANGED <<db, dedup, put, walk, history>>

(* Subscription i is done: the next one, the next trigger, or select.      *)
Done(l, i) == IF l.targets = {i} THEN NextTrigger(l)
              ELSE [l EXCEPT !.ph = "send", !.targets = @ \ {i}]

(* sender.send: delivered, failed for now, or the endpoint is gone.        *)
Send(c, i) ==
  LET l == loop[c] IN
  /\ l.ph = "send" /\ i \in l.targets
  /\ \/ /\ loop' = [loop EXCEPT ![c] = Done(@, i)]
        /\ told' = [told EXCEPT ![i][<<l.s, Head(l.todo)>>] = @ + 1]
     \/ /\ loop' = [loop EXCEPT ![c] = Done(@, i)]
        /\ UNCHANGED told
     \/ /\ loop' = [loop EXCEPT ![c].ph = "gone", ![c].gone = {i}]
        /\ UNCHANGED told
  /\ UNCHANGED <<db, dedup, put, walk, expired, lost, left>>

(* DELETE by id, whatever endpoint the subscription has by now.            *)
DeleteGone(c) ==
  /\ loop[c].ph = "gone"
  /\ \E i \in loop[c].gone :
       /\ \/ subs' = [subs EXCEPT ![i] = NoEndpoint] /\ UNCHANGED left
          \/ Fault /\ UNCHANGED subs
       /\ loop' = [loop EXCEPT ![c] = Done([@ EXCEPT !.gone = {}], i)]
  /\ UNCHANGED <<row, enabled, dedup, put, walk, history>>

(* In select only: the socket ended, no frame for OFFLINE_AFTER, or the    *)
(* close signal of a newer connection.                                     *)
Leave(c) ==
  /\ loop[c].ph = "reading"
  /\ loop' = [loop EXCEPT ![c].ph = "leaving"]
  /\ UNCHANGED <<db, dedup, put, walk, history, left>>

(* Mutant: a loop that was asked to close leaves the rows to the newer     *)
(* connection.                                                             *)
ShowOfflineUnlessClosed(c) ==
  /\ loop[c].ph = "leaving"
  /\ IF loop[c].closed THEN UNCHANGED <<row, walk, lost>>
                       ELSE SetRow(Shown(FALSE)) /\ lost' = FALSE
  /\ loop' = [loop EXCEPT ![c] = Idle]
  /\ UNCHANGED <<enabled, subs, dedup, put, told, expired, left>>

(* The cleanup shows OFFLINE, whether or not another connection of the     *)
(* device is open.                                                         *)
ShowOffline(c) ==
  /\ loop[c].ph = "leaving"
  /\ \/ SetRow(Shown(FALSE)) /\ lost' = FALSE /\ UNCHANGED left
     \/ Fault /\ lost' = TRUE /\ UNCHANGED <<row, walk>>
  /\ loop' = [loop EXCEPT ![c] = Idle]
  /\ UNCHANGED <<enabled, subs, dedup, put, told, expired>>

(* The 60 seconds of a pair are over.                                      *)
WindowEnds(p) ==
  /\ p \in dedup
  /\ Spend("expiries")
  /\ dedup' = dedup \ {p}
  /\ expired' = [expired EXCEPT ![p] = @ + 1]
  /\ UNCHANGED <<db, loop, put, walk, told, lost>>

(* The Relay stops and starts: loops and dedup are gone, the database is   *)
(* as it was; nothing shows the sessions offline.                          *)
Restart ==
  /\ Spend("restarts")
  /\ loop' = [c \in Loops |-> Idle]
  /\ lost' = (lost \/ \E c \in Loops : loop[c].ph # "out")
  /\ dedup' = {}
  /\ expired' = [p \in Sessions \X Kinds |-> expired[p] + Cardinality(dedup \cap {p})]
  /\ put' = NoPut
  /\ UNCHANGED <<db, walk, told>>

-----------------------------------------------------------------------------
(* The Browsers' requests                                                  *)

(* patch_session: one UPDATE of the preferences named in the body.         *)
PatchPrefs(s, m, a) ==
  LET r == [row EXCEPT ![s].muted = m, ![s].archived = a] IN
  /\ row[s].known /\ r # row
  /\ Spend("changes")
  /\ SetRow(r)
  /\ loop' = Freed(r, enabled)
  /\ UNCHANGED <<enabled, subs, dedup, put, history>>

(* put_settings reads the row (the defaults when that fails) ...           *)
PutSettings(K, on) ==
  /\ put.ph = "none"
  /\ \/ Spend("changes") /\ put' = [ph |-> "read", cur |-> enabled, change |-> K, on |-> on]
     \/ /\ left.changes > 0 /\ left.faults > 0
        /\ left' = [left EXCEPT !.changes = @ - 1, !.faults = @ - 1]
        /\ put' = [ph |-> "read", cur |-> Kinds, change |-> K, on |-> on]
  /\ UNCHANGED <<db, dedup, loop, walk, history>>

(* ... and writes all of it, the fields the body left out as they were.    *)
WriteSettings ==
  LET e == IF put.on THEN put.cur \cup put.change ELSE put.cur \ put.change IN
  /\ put.ph = "read"
  /\ \/ enabled' = e /\ loop' = Freed(row, e) /\ UNCHANGED left
     \/ Fault /\ UNCHANGED <<enabled, loop>>
  /\ put' = NoPut
  /\ UNCHANGED <<row, subs, dedup, walk, history>>

(* create_subscription: a known endpoint keeps its id.                     *)
CreateSubscription(i, e) ==
  /\ subs[i] = NoEndpoint
  /\ \A j \in SubIds : subs[j] # e
  /\ Spend("changes")
  /\ subs' = [subs EXCEPT ![i] = e]
  /\ UNCHANGED <<row, enabled, dedup, loop, put, walk, history>>

(* update_subscription keeps the id; an endpoint of another subscription   *)
(* violates the key and changes nothing.                                   *)
UpdateSubscription(i, e) ==
  /\ subs[i] # NoEndpoint
  /\ \A j \in SubIds : subs[j] # e
  /\ Spend("changes")
  /\ subs' = [subs EXCEPT ![i] = e]
  /\ UNCHANGED <<row, enabled, dedup, loop, put, walk, history>>

DeleteSubscription(i) ==
  /\ subs[i] # NoEndpoint
  /\ Spend("changes")
  /\ subs' = [subs EXCEPT ![i] = NoEndpoint]
  /\ UNCHANGED <<row, enabled, dedup, loop, put, walk, history>>

-----------------------------------------------------------------------------
(* GET /sessions, page by page                                             *)

StartWalk ==
  /\ walk.ph = "none"
  /\ Spend("walks")
  /\ walk' = [NoWalk EXCEPT !.ph = "open", !.due = {s \in Sessions : Listed(row, s)}]
  /\ UNCHANGED <<db, dedup, loop, put, history>>

(* Mutant: the cursor compares the time only.                              *)
AfterCursorTime(s) == walk.after = <<>> \/ row[s].at < walk.after[1]

(* The keyset condition (last_updated_at, id) < cursor.                    *)
AfterCursor(s) ==
  walk.after = <<>> \/ row[s].at < walk.after[1] \/ (row[s].at = walk.after[1] /\ s < walk.after[2])

(* ORDER BY ... LIMIT n: the rows with fewer than n rows before them.       *)
FirstRows(rows, n) == {s \in rows : Cardinality({t \in rows : Before(row, t, s)}) < n}

(* list_sessions fetches one row more than the page; when there is one,    *)
(* nextCursor is the last row that is returned.                            *)
Page ==
  LET rows == {s \in Sessions : Listed(row, s) /\ AfterCursor(s)}
      more == Cardinality(rows) > PageSize
      got  == IF more THEN FirstRows(rows, PageSize) ELSE rows
      last == CHOOSE s \in got : \A t \in got : ~Before(row, s, t)
  IN
  /\ walk.ph = "open"
  /\ walk' = [walk EXCEPT !.ph = IF more THEN "open" ELSE "end",
                          !.after = IF more THEN <<row[last].at, last>> ELSE <<>>,
                          !.seen = [s \in Sessions |-> @[s] + (IF s \in got THEN 1 ELSE 0)]]
  /\ UNCHANGED <<db, dedup, loop, put, history, left>>

-----------------------------------------------------------------------------
(* triggers_from_event over the events of an envelope, here each kind at   *)
(* most once; notify returns at once when push is not configured.          *)
Triggers == {ks \in BoundedSeq(Kinds, Cardinality(Kinds)) :
               IsInjective(ks) /\ (left.push = 0 => ks = <<>>)}

Next ==
  \/ \E c \in Loops :
       \/ Connect(c) \/ ShowOnline(c) \/ FindSession(c) \/ Decide(c) \/ LoadSubscriptions(c)
       \/ DeleteGone(c) \/ Leave(c) \/ ShowOffline(c)
       \/ \E s \in Sessions, t \in 0..left.time, ks \in Triggers : SummaryBatch(c, s, t, ks)
       \/ \E s \in Sessions, ks \in Triggers : EventBatch(c, s, ks)
       \/ \E i \in SubIds : Send(c, i)
  \/ \E p \in Sessions \X Kinds : WindowEnds(p)
  \/ Restart
  \/ \E s \in Sessions, m, a \in BOOLEAN : PatchPrefs(s, m, a)
  \/ \E k \in Kinds, on \in BOOLEAN : PutSettings({k}, on)
  \/ WriteSettings
  \/ \E i \in SubIds, e \in Endpoints : CreateSubscription(i, e) \/ UpdateSubscription(i, e)
  \/ \E i \in SubIds : DeleteSubscription(i)
  \/ StartWalk \/ Page

Spec == Init /\ [][Next]_vars

-----------------------------------------------------------------------------
(* Types, and notify's position: it has a trigger in hand exactly while it *)
(* runs, and targets only while it sends.                                  *)
TypeOK ==
  /\ row \in [Sessions -> Summaries]
  /\ enabled \subseteq Kinds
  /\ subs \in [SubIds -> Endpoints \cup {NoEndpoint}]
  /\ dedup \subseteq Sessions \X Kinds
  /\ loop \in [Loops -> LoopStates]
  /\ \A c \in Loops :
       /\ (loop[c].todo # <<>>) <=> (loop[c].ph \in {"find", "decide", "load", "send", "gone"})
       /\ (loop[c].targets # {}) <=> (loop[c].ph \in {"send", "gone"})
       /\ (loop[c].gone # {}) <=> (loop[c].ph = "gone")
  /\ put.cur \subseteq Kinds /\ put.change \subseteq Kinds
  /\ walk.seen \in [Sessions -> Nat] /\ walk.due \subseteq Sessions
  /\ told \in [SubIds -> [Sessions \X Kinds -> Nat]]
  /\ expired \in [Sessions \X Kinds -> Nat]
  /\ lost \in BOOLEAN
  /\ left \in [Budgets -> Nat]

(* A subscription hears of one kind of one session at most once in a       *)
(* window of 60 seconds, although the list stream and the detail stream    *)
(* both announce it and two loops of the device may run notify at once     *)
(* (dedup_allow).  The windows are in memory only, so a restart of the     *)
(* Relay ends every one of them.                                           *)
OncePerWindow ==
  \A i \in SubIds : \A p \in Sessions \X Kinds : told[i][p] <= 1 + expired[p]

(* Nothing is sent for a session that was muted, or for a kind that was    *)
(* switched off, all the time since notify took the trigger up; only a     *)
(* failed read of the settings counts as switched on.                      *)
QuietWhenTold ==
  \A c \in Loops :
    loop[c].ph \in {"load", "send", "gone"} =>
      "unmuted" \in loop[c].free /\ loop[c].free # {"unmuted"}

(* With no connection left, every session of the device is shown offline,  *)
(* in whatever order two overlapping loops wrote their states; unless the  *)
(* last write of OFFLINE failed or the Relay stopped before it.            *)
OfflineAtRest ==
  ((\A c \in Loops : loop[c].ph = "out") /\ ~lost) => \A s \in Sessions : ~row[s].online

(* A walk through the pages of the list shows a session that stays where   *)
(* it is exactly once, whatever moves around it meanwhile (the keyset      *)
(* cursor, ties of last_updated_at included).                              *)
UnmovedListedOnce ==
  walk.ph = "end" => \A s \in walk.due : walk.seen[s] = 1
=============================================================================
