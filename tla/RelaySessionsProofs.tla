------------------------ MODULE RelaySessionsProofs -------------------------
(***************************************************************************)
(* TLAPS proofs about RelaySessions: one notification per window, none     *)
(* that was switched off, a device without connections is offline, and a   *)
(* walk through the pages of the list shows an unmoved session once.       *)
(***************************************************************************)
EXTENDS RelaySessions, FiniteSetTheorems, TLAPS

Pairs == Sessions \X Kinds

\* A loop in this state may yet tell subscription i of the pair p.
Tells(l, i, p) ==
    /\ l.ph = "load" \/ (l.ph \in {"send", "gone"} /\ i \in l.targets)
    /\ p = <<l.s, Head(l.todo)>>
Tellers(i, p) == {c \in Loops : Tells(loop[c], i, p)}

\* What was told and what may yet be told was allowed, once per window.
Count(b) == IF b THEN 1 ELSE 0
Windowed(i, p) ==
    told[i][p] + Cardinality(Tellers(i, p)) <= expired[p] + Count(p \in dedup)

\* notify has a trigger in hand exactly while it runs.
InHand(l) == l.todo # <<>> <=> l.ph \in {"find", "decide", "load", "send", "gone"}

\* What allowed the trigger: from find_session on it was unmuted at some time,
\* and switched on if it is now; from the decision on it was switched on too.
Permitted(l, e) ==
    /\ l.ph = "decide" =>
          /\ "unmuted" \in l.free
          /\ Head(l.todo) \in e => "switched on" \in l.free
    /\ l.ph \in {"load", "send", "gone"} => "unmuted" \in l.free /\ l.free # {"unmuted"}

\* A session the Relay does not know is not shown online.
UnknownIsOffline == \A s \in Sessions : row[s].online => row[s].known

Types ==
    /\ row \in [Sessions -> Summaries]
    /\ enabled \subseteq Kinds
    /\ dedup \subseteq Pairs
    /\ loop \in [Loops -> LoopStates]
    /\ put.cur \subseteq Kinds /\ put.change \subseteq Kinds
    /\ told \in [SubIds -> [Pairs -> Nat]]
    /\ expired \in [Pairs -> Nat]
    /\ lost \in BOOLEAN
    /\ left \in [Budgets -> Nat]

NotifyInv ==
    /\ Types
    /\ \A i \in SubIds, p \in Pairs : Windowed(i, p)
    /\ \A c \in Loops : InHand(loop[c]) /\ Permitted(loop[c], enabled)
    /\ UnknownIsOffline
    /\ OfflineAtRest

-----------------------------------------------------------------------------
(* The values and the operators. *)

\* A loop that has ended.
LEMMA IdleLoop ==
    /\ Idle \in LoopStates /\ Idle.ph = "out" /\ Idle.todo = <<>>
    /\ \A x \in {"joining"} : [Idle EXCEPT !.ph = x] \in LoopStates
                              /\ [Idle EXCEPT !.ph = x].ph = x /\ [Idle EXCEPT !.ph = x].todo = <<>>
  <1>1. 1 \in Sessions
    BY SessionsAssumption DEF Sessions
  <1>2. <<>> \in Seq(Kinds)
    OBVIOUS
  <1>3. Idle \in LoopStates /\ Idle.ph = "out" /\ Idle.todo = <<>>
    BY <1>1, <1>2 DEF Idle, LoopStates
  <1> QED
    BY <1>3 DEF LoopStates

\* The next trigger of a batch, or back to select.
LEMMA TriggerMoves ==
    ASSUME NEW l \in LoopStates, l.todo # <<>>
    PROVE  /\ NextTrigger(l) \in LoopStates /\ NextTrigger(l).ph \in {"find", "reading"}
           /\ InHand(NextTrigger(l))
  <1>1. l.todo \in Seq(Kinds)
    BY DEF LoopStates
  <1>2. /\ Tail(l.todo) \in Seq(Kinds) /\ Len(l.todo) \in Nat /\ Len(l.todo) > 0
        /\ Len(Tail(l.todo)) = Len(l.todo) - 1
    BY <1>1
  <1>3. Tail(l.todo) # <<>> <=> Len(l.todo) > 1
    <2>1. \A t \in Seq(Kinds) : Len(t) \in Nat /\ (t = <<>> <=> Len(t) = 0)
      OBVIOUS
    <2>2. Tail(l.todo) = <<>> <=> Len(l.todo) - 1 = 0
      <3>1. Tail(l.todo) = <<>> <=> Len(Tail(l.todo)) = 0
        BY <1>2, <2>1
      <3> QED
        BY <1>2, <3>1
    <2>3. \A n \in Nat : n > 0 => (n - 1 = 0 <=> ~(n > 1))
      OBVIOUS
    <2> QED
      BY <1>2, <2>2, <2>3
  <1>4. PICK ph \in {"find", "reading"} : /\ ph = IF Len(l.todo) > 1 THEN "find" ELSE "reading"
                                          /\ ph = "find" <=> Len(l.todo) > 1
    <2>1. CASE Len(l.todo) > 1
      BY <2>1
    <2>2. CASE ~(Len(l.todo) > 1)
      BY <2>2
    <2> QED
      BY <2>1, <2>2
  <1>5. PICK todo \in Seq(Kinds) : todo = Tail(l.todo)
    BY <1>2
  <1>6. NextTrigger(l) = [l EXCEPT !.ph = ph, !.todo = todo, !.targets = {}, !.free = {}]
    BY <1>4, <1>5 DEF NextTrigger
  <1>7. /\ NextTrigger(l) \in LoopStates /\ NextTrigger(l).ph = ph /\ NextTrigger(l).todo = todo
    BY <1>6 DEF LoopStates
  <1> QED
    BY <1>3, <1>4, <1>5, <1>7 DEF InHand

\* A bound is spent.
LEMMA SpendTypes ==
    ASSUME left \in [Budgets -> Nat], NEW b \in Budgets, Spend(b)
    PROVE  left' \in [Budgets -> Nat]
  <1>1. left[b] \in Nat /\ left[b] > 0
    BY DEF Spend
  <1>2. left[b] - 1 \in Nat
    BY <1>1
  <1> QED
    BY <1>2 DEF Spend

\* A database call fails.
LEMMA FaultTypes ==
    ASSUME left \in [Budgets -> Nat], Fault
    PROVE  left' \in [Budgets -> Nat]
  BY SpendTypes DEF Fault, Budgets

\* One loop moves.
LEMMA LoopMoves ==
    ASSUME loop \in [Loops -> LoopStates], NEW c \in Loops, NEW l \in LoopStates,
           loop' = [loop EXCEPT ![c] = l]
    PROVE  /\ loop' \in [Loops -> LoopStates] /\ loop'[c] = l
           /\ \A d \in Loops : d # c => loop'[d] = loop[d]
  OBVIOUS

\* The tellers of a pair are finitely many.
LEMMA TellersFinite ==
    ASSUME NEW i, NEW p
    PROVE  /\ IsFiniteSet(Tellers(i, p)) /\ Cardinality(Tellers(i, p)) \in Nat
           /\ IsFiniteSet(Tellers(i, p)') /\ Cardinality(Tellers(i, p)') \in Nat
  <1>1. Tellers(i, p) \subseteq Loops /\ Tellers(i, p)' \subseteq Loops
    BY DEF Tellers
  <1>2. IsFiniteSet(Tellers(i, p)) /\ IsFiniteSet(Tellers(i, p)')
    BY <1>1, SessionsAssumption, FS_Subset
  <1> QED
    BY <1>2, FS_CardinalityType

\* What the types say of one pair.
LEMMA PairTypes ==
    ASSUME Types, NEW i \in SubIds, NEW p \in Pairs
    PROVE  told[i][p] \in Nat /\ expired[p] \in Nat /\ Count(p \in dedup) \in 0..1
  BY DEF Types, Count

\* The arithmetic of a window: a teller more in a window more, fewer tellers
\* in the same windows, and one that has told.
LEMMA RoomForTeller ==
    \A a, b, d \in Nat :
       /\ a + b <= d + 0 => a + (b + 1) <= d + 1
       /\ \A b1 \in Nat, n \in 0..1 : b1 <= b /\ a + b <= d + n => a + b1 <= d + n
       /\ \A b1 \in Nat, n \in 0..1 : b1 + 1 <= b /\ a + b <= d + n => (a + 1) + b1 <= d + n
  OBVIOUS

\* No new teller, and nothing told.
LEMMA FewerTellers ==
    ASSUME Types, NEW i \in SubIds, NEW p \in Pairs, Windowed(i, p),
           Tellers(i, p)' \subseteq Tellers(i, p), UNCHANGED <<told, expired, dedup>>
    PROVE  Windowed(i, p)'
  <1>1. Cardinality(Tellers(i, p)') <= Cardinality(Tellers(i, p))
    BY TellersFinite, FS_Subset
  <1>2. /\ Cardinality(Tellers(i, p)') \in Nat /\ Cardinality(Tellers(i, p)) \in Nat
        /\ told[i][p] \in Nat /\ expired[p] \in Nat /\ Count(p \in dedup) \in 0..1
    BY TellersFinite, PairTypes
  <1>3. told[i][p] + Cardinality(Tellers(i, p)) <= expired[p] + Count(p \in dedup)
    BY DEF Windowed
  <1>4. told[i][p] + Cardinality(Tellers(i, p)') <= expired[p] + Count(p \in dedup)
    BY <1>1, <1>2, <1>3
  <1>5. told' = told /\ expired' = expired /\ dedup' = dedup
    OBVIOUS
  <1> QED
    BY <1>4, <1>5 DEF Windowed

\* Any number of loops move, and nothing is told or decided.
LEMMA LoopsMove ==
    ASSUME NotifyInv, Types', UNCHANGED <<told, expired, dedup>>,
           \A c \in Loops :
              /\ InHand(loop'[c]) /\ Permitted(loop'[c], enabled')
              /\ \A i \in SubIds, p \in Pairs : Tells(loop'[c], i, p) => Tells(loop[c], i, p),
           UnknownIsOffline', OfflineAtRest'
    PROVE  NotifyInv'
  <1>1. ASSUME NEW i \in SubIds, NEW p \in Pairs PROVE Windowed(i, p)'
    <2>1. Tellers(i, p)' \subseteq Tellers(i, p)
      BY DEF Tellers
    <2>2. Types /\ Windowed(i, p)
      BY DEF NotifyInv
    <2> QED
      BY <2>1, <2>2, FewerTellers
  <1> QED
    BY <1>1 DEF NotifyInv

\* One loop moves and does not end.
LEMMA LoopStep ==
    ASSUME NotifyInv, Types', UNCHANGED <<told, expired, dedup, enabled>>, UnknownIsOffline',
           NEW c \in Loops, NEW l \in LoopStates, loop' = [loop EXCEPT ![c] = l],
           l.ph # "out", InHand(l), Permitted(l, enabled),
           \A i \in SubIds, p \in Pairs : Tells(l, i, p) => Tells(loop[c], i, p)
    PROVE  NotifyInv'
  <1>1. loop'[c] = l /\ \A d \in Loops : d # c => loop'[d] = loop[d]
    BY LoopMoves DEF NotifyInv, Types
  <1>2. OfflineAtRest'
    BY <1>1 DEF OfflineAtRest
  <1>3. ASSUME NEW d \in Loops
        PROVE  /\ InHand(loop'[d]) /\ Permitted(loop'[d], enabled')
               /\ \A i \in SubIds, p \in Pairs : Tells(loop'[d], i, p) => Tells(loop[d], i, p)
    <2>1. CASE d = c
      BY <1>1, <2>1
    <2>2. CASE d # c
      <3>1. loop'[d] = loop[d] /\ InHand(loop[d]) /\ Permitted(loop[d], enabled)
        BY <1>1, <2>2 DEF NotifyInv
      <3> QED
        BY <3>1
    <2> QED
      BY <2>1, <2>2
  <1>4. UNCHANGED <<told, expired, dedup>>
    OBVIOUS
  <1> QED
    BY <1>2, <1>3, <1>4, LoopsMove

\* Only requests, walks and bounds move.
LEMMA QuietStep ==
    ASSUME NotifyInv, Types', UNCHANGED <<row, enabled, dedup, loop, told, expired, lost>>
    PROVE  NotifyInv'
  <1>1. UnknownIsOffline' /\ OfflineAtRest'
    BY DEF NotifyInv, UnknownIsOffline, OfflineAtRest
  <1>2. \A c \in Loops :
           /\ InHand(loop'[c]) /\ Permitted(loop'[c], enabled')
           /\ \A i \in SubIds, p \in Pairs : Tells(loop'[c], i, p) => Tells(loop[c], i, p)
    BY DEF NotifyInv
  <1> QED
    BY <1>1, <1>2, LoopsMove

\* The rows set_device_connection writes.
LEMMA ShownRows ==
    ASSUME NotifyInv, NEW b \in BOOLEAN
    PROVE  /\ Shown(b) \in [Sessions -> Summaries]
           /\ \A s \in Sessions : Shown(b)[s].online => b /\ Shown(b)[s].known
  <1>1. row \in [Sessions -> Summaries] /\ \A s \in Sessions : row[s].online => row[s].known
    BY DEF NotifyInv, Types, UnknownIsOffline
  <1>2. ASSUME NEW s \in Sessions
        PROVE  /\ [row[s] EXCEPT !.online = b] \in Summaries
               /\ [row[s] EXCEPT !.online = b].online = b
               /\ [row[s] EXCEPT !.online = b].known = row[s].known
    <2>1. row[s] \in Summaries
      BY <1>1
    <2> QED
      BY <2>1 DEF Summaries
  <1>3. ASSUME NEW s \in Sessions
        PROVE  Shown(b)[s] \in Summaries /\ (Shown(b)[s].online => b /\ Shown(b)[s].known)
    <2>1. Shown(b)[s] = IF row[s].known THEN [row[s] EXCEPT !.online = b] ELSE row[s]
      BY DEF Shown
    <2>2. CASE row[s].known
      <3>1. Shown(b)[s] = [row[s] EXCEPT !.online = b]
        BY <2>1, <2>2
      <3> QED
        BY <1>2, <2>2, <3>1
    <2>3. CASE ~row[s].known
      BY <1>1, <2>1, <2>3
    <2> QED
      BY <2>2, <2>3
  <1>4. Shown(b) \in [Sessions -> Summaries]
    <2>1. Shown(b) = [s \in Sessions |-> Shown(b)[s]]
      BY DEF Shown
    <2> QED
      BY <1>3, <2>1
  <1> QED
    BY <1>3, <1>4

\* The row upsert_summary_batch writes.
LEMMA UpsertedRows ==
    ASSUME NotifyInv, NEW s \in Sessions, NEW t \in Nat
    PROVE  /\ Upserted(s, t) \in [Sessions -> Summaries]
           /\ \A r \in Sessions : Upserted(s, t)[r].online => Upserted(s, t)[r].known
  <1>1. row \in [Sessions -> Summaries] /\ \A r \in Sessions : row[r].online => row[r].known
    BY DEF NotifyInv, Types, UnknownIsOffline
  <1>2. PICK new \in Summaries :
           /\ new = [row[s] EXCEPT !.known = TRUE, !.online = TRUE, !.at = t]
           /\ new.known
    <2>1. row[s] \in Summaries
      BY <1>1
    <2>2. /\ [row[s] EXCEPT !.known = TRUE, !.online = TRUE, !.at = t] \in Summaries
          /\ [row[s] EXCEPT !.known = TRUE, !.online = TRUE, !.at = t].known
      BY <2>1 DEF Summaries
    <2> QED
      BY <2>2
  <1>3. Upserted(s, t) = [row EXCEPT ![s] = new]
    BY <1>2 DEF Upserted
  <1> QED
    BY <1>1, <1>2, <1>3

\* A loop is at another place with the same trigger.
LEMMA LoopAt ==
    ASSUME NEW l \in LoopStates, NEW x \in {"reading", "leaving", "decide", "load", "send", "gone"}
    PROVE  /\ [l EXCEPT !.ph = x] \in LoopStates
           /\ [l EXCEPT !.ph = x].ph = x /\ [l EXCEPT !.ph = x].todo = l.todo
  BY DEF LoopStates

-----------------------------------------------------------------------------
(* The loop of a connection. *)

\* The device is shown online.
LEMMA ShowOnlineInv ==
    ASSUME NotifyInv, NEW c \in Loops, ShowOnline(c)
    PROVE  NotifyInv'
  <1>1. /\ loop[c].ph = "joining" /\ loop' = [loop EXCEPT ![c].ph = "reading"]
        /\ UNCHANGED <<enabled, subs, dedup, put, told, expired, lost>>
        /\ row' = Shown(TRUE) \/ row' = row
        /\ left' = left \/ Fault
    BY DEF ShowOnline, SetRow, history
  <1>2. loop \in [Loops -> LoopStates] /\ loop[c] \in LoopStates /\ InHand(loop[c])
    BY DEF NotifyInv, Types
  <1>3. PICK l \in LoopStates : /\ l = [loop[c] EXCEPT !.ph = "reading"]
                                /\ l.ph = "reading" /\ l.todo = <<>>
    <2>1. loop[c].todo = <<>>
      BY <1>1, <1>2 DEF InHand
    <2>2. /\ [loop[c] EXCEPT !.ph = "reading"] \in LoopStates
          /\ [loop[c] EXCEPT !.ph = "reading"].ph = "reading"
          /\ [loop[c] EXCEPT !.ph = "reading"].todo = loop[c].todo
      BY <1>2, LoopAt
    <2> QED
      BY <2>1, <2>2
  <1>4. loop' = [loop EXCEPT ![c] = l]
    BY <1>1, <1>3
  <1>5. row' \in [Sessions -> Summaries] /\ UnknownIsOffline'
    BY <1>1, ShownRows DEF NotifyInv, Types, UnknownIsOffline
  <1>6. left' \in [Budgets -> Nat]
    BY <1>1, FaultTypes DEF NotifyInv, Types
  <1>7. Types'
    BY <1>1, <1>2, <1>4, <1>5, <1>6, LoopMoves DEF NotifyInv, Types
  <1>8. InHand(l) /\ Permitted(l, enabled) /\ \A i, p : ~Tells(l, i, p)
    BY <1>3 DEF InHand, Permitted, Tells
  <1> QED
    BY <1>1, <1>3, <1>4, <1>5, <1>7, <1>8, LoopStep

\* The triggers of an envelope are kinds.
LEMMA TriggersTyped == \A ks \in Triggers : ks \in Seq(Kinds)
  <1> SUFFICES ASSUME NEW ks \in Triggers PROVE ks \in Seq(Kinds)
    OBVIOUS
  <1>1. Cardinality(Kinds) \in Nat
    BY SessionsAssumption, FS_CardinalityType
  <1>2. PICK m \in 0 .. Cardinality(Kinds) : ks \in [1..m -> Kinds]
    BY DEF Triggers, BoundedSeq, SeqOf
  <1>3. m \in Nat
    BY <1>1, <1>2
  <1> QED
    BY <1>2, <1>3

\* An envelope with triggers: a loop takes them up.
LEMMA TakesTriggers ==
    ASSUME NotifyInv, NEW c \in Loops, NEW s \in Sessions, NEW ks \in Seq(Kinds),
           loop[c].ph = "reading",
           loop' = [loop EXCEPT ![c] = [loop[c] EXCEPT !.ph = IF ks = <<>> THEN "reading" ELSE "find",
                                                       !.s = s, !.todo = ks]],
           UNCHANGED <<enabled, dedup, put, told, expired, lost>>,
           row' \in [Sessions -> Summaries], UnknownIsOffline', left' \in [Budgets -> Nat]
    PROVE  NotifyInv'
  <1>1. loop \in [Loops -> LoopStates] /\ loop[c] \in LoopStates
    BY DEF NotifyInv, Types
  <1>2. PICK ph \in {"find", "reading"} : /\ ph = IF ks = <<>> THEN "reading" ELSE "find"
                                          /\ ph = "find" <=> ks # <<>>
    OBVIOUS
  <1>3. PICK l \in LoopStates : /\ l = [loop[c] EXCEPT !.ph = ph, !.s = s, !.todo = ks]
                                /\ l.ph = ph /\ l.todo = ks
    <2>1. /\ [loop[c] EXCEPT !.ph = ph, !.s = s, !.todo = ks] \in LoopStates
          /\ [loop[c] EXCEPT !.ph = ph, !.s = s, !.todo = ks].ph = ph
          /\ [loop[c] EXCEPT !.ph = ph, !.s = s, !.todo = ks].todo = ks
      BY <1>1 DEF LoopStates
    <2> QED
      BY <2>1
  <1>4. loop' = [loop EXCEPT ![c] = l]
    BY <1>2, <1>3
  <1>5. Types'
    BY <1>1, <1>4, LoopMoves DEF NotifyInv, Types
  <1>6. InHand(l) /\ Permitted(l, enabled) /\ \A i, p : ~Tells(l, i, p)
    BY <1>2, <1>3 DEF InHand, Permitted, Tells
  <1>7. l.ph # "out" /\ UNCHANGED <<told, expired, dedup, enabled>>
    BY <1>2, <1>3
  <1> QED
    BY <1>4, <1>5, <1>6, <1>7, LoopStep

\* A batch of summaries, and an envelope with triggers only.
LEMMA BatchInv ==
    ASSUME NotifyInv, NEW c \in Loops, NEW s \in Sessions, NEW t \in Nat, NEW ks \in Triggers,
           SummaryBatch(c, s, t, ks) \/ EventBatch(c, s, ks)
    PROVE  NotifyInv'
  <1>0. ks \in Seq(Kinds) /\ left \in [Budgets -> Nat]
    BY TriggersTyped DEF NotifyInv, Types
  <1>1. CASE SummaryBatch(c, s, t, ks)
    <2>1. /\ loop[c].ph = "reading"
          /\ loop' = [loop EXCEPT ![c] = [loop[c] EXCEPT !.ph = IF ks = <<>> THEN "reading" ELSE "find",
                                                         !.s = s, !.todo = ks]]
          /\ UNCHANGED <<enabled, dedup, put, told, expired, lost>>
          /\ row' = Upserted(s, t) \/ row' = row
          /\ \/ Spend("envelopes")
             \/ /\ left.envelopes > 0 /\ left.faults > 0
                /\ left' = [left EXCEPT !.envelopes = @ - 1, !.faults = @ - 1]
      BY <1>1 DEF SummaryBatch, SetRow, history
    <2>2. row' \in [Sessions -> Summaries] /\ UnknownIsOffline'
      BY <2>1, UpsertedRows DEF NotifyInv, Types, UnknownIsOffline
    <2>3. left' \in [Budgets -> Nat]
      <3>1. CASE Spend("envelopes")
        BY <1>0, <3>1, SpendTypes DEF Budgets
      <3>2. CASE /\ left.envelopes > 0 /\ left.faults > 0
                 /\ left' = [left EXCEPT !.envelopes = @ - 1, !.faults = @ - 1]
        <4>1. left["envelopes"] - 1 \in Nat /\ left["faults"] - 1 \in Nat
          BY <1>0, <3>2 DEF Budgets
        <4> QED
          BY <1>0, <3>2, <4>1 DEF Budgets
      <3> QED
        BY <2>1, <3>1, <3>2
    <2> QED
      BY <1>0, <2>1, <2>2, <2>3, TakesTriggers
  <1>2. CASE EventBatch(c, s, ks)
    <2>1. /\ loop[c].ph = "reading" /\ ks # <<>> /\ Spend("envelopes")
          /\ loop' = [loop EXCEPT ![c] = [loop[c] EXCEPT !.ph = "find", !.s = s, !.todo = ks]]
          /\ UNCHANGED <<row, enabled, dedup, put, told, expired, lost>>
      BY <1>2 DEF EventBatch, db, history
    <2>2. loop' = [loop EXCEPT ![c] = [loop[c] EXCEPT !.ph = IF ks = <<>> THEN "reading" ELSE "find",
                                                      !.s = s, !.todo = ks]]
      BY <2>1
    <2>3. /\ row' \in [Sessions -> Summaries] /\ UnknownIsOffline'
      BY <2>1 DEF NotifyInv, Types, UnknownIsOffline
    <2>4. left' \in [Budgets -> Nat]
      BY <1>0, <2>1, SpendTypes DEF Budgets
    <2> QED
      BY <1>0, <2>1, <2>2, <2>3, <2>4, TakesTriggers
  <1> QED
    BY <1>1, <1>2

\* A loop drops its trigger.
LEMMA DropsTrigger ==
    ASSUME NotifyInv, NEW c \in Loops, loop[c].todo # <<>>,
           loop' = [loop EXCEPT ![c] = NextTrigger(loop[c])],
           UNCHANGED <<row, enabled, dedup, put, told, expired, lost>>, left' \in [Budgets -> Nat]
    PROVE  NotifyInv'
  <1>1. loop \in [Loops -> LoopStates] /\ loop[c] \in LoopStates
    BY DEF NotifyInv, Types
  <1>2. PICK l \in LoopStates :
           l = NextTrigger(loop[c]) /\ l.ph \in {"find", "reading"} /\ InHand(l)
    BY <1>1, TriggerMoves
  <1>3. Types'
    BY <1>1, <1>2, LoopMoves DEF NotifyInv, Types
  <1>4. UnknownIsOffline'
    BY DEF NotifyInv, UnknownIsOffline
  <1>5. Permitted(l, enabled) /\ \A i, p : ~Tells(l, i, p)
    BY <1>2 DEF Permitted, Tells
  <1>6. /\ l.ph # "out" /\ loop' = [loop EXCEPT ![c] = l]
        /\ UNCHANGED <<told, expired, dedup, enabled>>
    BY <1>2
  <1> QED
    BY <1>2, <1>3, <1>4, <1>5, <1>6, LoopStep

\* find_session and the mute.
LEMMA FindSessionInv ==
    ASSUME NotifyInv, NEW c \in Loops, FindSession(c)
    PROVE  NotifyInv'
  <1>1. /\ loop[c].ph = "find"
        /\ UNCHANGED <<row, enabled, subs, dedup, put, told, expired, lost>>
        /\ \/ /\ ~row[loop[c].s].muted /\ UNCHANGED left
              /\ loop' = [loop EXCEPT ![c].ph = "decide",
                             ![c].free = Allows(row, enabled, loop[c].s, Head(loop[c].todo))]
           \/ /\ left' = left \/ Fault
              /\ loop' = [loop EXCEPT ![c] = NextTrigger(loop[c])]
    BY DEF FindSession, db, history
  <1>2. /\ loop \in [Loops -> LoopStates] /\ loop[c] \in LoopStates /\ loop[c].todo # <<>>
        /\ left \in [Budgets -> Nat]
    BY <1>1 DEF NotifyInv, Types, InHand
  <1>3. CASE /\ left' = left \/ Fault
             /\ loop' = [loop EXCEPT ![c] = NextTrigger(loop[c])]
    <2>1. left' \in [Budgets -> Nat]
      BY <1>2, <1>3, FaultTypes
    <2> QED
      BY <1>1, <1>2, <1>3, <2>1, DropsTrigger
  <1>4. CASE /\ ~row[loop[c].s].muted /\ UNCHANGED left
             /\ loop' = [loop EXCEPT ![c].ph = "decide",
                             ![c].free = Allows(row, enabled, loop[c].s, Head(loop[c].todo))]
    <2>1. PICK free \in SUBSET {"unmuted", "switched on", "read failed"} :
             /\ free = Allows(row, enabled, loop[c].s, Head(loop[c].todo))
             /\ "unmuted" \in free /\ (Head(loop[c].todo) \in enabled => "switched on" \in free)
      <3>1. /\ Allows(row, enabled, loop[c].s, Head(loop[c].todo))
                 \in SUBSET {"unmuted", "switched on", "read failed"}
            /\ "unmuted" \in Allows(row, enabled, loop[c].s, Head(loop[c].todo))
            /\ Head(loop[c].todo) \in enabled
                 => "switched on" \in Allows(row, enabled, loop[c].s, Head(loop[c].todo))
        BY <1>4 DEF Allows
      <3> QED
        BY <3>1
    <2>2. PICK l \in LoopStates : /\ l = [loop[c] EXCEPT !.ph = "decide", !.free = free]
                                  /\ l.ph = "decide" /\ l.todo = loop[c].todo /\ l.free = free
      <3>1. /\ [loop[c] EXCEPT !.ph = "decide", !.free = free] \in LoopStates
            /\ [loop[c] EXCEPT !.ph = "decide", !.free = free].ph = "decide"
            /\ [loop[c] EXCEPT !.ph = "decide", !.free = free].todo = loop[c].todo
            /\ [loop[c] EXCEPT !.ph = "decide", !.free = free].free = free
        BY <1>2 DEF LoopStates
      <3> QED
        BY <3>1
    <2>3. loop' = [loop EXCEPT ![c] = l]
      BY <1>4, <2>1, <2>2
    <2>4. Types'
      BY <1>1, <1>2, <1>4, <2>3, LoopMoves DEF NotifyInv, Types
    <2>5. UnknownIsOffline'
      BY <1>1 DEF NotifyInv, UnknownIsOffline
    <2>6. InHand(l) /\ Permitted(l, enabled) /\ \A i, p : ~Tells(l, i, p)
      BY <1>2, <2>1, <2>2 DEF InHand, Permitted, Tells
    <2>7. l.ph # "out" /\ UNCHANGED <<told, expired, dedup, enabled>>
      BY <1>1, <2>2
    <2> QED
      BY <2>3, <2>4, <2>5, <2>6, <2>7, LoopStep
  <1> QED
    BY <1>1, <1>3, <1>4

\* What a step of one loop keeps of the other loops.
LEMMA OtherLoops ==
    ASSUME NotifyInv, enabled' = enabled,
           NEW c \in Loops, NEW l \in LoopStates, loop' = [loop EXCEPT ![c] = l],
           l.ph # "out", InHand(l), Permitted(l, enabled)
    PROVE  /\ OfflineAtRest'
           /\ \A d \in Loops : InHand(loop'[d]) /\ Permitted(loop'[d], enabled')
           /\ loop'[c] = l /\ \A d \in Loops : d # c => loop'[d] = loop[d]
  <1>1. loop'[c] = l /\ \A d \in Loops : d # c => loop'[d] = loop[d]
    BY LoopMoves DEF NotifyInv, Types
  <1>2. OfflineAtRest'
    BY <1>1 DEF OfflineAtRest
  <1>3. \A d \in Loops : InHand(loop'[d]) /\ Permitted(loop'[d], enabled')
    BY <1>1 DEF NotifyInv
  <1> QED
    BY <1>1, <1>2, <1>3

\* The settings and the window: the pair is recorded before anything is sent.
LEMMA DecideInv ==
    ASSUME NotifyInv, NEW c \in Loops, Decide(c)
    PROVE  NotifyInv'
  <1>1. /\ loop[c].ph = "decide"
        /\ UNCHANGED <<row, enabled, subs, put, told, expired, lost>>
    BY DEF Decide, db, history
  <1>2. /\ loop \in [Loops -> LoopStates] /\ loop[c] \in LoopStates /\ loop[c].todo # <<>>
        /\ left \in [Budgets -> Nat] /\ Permitted(loop[c], enabled)
        /\ loop[c].s \in Sessions /\ loop[c].todo \in Seq(Kinds) /\ loop[c].free
              \in SUBSET {"unmuted", "switched on", "read failed"}
    BY <1>1 DEF NotifyInv, Types, InHand, LoopStates
  <1>3. PICK p \in Pairs : p = <<loop[c].s, Head(loop[c].todo)>> /\ p[2] = Head(loop[c].todo)
    <2>1. \A t \in Seq(Kinds) : t # <<>> => Head(t) \in Kinds
      OBVIOUS
    <2>2. PICK k \in Kinds : k = Head(loop[c].todo)
      BY <1>2, <2>1
    <2>3. <<loop[c].s, k>> \in Pairs /\ <<loop[c].s, k>>[2] = k
      BY <1>2 DEF Pairs
    <2> QED
      BY <2>2, <2>3
  <1>4. PICK e \in SUBSET Kinds, read \in {{}, {"read failed"}} :
           /\ LoadSettings(e, read)
           /\ dedup' = IF p[2] \in e /\ p \notin dedup THEN dedup \cup {p} ELSE dedup
           /\ loop' = [loop EXCEPT ![c] = IF p[2] \in e /\ p \notin dedup
                                          THEN [loop[c] EXCEPT !.ph = "load", !.free = loop[c].free \cup read]
                                          ELSE NextTrigger(loop[c])]
    <2> DEFINE q == <<loop[c].s, Head(loop[c].todo)>>
    <2>1. \E e \in SUBSET Kinds, read \in {{}, {"read failed"}} :
             /\ LoadSettings(e, read)
             /\ dedup' = IF q[2] \in e /\ q \notin dedup THEN dedup \cup {q} ELSE dedup
             /\ loop' = [loop EXCEPT ![c] = IF q[2] \in e /\ q \notin dedup
                                            THEN [loop[c] EXCEPT !.ph = "load", !.free = loop[c].free \cup read]
                                            ELSE NextTrigger(loop[c])]
      BY DEF Decide
    <2>2. q = p
      BY <1>3
    <2> HIDE DEF q
    <2> QED
      BY <2>1, <2>2
  <1>5. left' \in [Budgets -> Nat] /\ (e = enabled \/ read = {"read failed"})
    BY <1>2, <1>4, FaultTypes DEF LoadSettings
  <1>6. CASE ~(p[2] \in e /\ p \notin dedup)
    BY <1>1, <1>2, <1>4, <1>5, <1>6, DropsTrigger
  <1>7. CASE p[2] \in e /\ p \notin dedup
    <2>1. PICK l \in LoopStates :
             /\ l = [loop[c] EXCEPT !.ph = "load", !.free = loop[c].free \cup read]
             /\ l.ph = "load" /\ l.todo = loop[c].todo /\ l.s = loop[c].s
             /\ l.free = loop[c].free \cup read
      <3>1. PICK free \in SUBSET {"unmuted", "switched on", "read failed"} :
               free = loop[c].free \cup read
        BY <1>2, <1>4
      <3>2. /\ [loop[c] EXCEPT !.ph = "load", !.free = free] \in LoopStates
            /\ [loop[c] EXCEPT !.ph = "load", !.free = free].ph = "load"
            /\ [loop[c] EXCEPT !.ph = "load", !.free = free].todo = loop[c].todo
            /\ [loop[c] EXCEPT !.ph = "load", !.free = free].s = loop[c].s
            /\ [loop[c] EXCEPT !.ph = "load", !.free = free].free = free
        BY <1>2 DEF LoopStates
      <3> QED
        BY <3>1, <3>2
    <2>2. loop' = [loop EXCEPT ![c] = l] /\ dedup' = dedup \cup {p}
      BY <1>4, <1>7, <2>1
    <2>3. Types'
      BY <1>1, <1>2, <1>3, <1>5, <2>2, LoopMoves DEF NotifyInv, Types
    <2>4. InHand(l) /\ Permitted(l, enabled)
      <3>1. "unmuted" \in loop[c].free /\ (p[2] \in enabled => "switched on" \in loop[c].free)
        BY <1>1, <1>2, <1>3 DEF Permitted
      <3>2. "unmuted" \in l.free /\ ("switched on" \in l.free \/ "read failed" \in l.free)
        BY <1>5, <1>7, <2>1, <3>1
      <3>3. l.free # {"unmuted"}
        BY <3>2
      <3> QED
        BY <1>2, <2>1, <3>2, <3>3 DEF InHand, Permitted
    <2>5. /\ OfflineAtRest' /\ \A d \in Loops : InHand(loop'[d]) /\ Permitted(loop'[d], enabled')
          /\ loop'[c] = l /\ \A d \in Loops : d # c => loop'[d] = loop[d]
      BY <1>1, <2>1, <2>2, <2>4, OtherLoops
    <2>6. UnknownIsOffline'
      BY <1>1 DEF NotifyInv, UnknownIsOffline
    <2>7. ASSUME NEW i \in SubIds, NEW q \in Pairs PROVE Windowed(i, q)'
      <3>1. Windowed(i, q) /\ Types
        BY DEF NotifyInv
      <3>2. CASE q # p
        <4>1. Tellers(i, q)' \subseteq Tellers(i, q)
          BY <1>3, <2>1, <2>5, <3>2 DEF Tellers, Tells
        <4>2. q \in dedup' <=> q \in dedup
          BY <2>2, <3>2
        <4>3. Count(q \in dedup') = Count(q \in dedup)
          BY <4>2 DEF Count
        <4>4. /\ Cardinality(Tellers(i, q)') <= Cardinality(Tellers(i, q))
              /\ Cardinality(Tellers(i, q)') \in Nat /\ Cardinality(Tellers(i, q)) \in Nat
              /\ told[i][q] \in Nat /\ expired[q] \in Nat /\ Count(q \in dedup) \in 0..1
          BY <3>1, <4>1, TellersFinite, PairTypes, FS_Subset
        <4>5. told[i][q] + Cardinality(Tellers(i, q)') <= expired[q] + Count(q \in dedup')
          <5>1. told[i][q] + Cardinality(Tellers(i, q)) <= expired[q] + Count(q \in dedup)
            BY <3>1 DEF Windowed
          <5>3. told[i][q] + Cardinality(Tellers(i, q)') <= expired[q] + Count(q \in dedup)
            BY <4>4, <5>1, RoomForTeller
          <5> QED
            BY <4>3, <5>3
        <4> QED
          BY <1>1, <4>5 DEF Windowed
      <3>3. CASE q = p
        <4>0. Tells(l, i, q) /\ ~Tells(loop[c], i, q)
          BY <1>1, <1>3, <2>1, <3>3 DEF Tells
        <4>1. Tellers(i, q)' = Tellers(i, q) \cup {c} /\ c \notin Tellers(i, q)
          <5>1. \A d \in Loops : Tells(loop'[d], i, q) <=> Tells(loop[d], i, q) \/ d = c
            BY <2>5, <4>0
          <5>2. /\ Tellers(i, q)' = {d \in Loops : Tells(loop'[d], i, q)}
                /\ Tellers(i, q) = {d \in Loops : Tells(loop[d], i, q)}
            BY DEF Tellers, Tells
          <5> QED
            BY <4>0, <5>1, <5>2
        <4>2. Cardinality(Tellers(i, q)') = Cardinality(Tellers(i, q)) + 1
          <5>1. IsFiniteSet(Tellers(i, q))
            BY TellersFinite
          <5>2. Cardinality(Tellers(i, q) \cup {c}) = Cardinality(Tellers(i, q)) + 1
            BY <4>1, <5>1, FS_AddElement
          <5> QED
            BY <4>1, <5>2
        <4>3. Count(q \in dedup') = 1 /\ Count(q \in dedup) = 0
          <5>1. q \in dedup' /\ ~(q \in dedup)
            BY <1>7, <2>2, <3>3
          <5> QED
            BY <5>1 DEF Count
        <4>4. /\ Cardinality(Tellers(i, q)) \in Nat /\ told[i][q] \in Nat /\ expired[q] \in Nat
          BY <3>1, TellersFinite, PairTypes
        <4>5. told[i][q] + Cardinality(Tellers(i, q)') <= expired[q] + Count(q \in dedup')
          <5>1. told[i][q] + Cardinality(Tellers(i, q)) <= expired[q] + 0
            BY <3>1, <4>3 DEF Windowed
          <5>3. told[i][q] + (Cardinality(Tellers(i, q)) + 1) <= expired[q] + 1
            BY <4>4, <5>1, RoomForTeller
          <5> QED
            BY <4>2, <4>3, <5>3
        <4> QED
          BY <1>1, <4>5 DEF Windowed
      <3> QED
        BY <3>2, <3>3
    <2> QED
      BY <2>3, <2>5, <2>6, <2>7 DEF NotifyInv
  <1> QED
    BY <1>6, <1>7

\* The subscriptions of the owner.
LEMMA LoadSubscriptionsInv ==
    ASSUME NotifyInv, NEW c \in Loops, LoadSubscriptions(c)
    PROVE  NotifyInv'
  <1>1. /\ loop[c].ph = "load" /\ UNCHANGED <<row, enabled, subs, dedup, put, told, expired, lost>>
    BY DEF LoadSubscriptions, db, history
  <1>2. /\ loop \in [Loops -> LoopStates] /\ loop[c] \in LoopStates /\ loop[c].todo # <<>>
        /\ left \in [Budgets -> Nat] /\ Permitted(loop[c], enabled)
    BY <1>1 DEF NotifyInv, Types, InHand
  <1>3. PICK T \in SUBSET SubIds :
           /\ left' = left \/ Fault
           /\ loop' = [loop EXCEPT ![c] = IF T = {} THEN NextTrigger(loop[c])
                                          ELSE [loop[c] EXCEPT !.ph = "send", !.targets = T]]
    BY DEF LoadSubscriptions
  <1>4. left' \in [Budgets -> Nat]
    BY <1>2, <1>3, FaultTypes
  <1>5. CASE T = {}
    BY <1>1, <1>2, <1>3, <1>4, <1>5, DropsTrigger
  <1>6. CASE T # {}
    <2>1. PICK l \in LoopStates :
             /\ l = [loop[c] EXCEPT !.ph = "send", !.targets = T]
             /\ l.ph = "send" /\ l.todo = loop[c].todo /\ l.s = loop[c].s
             /\ l.free = loop[c].free
      <3>1. /\ [loop[c] EXCEPT !.ph = "send", !.targets = T] \in LoopStates
            /\ [loop[c] EXCEPT !.ph = "send", !.targets = T].ph = "send"
            /\ [loop[c] EXCEPT !.ph = "send", !.targets = T].todo = loop[c].todo
            /\ [loop[c] EXCEPT !.ph = "send", !.targets = T].s = loop[c].s
            /\ [loop[c] EXCEPT !.ph = "send", !.targets = T].free = loop[c].free
        BY <1>2 DEF LoopStates
      <3> QED
        BY <3>1
    <2>2. loop' = [loop EXCEPT ![c] = l]
      BY <1>3, <1>6, <2>1
    <2>3. Types'
      BY <1>1, <1>2, <1>4, <2>2, LoopMoves DEF NotifyInv, Types
    <2>4. UnknownIsOffline'
      BY <1>1 DEF NotifyInv, UnknownIsOffline
    <2>5. InHand(l) /\ Permitted(l, enabled) /\ \A i, p : Tells(l, i, p) => Tells(loop[c], i, p)
      BY <1>1, <1>2, <2>1 DEF InHand, Permitted, Tells
    <2>6. l.ph # "out" /\ UNCHANGED <<told, expired, dedup, enabled>>
      BY <1>1, <2>1
    <2> QED
      BY <2>2, <2>3, <2>4, <2>5, <2>6, LoopStep
  <1> QED
    BY <1>5, <1>6

\* A subscription is done with: whom the loop may still tell.
LEMMA DoneMoves ==
    ASSUME NEW l \in LoopStates, l.ph \in {"send", "gone"}, l.todo # <<>>, NEW i, NEW e,
           "unmuted" \in l.free, l.free # {"unmuted"}
    PROVE  /\ Done(l, i) \in LoopStates /\ Done(l, i).ph # "out"
           /\ InHand(Done(l, i)) /\ Permitted(Done(l, i), e)
           /\ \A j, p : Tells(Done(l, i), j, p) => Tells(l, j, p) /\ j # i
  <1>1. CASE l.targets = {i}
    <2>1. Done(l, i) = NextTrigger(l)
      BY <1>1 DEF Done
    <2>2. /\ NextTrigger(l) \in LoopStates /\ NextTrigger(l).ph \in {"find", "reading"}
          /\ InHand(NextTrigger(l))
      BY TriggerMoves
    <2>3. Permitted(NextTrigger(l), e) /\ \A j, p : ~Tells(NextTrigger(l), j, p)
      BY <2>2 DEF Permitted, Tells
    <2> QED
      BY <2>1, <2>2, <2>3
  <1>2. CASE l.targets # {i}
    <2>1. PICK T \in SUBSET SubIds : T = l.targets \ {i}
      <3>1. l.targets \in SUBSET SubIds
        BY DEF LoopStates
      <3> QED
        BY <3>1
    <2>2. PICK m \in LoopStates :
             /\ m = [l EXCEPT !.ph = "send", !.targets = T]
             /\ m.ph = "send" /\ m.todo = l.todo /\ m.s = l.s /\ m.free = l.free /\ m.targets = T
      <3>1. /\ [l EXCEPT !.ph = "send", !.targets = T] \in LoopStates
            /\ [l EXCEPT !.ph = "send", !.targets = T].ph = "send"
            /\ [l EXCEPT !.ph = "send", !.targets = T].todo = l.todo
            /\ [l EXCEPT !.ph = "send", !.targets = T].s = l.s
            /\ [l EXCEPT !.ph = "send", !.targets = T].free = l.free
            /\ [l EXCEPT !.ph = "send", !.targets = T].targets = T
        BY DEF LoopStates
      <3> QED
        BY <3>1
    <2>3. Done(l, i) = m
      BY <1>2, <2>1, <2>2 DEF Done
    <2>4. InHand(m) /\ Permitted(m, e) /\ m.ph # "out"
      BY <2>2 DEF InHand, Permitted
    <2>5. \A j, p : Tells(m, j, p) => Tells(l, j, p) /\ j # i
      BY <2>1, <2>2 DEF Tells
    <2> QED
      BY <2>2, <2>3, <2>4, <2>5
  <1> QED
    BY <1>1, <1>2

\* A push is delivered, failed for now, or its endpoint is gone.
LEMMA SendInv ==
    ASSUME NotifyInv, NEW c \in Loops, NEW i \in SubIds, Send(c, i)
    PROVE  NotifyInv'
  <1> DEFINE pair == <<loop[c].s, Head(loop[c].todo)>>
  <1>1. /\ loop[c].ph = "send" /\ i \in loop[c].targets
        /\ UNCHANGED <<row, enabled, subs, dedup, put, expired, lost, left>>
        /\ \/ /\ loop' = [loop EXCEPT ![c] = Done(loop[c], i)]
              /\ told' = [told EXCEPT ![i][pair] = @ + 1]
           \/ loop' = [loop EXCEPT ![c] = Done(loop[c], i)] /\ UNCHANGED told
           \/ loop' = [loop EXCEPT ![c].ph = "gone", ![c].gone = {i}] /\ UNCHANGED told
    BY DEF Send, db
  <1>2. /\ loop \in [Loops -> LoopStates] /\ loop[c] \in LoopStates /\ loop[c].todo # <<>>
        /\ loop[c].s \in Sessions /\ loop[c].todo \in Seq(Kinds)
        /\ "unmuted" \in loop[c].free /\ loop[c].free # {"unmuted"}
        /\ told \in [SubIds -> [Pairs -> Nat]] /\ Types
    BY <1>1 DEF NotifyInv, Types, InHand, LoopStates, Permitted
  <1>3. UnknownIsOffline'
    BY <1>1 DEF NotifyInv, UnknownIsOffline
  <1>4. PICK l \in LoopStates :
           /\ l = Done(loop[c], i) /\ l.ph # "out" /\ InHand(l) /\ Permitted(l, enabled)
           /\ \A j, p : Tells(l, j, p) => Tells(loop[c], j, p) /\ j # i
    <2>1. loop[c].ph \in {"send", "gone"}
      BY <1>1
    <2>2. /\ Done(loop[c], i) \in LoopStates /\ Done(loop[c], i).ph # "out"
          /\ InHand(Done(loop[c], i)) /\ Permitted(Done(loop[c], i), enabled)
          /\ \A j, p : Tells(Done(loop[c], i), j, p) => Tells(loop[c], j, p) /\ j # i
      BY <1>2, <2>1, DoneMoves
    <2> QED
      BY <2>2
  <1>5. CASE loop' = [loop EXCEPT ![c] = Done(loop[c], i)] /\ UNCHANGED told
    <2>1. Types'
      BY <1>1, <1>2, <1>4, <1>5, LoopMoves DEF Types
    <2> QED
      BY <1>1, <1>3, <1>4, <1>5, <2>1, LoopStep
  <1>6. CASE loop' = [loop EXCEPT ![c].ph = "gone", ![c].gone = {i}] /\ UNCHANGED told
    <2>1. PICK m \in LoopStates :
             /\ m = [loop[c] EXCEPT !.ph = "gone", !.gone = {i}]
             /\ m.ph = "gone" /\ m.todo = loop[c].todo /\ m.s = loop[c].s
             /\ m.free = loop[c].free /\ m.targets = loop[c].targets
      <3>1. /\ [loop[c] EXCEPT !.ph = "gone", !.gone = {i}] \in LoopStates
            /\ [loop[c] EXCEPT !.ph = "gone", !.gone = {i}].ph = "gone"
            /\ [loop[c] EXCEPT !.ph = "gone", !.gone = {i}].todo = loop[c].todo
            /\ [loop[c] EXCEPT !.ph = "gone", !.gone = {i}].s = loop[c].s
            /\ [loop[c] EXCEPT !.ph = "gone", !.gone = {i}].free = loop[c].free
            /\ [loop[c] EXCEPT !.ph = "gone", !.gone = {i}].targets = loop[c].targets
        BY <1>2 DEF LoopStates
      <3> QED
        BY <3>1
    <2>2. loop' = [loop EXCEPT ![c] = m]
      BY <1>6, <2>1
    <2>3. Types'
      BY <1>1, <1>2, <1>6, <2>2, LoopMoves DEF Types
    <2>4. InHand(m) /\ Permitted(m, enabled) /\ m.ph # "out"
      BY <1>2, <2>1 DEF InHand, Permitted
    <2>5. \A j, p : Tells(m, j, p) => Tells(loop[c], j, p)
      BY <1>1, <2>1 DEF Tells
    <2> QED
      BY <1>1, <1>3, <1>6, <2>2, <2>3, <2>4, <2>5, LoopStep
  <1>7. CASE /\ loop' = [loop EXCEPT ![c] = Done(loop[c], i)]
             /\ told' = [told EXCEPT ![i][pair] = @ + 1]
    <2>1. PICK p \in Pairs : p = pair
      <3>1. \A t \in Seq(Kinds) : t # <<>> => Head(t) \in Kinds
        OBVIOUS
      <3>2. PICK k \in Kinds : k = Head(loop[c].todo)
        BY <1>2, <3>1
      <3>3. <<loop[c].s, k>> \in Pairs
        BY <1>2 DEF Pairs
      <3> QED
        BY <3>2, <3>3
    <2>2. Tells(loop[c], i, p)
      BY <1>1, <2>1 DEF Tells
    <2> HIDE DEF pair
    <2>3. /\ told' \in [SubIds -> [Pairs -> Nat]] /\ told'[i][p] = told[i][p] + 1
          /\ \A j \in SubIds, q \in Pairs : j # i \/ q # p => told'[j][q] = told[j][q]
      <3>1. told[i][p] \in Nat /\ told[i][p] + 1 \in Nat
        BY <1>2
      <3> QED
        BY <1>2, <1>7, <2>1, <3>1
    <2>4. Types'
      BY <1>1, <1>2, <1>4, <1>7, <2>3, LoopMoves DEF Types
    <2>5. /\ OfflineAtRest' /\ \A d \in Loops : InHand(loop'[d]) /\ Permitted(loop'[d], enabled')
          /\ loop'[c] = l /\ \A d \in Loops : d # c => loop'[d] = loop[d]
      BY <1>1, <1>4, <1>7, OtherLoops
    <2>6. ASSUME NEW j \in SubIds, NEW q \in Pairs PROVE Windowed(j, q)'
      <3>1. /\ Tellers(j, q)' = {d \in Loops : Tells(loop'[d], j, q)}
            /\ Tellers(j, q) = {d \in Loops : Tells(loop[d], j, q)}
        BY DEF Tellers, Tells
      <3>2. Tellers(j, q)' \subseteq Tellers(j, q)
        BY <1>4, <2>5, <3>1
      <3>3. /\ told[j][q] + Cardinality(Tellers(j, q)) <= expired[q] + Count(q \in dedup)
            /\ Types
        BY DEF NotifyInv, Windowed
      <3>4. /\ Cardinality(Tellers(j, q)') \in Nat /\ Cardinality(Tellers(j, q)) \in Nat
            /\ told[j][q] \in Nat /\ expired[q] \in Nat /\ Count(q \in dedup) \in 0..1
        BY <3>3, TellersFinite, PairTypes
      <3>5. CASE j # i \/ q # p
        <4>1. Cardinality(Tellers(j, q)') <= Cardinality(Tellers(j, q))
          BY <3>2, TellersFinite, FS_Subset
        <4>2. told[j][q] + Cardinality(Tellers(j, q)') <= expired[q] + Count(q \in dedup)
          BY <3>3, <3>4, <4>1, RoomForTeller
        <4>3. told'[j][q] = told[j][q] /\ expired' = expired /\ dedup' = dedup
          BY <1>1, <2>3, <3>5
        <4> QED
          BY <4>2, <4>3 DEF Windowed
      <3>6. CASE j = i /\ q = p
        <4>1. c \in Tellers(j, q) /\ c \notin Tellers(j, q)'
          BY <1>4, <2>2, <2>5, <3>1, <3>6
        <4>2. Cardinality(Tellers(j, q)') + 1 <= Cardinality(Tellers(j, q))
          <5>1. Tellers(j, q)' \cup {c} \subseteq Tellers(j, q)
            BY <3>2, <4>1
          <5>2. Cardinality(Tellers(j, q)' \cup {c}) <= Cardinality(Tellers(j, q))
            BY <5>1, TellersFinite, FS_Subset
          <5>3. IsFiniteSet(Tellers(j, q)')
            BY TellersFinite
          <5>4. Cardinality(Tellers(j, q)' \cup {c}) = Cardinality(Tellers(j, q)') + 1
            BY <4>1, <5>3, FS_AddElement
          <5> QED
            BY <5>2, <5>4
        <4>3. (told[j][q] + 1) + Cardinality(Tellers(j, q)') <= expired[q] + Count(q \in dedup)
          BY <3>3, <3>4, <4>2, RoomForTeller
        <4>4. told'[j][q] = told[j][q] + 1 /\ expired' = expired /\ dedup' = dedup
          BY <1>1, <2>3, <3>6
        <4> QED
          BY <4>3, <4>4 DEF Windowed
      <3> QED
        BY <3>5, <3>6
    <2> QED
      BY <1>3, <2>4, <2>5, <2>6 DEF NotifyInv
  <1> QED
    BY <1>1, <1>5, <1>6, <1>7

\* The subscription of a gone endpoint is deleted.
LEMMA DeleteGoneInv ==
    ASSUME NotifyInv, NEW c \in Loops, DeleteGone(c)
    PROVE  NotifyInv'
  <1>1. PICK i \in loop[c].gone :
           /\ left' = left \/ Fault
           /\ loop' = [loop EXCEPT ![c] = Done([loop[c] EXCEPT !.gone = {}], i)]
    BY DEF DeleteGone
  <1>2. loop[c].ph = "gone" /\ UNCHANGED <<row, enabled, dedup, put, told, expired, lost>>
    BY DEF DeleteGone, history
  <1>3. /\ loop \in [Loops -> LoopStates] /\ loop[c] \in LoopStates /\ loop[c].todo # <<>>
        /\ "unmuted" \in loop[c].free /\ loop[c].free # {"unmuted"}
        /\ left \in [Budgets -> Nat]
    BY <1>2 DEF NotifyInv, Types, InHand, Permitted
  <1>4. PICK m \in LoopStates :
           /\ m = [loop[c] EXCEPT !.gone = {}]
           /\ m.ph = loop[c].ph /\ m.todo = loop[c].todo /\ m.s = loop[c].s
           /\ m.free = loop[c].free /\ m.targets = loop[c].targets
    <2>1. /\ [loop[c] EXCEPT !.gone = {}] \in LoopStates
          /\ [loop[c] EXCEPT !.gone = {}].ph = loop[c].ph
          /\ [loop[c] EXCEPT !.gone = {}].todo = loop[c].todo
          /\ [loop[c] EXCEPT !.gone = {}].s = loop[c].s
          /\ [loop[c] EXCEPT !.gone = {}].free = loop[c].free
          /\ [loop[c] EXCEPT !.gone = {}].targets = loop[c].targets
      BY <1>3 DEF LoopStates
    <2> QED
      BY <2>1
  <1>5. PICK l \in LoopStates :
           /\ l = Done(m, i) /\ l.ph # "out" /\ InHand(l) /\ Permitted(l, enabled)
           /\ \A j, p : Tells(l, j, p) => Tells(m, j, p)
    <2>1. m.ph \in {"send", "gone"} /\ m.todo # <<>> /\ "unmuted" \in m.free /\ m.free # {"unmuted"}
      BY <1>2, <1>3, <1>4
    <2>2. /\ Done(m, i) \in LoopStates /\ Done(m, i).ph # "out"
          /\ InHand(Done(m, i)) /\ Permitted(Done(m, i), enabled)
          /\ \A j, p : Tells(Done(m, i), j, p) => Tells(m, j, p)
      BY <2>1, DoneMoves
    <2> QED
      BY <2>2
  <1>6. \A j, p : Tells(m, j, p) => Tells(loop[c], j, p)
    BY <1>4 DEF Tells
  <1>7. left' \in [Budgets -> Nat]
    BY <1>1, <1>3, FaultTypes
  <1>8. loop' = [loop EXCEPT ![c] = l]
    BY <1>1, <1>4, <1>5
  <1>9. Types' /\ UnknownIsOffline'
    BY <1>2, <1>3, <1>7, <1>8, LoopMoves DEF NotifyInv, Types, UnknownIsOffline
  <1> QED
    BY <1>2, <1>5, <1>6, <1>8, <1>9, LoopStep

\* A loop leaves its select.
LEMMA LeaveInv ==
    ASSUME NotifyInv, NEW c \in Loops, Leave(c)
    PROVE  NotifyInv'
  <1>1. /\ loop[c].ph = "reading" /\ loop' = [loop EXCEPT ![c].ph = "leaving"]
        /\ UNCHANGED <<row, enabled, dedup, put, told, expired, lost, left>>
    BY DEF Leave, db, history
  <1>2. loop \in [Loops -> LoopStates] /\ loop[c] \in LoopStates /\ loop[c].todo = <<>>
    BY <1>1 DEF NotifyInv, Types, InHand
  <1>3. PICK l \in LoopStates : /\ l = [loop[c] EXCEPT !.ph = "leaving"]
                                /\ l.ph = "leaving" /\ l.todo = <<>>
    <2>1. /\ [loop[c] EXCEPT !.ph = "leaving"] \in LoopStates
          /\ [loop[c] EXCEPT !.ph = "leaving"].ph = "leaving"
          /\ [loop[c] EXCEPT !.ph = "leaving"].todo = loop[c].todo
      BY <1>2, LoopAt
    <2> QED
      BY <1>2, <2>1
  <1>4. loop' = [loop EXCEPT ![c] = l]
    BY <1>1, <1>3
  <1>5. Types' /\ UnknownIsOffline'
    BY <1>1, <1>2, <1>4, LoopMoves DEF NotifyInv, Types, UnknownIsOffline
  <1>6. InHand(l) /\ Permitted(l, enabled) /\ \A i, p : ~Tells(l, i, p)
    BY <1>3 DEF InHand, Permitted, Tells
  <1> QED
    BY <1>1, <1>3, <1>4, <1>5, <1>6, LoopStep

\* What holds of a loop that has ended, or that has just connected.
LEMMA FreshLoop ==
    ASSUME NEW l, l.ph \in {"out", "joining"}, l.todo = <<>>
    PROVE  InHand(l) /\ (\A e : Permitted(l, e)) /\ \A i, p : ~Tells(l, i, p)
  BY DEF InHand, Permitted, Tells

\* A loop ends, and shows the device offline.
LEMMA ShowOfflineInv ==
    ASSUME NotifyInv, NEW c \in Loops, ShowOffline(c)
    PROVE  NotifyInv'
  <1>1. /\ loop' = [loop EXCEPT ![c] = Idle]
        /\ UNCHANGED <<enabled, dedup, put, told, expired>>
        /\ \/ row' = Shown(FALSE) /\ lost' = FALSE /\ left' = left
           \/ row' = row /\ lost' = TRUE /\ Fault
    BY DEF ShowOffline, SetRow
  <1>2. loop \in [Loops -> LoopStates] /\ left \in [Budgets -> Nat]
    BY DEF NotifyInv, Types
  <1>3. row' \in [Sessions -> Summaries] /\ UnknownIsOffline'
    BY <1>1, ShownRows DEF NotifyInv, Types, UnknownIsOffline
  <1>4. OfflineAtRest'
    BY <1>1, ShownRows DEF OfflineAtRest
  <1>5. left' \in [Budgets -> Nat] /\ lost' \in BOOLEAN
    BY <1>1, <1>2, FaultTypes
  <1>6. /\ loop' \in [Loops -> LoopStates] /\ loop'[c] = Idle
        /\ \A d \in Loops : d # c => loop'[d] = loop[d]
    BY <1>1, <1>2, IdleLoop, LoopMoves
  <1>7. Types'
    BY <1>1, <1>3, <1>5, <1>6 DEF NotifyInv, Types
  <1>8. ASSUME NEW d \in Loops
        PROVE  /\ InHand(loop'[d]) /\ Permitted(loop'[d], enabled')
               /\ \A i \in SubIds, p \in Pairs : Tells(loop'[d], i, p) => Tells(loop[d], i, p)
    <2>1. CASE d = c
      <3>1. InHand(Idle) /\ (\A e : Permitted(Idle, e)) /\ \A i, p : ~Tells(Idle, i, p)
        BY IdleLoop, FreshLoop
      <3> QED
        BY <1>6, <2>1, <3>1
    <2>2. CASE d # c
      <3>1. loop'[d] = loop[d] /\ InHand(loop[d]) /\ Permitted(loop[d], enabled)
        BY <1>6, <2>2 DEF NotifyInv
      <3> QED
        BY <1>1, <3>1
    <2> QED
      BY <2>1, <2>2
  <1>9. UNCHANGED <<told, expired, dedup>>
    BY <1>1
  <1> QED
    BY <1>3, <1>4, <1>7, <1>8, <1>9, LoopsMove

\* A connection opens, and asks the others to close.
LEMMA ConnectInv ==
    ASSUME NotifyInv, NEW c \in Loops, Connect(c)
    PROVE  NotifyInv'
  <1>1. /\ Spend("connects") /\ UNCHANGED <<row, enabled, dedup, put, told, expired, lost>>
        /\ loop' = [d \in Loops |-> IF d = c THEN [Idle EXCEPT !.ph = "joining"]
                                    ELSE [loop[d] EXCEPT !.closed = loop[d].ph # "out"]]
    BY DEF Connect, db, history
  <1>2. left' \in [Budgets -> Nat]
    <2>1. left \in [Budgets -> Nat] /\ "connects" \in Budgets
      BY DEF NotifyInv, Types, Budgets
    <2> QED
      BY <1>1, <2>1, SpendTypes
  <1>3. PICK j \in LoopStates : /\ j = [Idle EXCEPT !.ph = "joining"]
                                /\ j.ph = "joining" /\ j.todo = <<>>
    BY IdleLoop
  <1>4. ASSUME NEW d \in Loops, d # c
        PROVE  /\ loop'[d] \in LoopStates /\ loop'[d].ph = loop[d].ph
               /\ loop'[d].todo = loop[d].todo /\ loop'[d].s = loop[d].s
               /\ loop'[d].free = loop[d].free /\ loop'[d].targets = loop[d].targets
    <2>1. loop[d] \in LoopStates
      BY DEF NotifyInv, Types
    <2>2. PICK x \in BOOLEAN : x = (loop[d].ph # "out")
      OBVIOUS
    <2>3. loop'[d] = [loop[d] EXCEPT !.closed = x]
      BY <1>1, <1>4, <2>2
    <2> QED
      BY <2>1, <2>3 DEF LoopStates
  <1>5. loop'[c] = j
    BY <1>1, <1>3
  <1>6. loop' \in [Loops -> LoopStates]
    <2>1. \A d \in Loops : loop'[d] \in LoopStates
      BY <1>4, <1>5
    <2>2. loop' = [d \in Loops |-> loop'[d]]
      BY <1>1
    <2> QED
      BY <2>1, <2>2
  <1>7. Types' /\ UnknownIsOffline'
    BY <1>1, <1>2, <1>6 DEF NotifyInv, Types, UnknownIsOffline
  <1>8. OfflineAtRest'
    BY <1>3, <1>5 DEF OfflineAtRest
  <1>9. ASSUME NEW d \in Loops
        PROVE  /\ InHand(loop'[d]) /\ Permitted(loop'[d], enabled')
               /\ \A i \in SubIds, p \in Pairs : Tells(loop'[d], i, p) => Tells(loop[d], i, p)
    <2>1. CASE d = c
      <3>0. j.ph \in {"out", "joining"} /\ j.todo = <<>>
        BY <1>3
      <3>1. InHand(j) /\ (\A e : Permitted(j, e)) /\ \A i, p : ~Tells(j, i, p)
        BY <3>0, FreshLoop
      <3> QED
        BY <1>5, <2>1, <3>1
    <2>2. CASE d # c
      <3>1. InHand(loop[d]) /\ Permitted(loop[d], enabled) /\ enabled' = enabled
        BY <1>1 DEF NotifyInv
      <3>2. /\ loop'[d].ph = loop[d].ph /\ loop'[d].todo = loop[d].todo /\ loop'[d].s = loop[d].s
            /\ loop'[d].free = loop[d].free /\ loop'[d].targets = loop[d].targets
        BY <1>4, <2>2
      <3>3. InHand(loop'[d])
        BY <3>1, <3>2 DEF InHand
      <3>4. Permitted(loop'[d], enabled')
        BY <3>1, <3>2 DEF Permitted
      <3>5. \A i, p : Tells(loop'[d], i, p) => Tells(loop[d], i, p)
        BY <3>2 DEF Tells
      <3> QED
        BY <3>3, <3>4, <3>5
    <2> QED
      BY <2>1, <2>2
  <1>10. UNCHANGED <<told, expired, dedup>>
    BY <1>1
  <1> QED
    BY <1>7, <1>8, <1>9, <1>10, LoopsMove

-----------------------------------------------------------------------------
(* The window, the restart and the Browsers' requests. *)

\* The window of a pair ends.
LEMMA WindowEndsInv ==
    ASSUME NotifyInv, NEW p \in Pairs, WindowEnds(p)
    PROVE  NotifyInv'
  <1>1. /\ p \in dedup /\ Spend("expiries") /\ dedup' = dedup \ {p}
        /\ expired' = [expired EXCEPT ![p] = @ + 1]
        /\ UNCHANGED <<row, enabled, loop, put, told, lost>>
    BY DEF WindowEnds, db
  <1>2. left' \in [Budgets -> Nat]
    <2>1. left \in [Budgets -> Nat] /\ "expiries" \in Budgets
      BY DEF NotifyInv, Types, Budgets
    <2> QED
      BY <1>1, <2>1, SpendTypes
  <1>3. /\ expired' \in [Pairs -> Nat] /\ expired'[p] = expired[p] + 1
        /\ \A q \in Pairs : q # p => expired'[q] = expired[q]
    <2>1. expired \in [Pairs -> Nat]
      BY DEF NotifyInv, Types
    <2>2. expired[p] + 1 \in Nat
      BY <2>1
    <2> QED
      BY <1>1, <2>1, <2>2
  <1>4. Types'
    BY <1>1, <1>2, <1>3 DEF NotifyInv, Types
  <1>5. ASSUME NEW i \in SubIds, NEW q \in Pairs PROVE Windowed(i, q)'
    <2>1. /\ told[i][q] + Cardinality(Tellers(i, q)) <= expired[q] + Count(q \in dedup)
          /\ Types
      BY DEF NotifyInv, Windowed
    <2>2. /\ Cardinality(Tellers(i, q)) \in Nat
          /\ told[i][q] \in Nat /\ expired[q] \in Nat /\ Count(q \in dedup) \in 0..1
      BY <2>1, TellersFinite, PairTypes
    <2>3. Tellers(i, q)' = Tellers(i, q) /\ told' = told
      BY <1>1 DEF Tellers, Tells
    <2>4. expired'[q] + Count(q \in dedup') = expired[q] + Count(q \in dedup)
      <3>1. CASE q # p
        <4>1. q \in dedup' <=> q \in dedup
          BY <1>1, <3>1
        <4>2. Count(q \in dedup') = Count(q \in dedup)
          BY <4>1 DEF Count
        <4> QED
          BY <1>3, <3>1, <4>2
      <3>2. CASE q = p
        <4>1. ~(q \in dedup') /\ q \in dedup
          BY <1>1, <3>2
        <4>2. Count(q \in dedup') = 0 /\ Count(q \in dedup) = 1
          BY <4>1 DEF Count
        <4>3. \A n \in Nat : (n + 1) + 0 = n + 1
          OBVIOUS
        <4> QED
          BY <1>3, <2>2, <3>2, <4>2, <4>3
      <3> QED
        BY <3>1, <3>2
    <2> QED
      BY <2>1, <2>3, <2>4 DEF Windowed
  <1>6. UnknownIsOffline' /\ OfflineAtRest'
    BY <1>1 DEF NotifyInv, UnknownIsOffline, OfflineAtRest
  <1>7. \A c \in Loops : InHand(loop'[c]) /\ Permitted(loop'[c], enabled')
    BY <1>1 DEF NotifyInv
  <1> QED
    BY <1>4, <1>5, <1>6, <1>7 DEF NotifyInv

\* How many of a pair's windows a restart ends.
LEMMA WindowsEnded ==
    ASSUME NEW D, NEW p
    PROVE  Cardinality(D \cap {p}) = Count(p \in D)
  <1>1. CASE p \in D
    <2>1. D \cap {p} = {p}
      BY <1>1
    <2> QED
      BY <1>1, <2>1, FS_Singleton DEF Count
  <1>2. CASE ~(p \in D)
    <2>1. D \cap {p} = {}
      BY <1>2
    <2> QED
      BY <1>2, <2>1, FS_EmptySet DEF Count
  <1> QED
    BY <1>1, <1>2

\* The Relay stops and starts.
LEMMA RestartInv ==
    ASSUME NotifyInv, Restart
    PROVE  NotifyInv'
  <1>1. /\ Spend("restarts") /\ loop' = [c \in Loops |-> Idle] /\ dedup' = {}
        /\ lost' = (lost \/ \E c \in Loops : loop[c].ph # "out")
        /\ expired' = [p \in Pairs |-> expired[p] + Cardinality(dedup \cap {p})]
        /\ put' = NoPut /\ UNCHANGED <<row, enabled, told>>
    BY DEF Restart, db, Pairs
  <1>2. left' \in [Budgets -> Nat]
    <2>1. left \in [Budgets -> Nat] /\ "restarts" \in Budgets
      BY DEF NotifyInv, Types, Budgets
    <2> QED
      BY <1>1, <2>1, SpendTypes
  <1>3. Types /\ lost \in BOOLEAN /\ expired \in [Pairs -> Nat]
    BY DEF NotifyInv, Types
  <1>4. \A p \in Pairs : expired'[p] = expired[p] + Count(p \in dedup)
    BY <1>1, WindowsEnded
  <1>5. expired' \in [Pairs -> Nat]
    <2>1. \A p \in Pairs : expired[p] + Count(p \in dedup) \in Nat
      <3> SUFFICES ASSUME NEW p \in Pairs PROVE expired[p] + Count(p \in dedup) \in Nat
        OBVIOUS
      <3>1. expired[p] \in Nat
        BY <1>3
      <3>2. Count(p \in dedup) = 0 \/ Count(p \in dedup) = 1
        BY DEF Count
      <3> QED
        BY <3>1, <3>2
    <2>2. expired' = [p \in Pairs |-> expired'[p]]
      BY <1>1
    <2> QED
      BY <1>4, <2>1, <2>2
  <1>6. /\ loop' \in [Loops -> LoopStates] /\ \A c \in Loops : loop'[c] = Idle
    BY <1>1, IdleLoop
  <1>7. put'.cur \subseteq Kinds /\ put'.change \subseteq Kinds
    BY <1>1 DEF NoPut
  <1>8. Types'
    BY <1>1, <1>2, <1>3, <1>5, <1>6, <1>7 DEF Types
  <1>9. InHand(Idle) /\ (\A e : Permitted(Idle, e)) /\ \A i, p : ~Tells(Idle, i, p)
    BY IdleLoop, FreshLoop
  <1>10. ASSUME NEW i \in SubIds, NEW p \in Pairs PROVE Windowed(i, p)'
    <2>1. told[i][p] + Cardinality(Tellers(i, p)) <= expired[p] + Count(p \in dedup)
      BY DEF NotifyInv, Windowed
    <2>2. /\ Cardinality(Tellers(i, p)) \in Nat
          /\ told[i][p] \in Nat /\ expired[p] \in Nat /\ Count(p \in dedup) \in 0..1
      BY <1>3, TellersFinite, PairTypes
    <2>3. Cardinality(Tellers(i, p)') = 0
      <3>1. Tellers(i, p)' = {c \in Loops : Tells(loop'[c], i, p)}
        BY DEF Tellers, Tells
      <3>2. Tellers(i, p)' = {}
        BY <1>6, <1>9, <3>1
      <3> QED
        BY <3>2, FS_EmptySet
    <2>4. ~(p \in dedup')
      BY <1>1
    <2>5. Count(p \in dedup') = 0
      BY <2>4 DEF Count
    <2>6. told'[i][p] = told[i][p]
      BY <1>1
    <2>7. told[i][p] + 0 <= (expired[p] + Count(p \in dedup)) + 0
      BY <2>1, <2>2
    <2> QED
      BY <1>4, <2>3, <2>5, <2>6, <2>7 DEF Windowed
  <1>11. UnknownIsOffline' /\ OfflineAtRest'
    BY <1>1, <1>3 DEF NotifyInv, UnknownIsOffline, OfflineAtRest
  <1>12. \A c \in Loops : InHand(loop'[c]) /\ Permitted(loop'[c], enabled')
    BY <1>6, <1>9
  <1> QED
    BY <1>8, <1>10, <1>11, <1>12 DEF NotifyInv

\* A request that allows a trigger in hand: what it keeps of the loops.
LEMMA FreedLoops ==
    ASSUME loop \in [Loops -> LoopStates], NEW r, NEW e
    PROVE  /\ Freed(r, e) \in [Loops -> LoopStates]
           /\ \A c \in Loops :
                 /\ Freed(r, e)[c].ph = loop[c].ph /\ Freed(r, e)[c].todo = loop[c].todo
                 /\ Freed(r, e)[c].s = loop[c].s /\ Freed(r, e)[c].targets = loop[c].targets
                 /\ loop[c].free \subseteq Freed(r, e)[c].free
                 /\ loop[c].todo # <<>> /\ Head(loop[c].todo) \in e
                       => "switched on" \in Freed(r, e)[c].free
  <1>1. ASSUME NEW c \in Loops
        PROVE  /\ Freed(r, e)[c] \in LoopStates
               /\ Freed(r, e)[c].ph = loop[c].ph /\ Freed(r, e)[c].todo = loop[c].todo
               /\ Freed(r, e)[c].s = loop[c].s /\ Freed(r, e)[c].targets = loop[c].targets
               /\ loop[c].free \subseteq Freed(r, e)[c].free
               /\ loop[c].todo # <<>> /\ Head(loop[c].todo) \in e
                     => "switched on" \in Freed(r, e)[c].free
    <2>1. loop[c] \in LoopStates
      OBVIOUS
    <2>2. CASE loop[c].todo = <<>>
      <3>1. Freed(r, e)[c] = loop[c]
        BY <2>2 DEF Freed
      <3> QED
        BY <2>1, <2>2, <3>1
    <2>3. CASE loop[c].todo # <<>>
      <3>1. PICK A \in SUBSET {"unmuted", "switched on", "read failed"} :
               /\ A = Allows(r, e, loop[c].s, Head(loop[c].todo))
               /\ Head(loop[c].todo) \in e => "switched on" \in A
        <4>1. /\ Allows(r, e, loop[c].s, Head(loop[c].todo))
                   \in SUBSET {"unmuted", "switched on", "read failed"}
              /\ Head(loop[c].todo) \in e
                   => "switched on" \in Allows(r, e, loop[c].s, Head(loop[c].todo))
          BY DEF Allows
        <4> QED
          BY <4>1
      <3>2. PICK F \in SUBSET {"unmuted", "switched on", "read failed"} : F = loop[c].free \cup A
        <4>1. loop[c].free \in SUBSET {"unmuted", "switched on", "read failed"}
          BY <2>1 DEF LoopStates
        <4> QED
          BY <4>1
      <3>3. Freed(r, e)[c] = [loop[c] EXCEPT !.free = F]
        BY <2>3, <3>1, <3>2 DEF Freed
      <3>4. /\ [loop[c] EXCEPT !.free = F] \in LoopStates
            /\ [loop[c] EXCEPT !.free = F].ph = loop[c].ph
            /\ [loop[c] EXCEPT !.free = F].todo = loop[c].todo
            /\ [loop[c] EXCEPT !.free = F].s = loop[c].s
            /\ [loop[c] EXCEPT !.free = F].targets = loop[c].targets
            /\ [loop[c] EXCEPT !.free = F].free = F
        BY <2>1 DEF LoopStates
      <3>5. loop[c].free \subseteq F /\ (Head(loop[c].todo) \in e => "switched on" \in F)
        BY <3>1, <3>2
      <3> QED
        BY <3>3, <3>4, <3>5
    <2> QED
      BY <2>2, <2>3
  <1>2. Freed(r, e) \in [Loops -> LoopStates]
    <2>1. Freed(r, e) = [c \in Loops |-> Freed(r, e)[c]]
      BY DEF Freed
    <2> QED
      BY <1>1, <2>1
  <1> QED
    BY <1>1, <1>2

\* Freeing a trigger keeps what is said of the loops.
LEMMA FreedKeeps ==
    ASSUME NotifyInv, NEW r, enabled' \subseteq Kinds, loop' = Freed(r, enabled')
    PROVE  /\ loop' \in [Loops -> LoopStates]
           /\ \A c \in Loops :
                 /\ loop'[c].ph = loop[c].ph /\ InHand(loop'[c]) /\ Permitted(loop'[c], enabled')
                 /\ \A i \in SubIds, p \in Pairs : Tells(loop'[c], i, p) => Tells(loop[c], i, p)
  <1>1. loop \in [Loops -> LoopStates]
    BY DEF NotifyInv, Types
  <1>2. /\ loop' \in [Loops -> LoopStates]
        /\ \A c \in Loops :
              /\ loop'[c].ph = loop[c].ph /\ loop'[c].todo = loop[c].todo
              /\ loop'[c].s = loop[c].s /\ loop'[c].targets = loop[c].targets
              /\ loop[c].free \subseteq loop'[c].free
              /\ loop[c].todo # <<>> /\ Head(loop[c].todo) \in enabled'
                    => "switched on" \in loop'[c].free
    <2>1. PICK e : e = enabled'
      OBVIOUS
    <2>2. loop' = Freed(r, e)
      BY <2>1
    <2>3. /\ Freed(r, e) \in [Loops -> LoopStates]
          /\ \A c \in Loops :
                /\ Freed(r, e)[c].ph = loop[c].ph /\ Freed(r, e)[c].todo = loop[c].todo
                /\ Freed(r, e)[c].s = loop[c].s /\ Freed(r, e)[c].targets = loop[c].targets
                /\ loop[c].free \subseteq Freed(r, e)[c].free
                /\ loop[c].todo # <<>> /\ Head(loop[c].todo) \in e
                      => "switched on" \in Freed(r, e)[c].free
      BY <1>1, FreedLoops
    <2> QED
      BY <2>1, <2>2, <2>3
  <1>3. ASSUME NEW c \in Loops
        PROVE  /\ loop'[c].ph = loop[c].ph /\ InHand(loop'[c]) /\ Permitted(loop'[c], enabled')
               /\ \A i \in SubIds, p \in Pairs : Tells(loop'[c], i, p) => Tells(loop[c], i, p)
    <2>1. InHand(loop[c]) /\ Permitted(loop[c], enabled)
      BY DEF NotifyInv
    <2>2. /\ loop'[c].ph = loop[c].ph /\ loop'[c].todo = loop[c].todo
          /\ loop'[c].s = loop[c].s /\ loop'[c].targets = loop[c].targets
          /\ loop[c].free \subseteq loop'[c].free
          /\ loop[c].todo # <<>> /\ Head(loop[c].todo) \in enabled'
                => "switched on" \in loop'[c].free
      BY <1>2
    <2>3. InHand(loop'[c])
      BY <2>1, <2>2 DEF InHand
    <2>4. \A i, p : Tells(loop'[c], i, p) => Tells(loop[c], i, p)
      BY <2>2 DEF Tells
    <2>5. Permitted(loop'[c], enabled')
      <3>1. CASE loop[c].ph = "decide"
        <4>1. loop[c].todo # <<>> /\ "unmuted" \in loop[c].free
          BY <2>1, <3>1 DEF InHand, Permitted
        <4>2. /\ "unmuted" \in loop'[c].free
              /\ Head(loop'[c].todo) \in enabled' => "switched on" \in loop'[c].free
          BY <2>2, <4>1
        <4> QED
          BY <2>2, <3>1, <4>2 DEF Permitted
      <3>2. CASE loop[c].ph \in {"load", "send", "gone"}
        <4>1. "unmuted" \in loop[c].free /\ loop[c].free # {"unmuted"}
          BY <2>1, <3>2 DEF Permitted
        <4>2. "unmuted" \in loop'[c].free /\ loop'[c].free # {"unmuted"}
          BY <2>2, <4>1
        <4> QED
          BY <2>2, <3>2, <4>2 DEF Permitted
      <3>3. CASE loop[c].ph \notin {"decide", "load", "send", "gone"}
        BY <2>2, <3>3 DEF Permitted
      <3> QED
        BY <3>1, <3>2, <3>3
    <2> QED
      BY <2>2, <2>3, <2>4, <2>5
  <1> QED
    BY <1>2, <1>3

\* The preferences of a session.
LEMMA PatchPrefsInv ==
    ASSUME NotifyInv, NEW s \in Sessions, NEW m \in BOOLEAN, NEW a \in BOOLEAN, PatchPrefs(s, m, a)
    PROVE  NotifyInv'
  <1> DEFINE r == [row EXCEPT ![s].muted = m, ![s].archived = a]
  <1>1. /\ Spend("changes") /\ row' = r /\ loop' = Freed(r, enabled)
        /\ UNCHANGED <<enabled, dedup, put, told, expired, lost>>
    BY DEF PatchPrefs, SetRow, history
  <1>2. left' \in [Budgets -> Nat]
    <2>1. left \in [Budgets -> Nat] /\ "changes" \in Budgets
      BY DEF NotifyInv, Types, Budgets
    <2> QED
      BY <1>1, <2>1, SpendTypes
  <1>3. /\ r \in [Sessions -> Summaries]
        /\ \A t \in Sessions : r[t].online = row[t].online /\ r[t].known = row[t].known
    <2>1. row \in [Sessions -> Summaries]
      BY DEF NotifyInv, Types
    <2>2. PICK x \in Summaries : /\ x = [row[s] EXCEPT !.muted = m, !.archived = a]
                                 /\ x.online = row[s].online /\ x.known = row[s].known
      <3>1. row[s] \in Summaries
        BY <2>1
      <3>2. /\ [row[s] EXCEPT !.muted = m, !.archived = a] \in Summaries
            /\ [row[s] EXCEPT !.muted = m, !.archived = a].online = row[s].online
            /\ [row[s] EXCEPT !.muted = m, !.archived = a].known = row[s].known
        BY <3>1 DEF Summaries
      <3> QED
        BY <3>2
    <2>3. r = [row EXCEPT ![s] = x]
      BY <2>1, <2>2
    <2> HIDE DEF r
    <2> QED
      BY <2>1, <2>2, <2>3
  <1> HIDE DEF r
  <1>4. /\ loop' \in [Loops -> LoopStates]
        /\ \A c \in Loops :
              /\ loop'[c].ph = loop[c].ph /\ InHand(loop'[c]) /\ Permitted(loop'[c], enabled')
              /\ \A i \in SubIds, p \in Pairs : Tells(loop'[c], i, p) => Tells(loop[c], i, p)
    <2>1. enabled' \subseteq Kinds /\ loop' = Freed(r, enabled')
      BY <1>1 DEF NotifyInv, Types
    <2> QED
      BY <2>1, FreedKeeps
  <1>5. Types'
    BY <1>1, <1>2, <1>3, <1>4 DEF NotifyInv, Types
  <1>6. UnknownIsOffline' /\ OfflineAtRest'
    BY <1>1, <1>3, <1>4 DEF NotifyInv, UnknownIsOffline, OfflineAtRest
  <1>7. UNCHANGED <<told, expired, dedup>>
    BY <1>1
  <1> QED
    BY <1>4, <1>5, <1>6, <1>7, LoopsMove

\* The settings are written.
LEMMA WriteSettingsInv ==
    ASSUME NotifyInv, WriteSettings
    PROVE  NotifyInv'
  <1> DEFINE e == IF put.on THEN put.cur \cup put.change ELSE put.cur \ put.change
  <1>1. /\ put' = NoPut /\ UNCHANGED <<row, dedup, told, expired, lost>>
        /\ \/ enabled' = e /\ loop' = Freed(row, e) /\ left' = left
           \/ Fault /\ UNCHANGED <<enabled, loop>>
    BY DEF WriteSettings, history
  <1>2. e \subseteq Kinds
    BY DEF NotifyInv, Types
  <1> HIDE DEF e
  <1>3. left' \in [Budgets -> Nat]
    BY <1>1, FaultTypes DEF NotifyInv, Types
  <1>4. enabled' \subseteq Kinds /\ put'.cur \subseteq Kinds /\ put'.change \subseteq Kinds
    BY <1>1, <1>2 DEF NotifyInv, Types, NoPut
  <1>5. CASE Fault /\ UNCHANGED <<enabled, loop>>
    <2>1. Types'
      BY <1>1, <1>3, <1>4, <1>5 DEF NotifyInv, Types
    <2> QED
      BY <1>1, <1>5, <2>1, QuietStep
  <1>6. CASE enabled' = e /\ loop' = Freed(row, e) /\ left' = left
    <2>1. /\ loop' \in [Loops -> LoopStates]
          /\ \A c \in Loops :
                /\ loop'[c].ph = loop[c].ph /\ InHand(loop'[c]) /\ Permitted(loop'[c], enabled')
                /\ \A i \in SubIds, p \in Pairs : Tells(loop'[c], i, p) => Tells(loop[c], i, p)
      <3>1. loop' = Freed(row, enabled')
        BY <1>6
      <3> QED
        BY <1>4, <3>1, FreedKeeps
    <2>2. Types'
      BY <1>1, <1>3, <1>4, <2>1 DEF NotifyInv, Types
    <2>3. UnknownIsOffline' /\ OfflineAtRest'
      BY <1>1, <2>1 DEF NotifyInv, UnknownIsOffline, OfflineAtRest
    <2>4. UNCHANGED <<told, expired, dedup>>
      BY <1>1
    <2> QED
      BY <2>1, <2>2, <2>3, <2>4, LoopsMove
  <1> QED
    BY <1>1, <1>5, <1>6

\* The settings are read, the subscriptions change, a walk starts or goes on:
\* nothing notify depends on moves.
LEMMA RequestInv ==
    ASSUME NotifyInv,
           \/ \E k \in Kinds, on \in BOOLEAN : PutSettings({k}, on)
           \/ \E i \in SubIds, e \in Endpoints : CreateSubscription(i, e) \/ UpdateSubscription(i, e)
           \/ \E i \in SubIds : DeleteSubscription(i)
           \/ StartWalk \/ Page
    PROVE  NotifyInv'
  <1>0. Types /\ left \in [Budgets -> Nat] /\ enabled \subseteq Kinds
    BY DEF NotifyInv, Types
  <1>1. ASSUME NEW k \in Kinds, NEW on \in BOOLEAN, PutSettings({k}, on) PROVE NotifyInv'
    <2>1. /\ UNCHANGED <<row, enabled, dedup, loop, told, expired, lost>>
          /\ \/ Spend("changes")
                /\ put' = [ph |-> "read", cur |-> enabled, change |-> {k}, on |-> on]
             \/ /\ left.changes > 0 /\ left.faults > 0
                /\ left' = [left EXCEPT !.changes = @ - 1, !.faults = @ - 1]
                /\ put' = [ph |-> "read", cur |-> Kinds, change |-> {k}, on |-> on]
      BY <1>1 DEF PutSettings, db, history
    <2>2. put'.cur \subseteq Kinds /\ put'.change \subseteq Kinds
      BY <1>0, <2>1
    <2>3. left' \in [Budgets -> Nat]
      <3>1. CASE Spend("changes")
        BY <1>0, <3>1, SpendTypes DEF Budgets
      <3>2. CASE /\ left.changes > 0 /\ left.faults > 0
                 /\ left' = [left EXCEPT !.changes = @ - 1, !.faults = @ - 1]
        <4>1. left["changes"] - 1 \in Nat /\ left["faults"] - 1 \in Nat
          BY <1>0, <3>2 DEF Budgets
        <4> QED
          BY <1>0, <3>2, <4>1 DEF Budgets
      <3> QED
        BY <2>1, <3>1, <3>2
    <2>4. Types'
      BY <1>0, <2>1, <2>2, <2>3 DEF Types
    <2> QED
      BY <2>1, <2>4, QuietStep
  <1>2. ASSUME UNCHANGED <<row, enabled, dedup, loop, put, told, expired, lost>>,
               Spend("changes") \/ Spend("walks") \/ left' = left
        PROVE  NotifyInv'
    <2>1. left' \in [Budgets -> Nat]
      BY <1>0, <1>2, SpendTypes DEF Budgets
    <2>2. Types'
      BY <1>0, <1>2, <2>1 DEF Types
    <2> QED
      BY <1>2, <2>2, QuietStep
  <1>3. ASSUME NEW i \in SubIds, NEW e \in Endpoints, CreateSubscription(i, e) \/ UpdateSubscription(i, e)
        PROVE  NotifyInv'
    BY <1>2, <1>3 DEF CreateSubscription, UpdateSubscription, history
  <1>4. ASSUME NEW i \in SubIds, DeleteSubscription(i) PROVE NotifyInv'
    BY <1>2, <1>4 DEF DeleteSubscription, history
  <1>5. ASSUME StartWalk PROVE NotifyInv'
    BY <1>2, <1>5 DEF StartWalk, db, history
  <1>6. ASSUME Page PROVE NotifyInv'
    <2>1. UNCHANGED <<db, dedup, loop, put, history, left>>
      BY <1>6 DEF Page
    <2> QED
      BY <1>2, <2>1 DEF db, history
  <1> QED
    BY <1>1, <1>3, <1>4, <1>5, <1>6

-----------------------------------------------------------------------------
(* The invariant, and the theorems. *)

\* At the start nothing is known and nobody was told.
LEMMA InitInv == Init => NotifyInv
  <1> SUFFICES ASSUME Init PROVE NotifyInv
    OBVIOUS
  <1>1. /\ row = [s \in Sessions |-> NoRow] /\ enabled = Kinds /\ dedup = {}
        /\ loop = [c \in Loops |-> Idle] /\ put = NoPut
        /\ told = [i \in SubIds |-> [p \in Pairs |-> 0]] /\ expired = [p \in Pairs |-> 0]
        /\ lost = FALSE /\ left \in Setups
    BY DEF Init, Pairs
  <1>2. NoRow \in Summaries /\ ~NoRow.online
    BY DEF NoRow, Summaries
  <1>3. left \in [Budgets -> Nat]
    BY <1>1, SessionsAssumption
  <1>4. loop \in [Loops -> LoopStates] /\ \A c \in Loops : loop[c] = Idle
    BY <1>1, IdleLoop
  <1>5. Types
    BY <1>1, <1>2, <1>3, <1>4 DEF Types, NoPut
  <1>6. InHand(Idle) /\ (\A e : Permitted(Idle, e)) /\ \A i, p : ~Tells(Idle, i, p)
    BY IdleLoop, FreshLoop
  <1>7. ASSUME NEW i \in SubIds, NEW p \in Pairs PROVE Windowed(i, p)
    <2>1. Tellers(i, p) = {}
      BY <1>4, <1>6 DEF Tellers
    <2>2. Cardinality(Tellers(i, p)) = 0
      BY <2>1, FS_EmptySet
    <2>3. ~(p \in dedup) /\ told[i][p] = 0 /\ expired[p] = 0
      BY <1>1
    <2>4. Count(p \in dedup) = 0
      BY <2>3 DEF Count
    <2> QED
      BY <2>2, <2>3, <2>4 DEF Windowed
  <1>8. UnknownIsOffline /\ OfflineAtRest
    BY <1>1, <1>2 DEF UnknownIsOffline, OfflineAtRest
  <1>9. \A c \in Loops : InHand(loop[c]) /\ Permitted(loop[c], enabled)
    BY <1>4, <1>6
  <1> QED
    BY <1>5, <1>7, <1>8, <1>9 DEF NotifyInv

\* Every step keeps the invariant.
LEMMA StepInv == NotifyInv /\ [Next]_vars => NotifyInv'
  <1> SUFFICES ASSUME NotifyInv, [Next]_vars PROVE NotifyInv'
    OBVIOUS
  <1>1. ASSUME NEW c \in Loops,
               \/ Connect(c) \/ ShowOnline(c) \/ FindSession(c) \/ Decide(c) \/ LoadSubscriptions(c)
               \/ DeleteGone(c) \/ Leave(c) \/ ShowOffline(c)
        PROVE  NotifyInv'
    BY <1>1, ConnectInv, ShowOnlineInv, FindSessionInv, DecideInv, LoadSubscriptionsInv,
       DeleteGoneInv, LeaveInv, ShowOfflineInv
  <1>2. ASSUME NEW c \in Loops, NEW s \in Sessions, NEW t \in 0..left.time, NEW ks \in Triggers,
               SummaryBatch(c, s, t, ks)
        PROVE  NotifyInv'
    <2>1. t \in Nat
      BY <1>2
    <2> QED
      BY <1>2, <2>1, BatchInv
  <1>3. ASSUME NEW c \in Loops, NEW s \in Sessions, NEW ks \in Triggers, EventBatch(c, s, ks)
        PROVE  NotifyInv'
    <2>1. 0 \in Nat
      OBVIOUS
    <2> QED
      BY <1>3, <2>1, BatchInv
  <1>4. ASSUME NEW c \in Loops, NEW i \in SubIds, Send(c, i) PROVE NotifyInv'
    BY <1>4, SendInv
  <1>5. ASSUME NEW p \in Pairs, WindowEnds(p) PROVE NotifyInv'
    BY <1>5, WindowEndsInv
  <1>6. ASSUME NEW s \in Sessions, NEW m \in BOOLEAN, NEW a \in BOOLEAN, PatchPrefs(s, m, a)
        PROVE  NotifyInv'
    BY <1>6, PatchPrefsInv
  <1>7. CASE UNCHANGED vars
    <2>1. UNCHANGED <<row, enabled, dedup, loop, put, told, expired, lost, left>>
      BY <1>7 DEF vars
    <2>2. Types'
      BY <2>1 DEF NotifyInv, Types
    <2> QED
      BY <2>1, <2>2, QuietStep
  <1> QED
    BY <1>1, <1>2, <1>3, <1>4, <1>5, <1>6, <1>7, RestartInv, WriteSettingsInv, RequestInv
    DEF Next, Pairs

\* The inductive invariant of the notifications holds in every behaviour.
THEOREM SessionsInvariant == Spec => []NotifyInv
  BY InitInv, StepInv, PTL DEF Spec

\* Whatever two loops of a device do at once, a subscription is told of one
\* kind of one session once per window of dedup_allow.
THEOREM NotifiedOncePerWindow == Spec => []OncePerWindow
  <1>1. NotifyInv => OncePerWindow
    <2> SUFFICES ASSUME NotifyInv, NEW i \in SubIds, NEW p \in Pairs
                 PROVE  told[i][p] <= 1 + expired[p]
      BY DEF OncePerWindow, Pairs
    <2>1. /\ told[i][p] + Cardinality(Tellers(i, p)) <= expired[p] + Count(p \in dedup)
          /\ Types
      BY DEF NotifyInv, Windowed
    <2>2. /\ Cardinality(Tellers(i, p)) \in Nat
          /\ told[i][p] \in Nat /\ expired[p] \in Nat /\ Count(p \in dedup) \in 0..1
      BY <2>1, TellersFinite, PairTypes
    <2> QED
      BY <2>1, <2>2
  <1> QED
    BY <1>1, SessionsInvariant, PTL

\* notify sends nothing for a session that stayed muted or for a kind that
\* stayed off since it took the trigger up, except after a failed read.
THEOREM SilentWhenSwitchedOff == Spec => []QuietWhenTold
  <1>1. NotifyInv => QuietWhenTold
    BY DEF NotifyInv, Permitted, QuietWhenTold
  <1> QED
    BY <1>1, SessionsInvariant, PTL

\* A device without connections is shown offline, in whatever order its loops
\* ended, unless the last write of OFFLINE was lost.
THEOREM OfflineWithoutConnections == Spec => []OfflineAtRest
  <1>1. NotifyInv => OfflineAtRest
    BY DEF NotifyInv
  <1> QED
    BY <1>1, SessionsInvariant, PTL

-----------------------------------------------------------------------------
(* The walk through the pages of the list.  What ORDER BY and LIMIT return *)
(* is found from the rows' ranks: a strict order on a finite set has a     *)
(* first and a last element because ranks are naturals.                    *)

Ahead(R, s) == {t \in R : Before(row, t, s)}
Behind(R, s) == {t \in R : Before(row, s, t)}

Walks == [ph : {"none", "open", "end"}, after : {<<>>} \cup (Nat \X Sessions),
          seen : [Sessions -> Nat], due : SUBSET Sessions]

\* A session that stayed where it is was shown once when the cursor is past
\* it, and not yet when the cursor is still before it.
ShownSoFar(s) == walk.seen[s] = IF AfterCursor(s) THEN 0 ELSE 1

WalkInv ==
    /\ walk \in Walks
    /\ walk.ph = "open" => \A s \in walk.due : Listed(row, s) /\ ShownSoFar(s)
    /\ UnmovedListedOnce

\* A set of naturals that is not empty has a least element.
LEMMA LeastNatural ==
    ASSUME NEW T, T \subseteq Nat, T # {}
    PROVE  \E x \in T : \A y \in T : x <= y
  <1>1. PICK x \in T : \A y \in T : ~(<<y, x>> \in OpToRel(<, Nat))
    BY NatLessThanWellFounded, WFMin, Zenon
  <1>2. ASSUME NEW y \in T PROVE x <= y
    <2>1. x \in Nat /\ y \in Nat
      OBVIOUS
    <2>2. ~(y < x)
      BY <1>1, <2>1 DEF OpToRel
    <2> QED
      BY <2>1, <2>2
  <1> QED
    BY <1>2

\* The order of the list is strict and total.
LEMMA ListOrder ==
    ASSUME row \in [Sessions -> Summaries]
    PROVE  /\ \A s \in Sessions : ~Before(row, s, s)
           /\ \A s, t \in Sessions : s = t \/ Before(row, s, t) \/ Before(row, t, s)
           /\ \A s, t, u \in Sessions : Before(row, s, t) /\ Before(row, t, u) => Before(row, s, u)
  <1>1. \A s \in Sessions : s \in Nat /\ row[s].at \in Nat
    BY SessionsAssumption DEF Summaries, Sessions
  <1>2. \A s \in Sessions : ~Before(row, s, s)
    BY <1>1 DEF Before
  <1>3. \A s, t \in Sessions : s = t \/ Before(row, s, t) \/ Before(row, t, s)
    BY <1>1 DEF Before
  <1>4. ASSUME NEW s \in Sessions, NEW t \in Sessions, NEW u \in Sessions,
               Before(row, s, t), Before(row, t, u)
        PROVE  Before(row, s, u)
    BY <1>1, <1>4 DEF Before
  <1> QED
    BY <1>2, <1>3, <1>4

\* The sessions of the device, and any of them, are finitely many.
LEMMA SessionsFinite ==
    ASSUME NEW R, R \subseteq Sessions
    PROVE  IsFiniteSet(R) /\ Cardinality(R) \in Nat
  <1>1. IsFiniteSet(Sessions)
    BY SessionsAssumption, FS_Interval DEF Sessions
  <1>2. IsFiniteSet(R)
    BY <1>1, FS_Subset
  <1> QED
    BY <1>2, FS_CardinalityType

\* A proper part of a set of sessions has fewer of them.
LEMMA FewerSessions ==
    ASSUME NEW R, R \subseteq Sessions, NEW T, T \subseteq R, NEW x \in R, x \notin T
    PROVE  Cardinality(T) < Cardinality(R)
  <1>1. IsFiniteSet(R) /\ Cardinality(R) \in Nat /\ Cardinality(T) \in Nat
    BY SessionsFinite
  <1>2. Cardinality(T) <= Cardinality(R) /\ (Cardinality(R) = Cardinality(T) => R = T)
    BY <1>1, FS_Subset
  <1> QED
    BY <1>1, <1>2

\* A row before another has fewer rows ahead of it and more behind it.
LEMMA RankOrder ==
    ASSUME row \in [Sessions -> Summaries], NEW R, R \subseteq Sessions,
           NEW s \in R, NEW t \in R, Before(row, s, t)
    PROVE  /\ Cardinality(Ahead(R, s)) < Cardinality(Ahead(R, t))
           /\ Cardinality(Behind(R, t)) < Cardinality(Behind(R, s))
  <1>1. /\ Ahead(R, s) \subseteq Ahead(R, t) /\ s \in Ahead(R, t) /\ s \notin Ahead(R, s)
        /\ Behind(R, t) \subseteq Behind(R, s) /\ t \in Behind(R, s) /\ t \notin Behind(R, t)
    BY ListOrder DEF Ahead, Behind
  <1>2. Ahead(R, t) \subseteq Sessions /\ Behind(R, s) \subseteq Sessions
    BY DEF Ahead, Behind
  <1> QED
    BY <1>1, <1>2, FewerSessions

\* Rows that are not none have a first and a last.
LEMMA FirstAndLast ==
    ASSUME row \in [Sessions -> Summaries], NEW R, R \subseteq Sessions, R # {}
    PROVE  /\ \E s \in R : Ahead(R, s) = {}
           /\ \E s \in R : \A t \in R : ~Before(row, s, t)
  <1>1. \A s \in R : Cardinality(Ahead(R, s)) \in Nat /\ Cardinality(Behind(R, s)) \in Nat
    <2>1. \A s \in R : Ahead(R, s) \subseteq Sessions /\ Behind(R, s) \subseteq Sessions
      BY DEF Ahead, Behind
    <2> QED
      BY <2>1, SessionsFinite
  <1>2. \E s \in R : Ahead(R, s) = {}
    <2>1. PICK n \in {Cardinality(Ahead(R, s)) : s \in R} :
             \A m \in {Cardinality(Ahead(R, s)) : s \in R} : n <= m
      <3>1. /\ {Cardinality(Ahead(R, s)) : s \in R} \subseteq Nat
            /\ {Cardinality(Ahead(R, s)) : s \in R} # {}
        BY <1>1
      <3> QED
        BY <3>1, LeastNatural
    <2>2. PICK s \in R : n = Cardinality(Ahead(R, s))
      BY <2>1
    <2>3. ASSUME NEW t \in Ahead(R, s) PROVE FALSE
      <3>1. t \in R /\ Before(row, t, s)
        BY DEF Ahead
      <3>2. Cardinality(Ahead(R, t)) < Cardinality(Ahead(R, s))
        BY <3>1, RankOrder
      <3>3. n <= Cardinality(Ahead(R, t))
        BY <2>1, <3>1
      <3> QED
        BY <1>1, <2>2, <3>1, <3>2, <3>3
    <2> QED
      BY <2>3
  <1>3. \E s \in R : \A t \in R : ~Before(row, s, t)
    <2>1. PICK n \in {Cardinality(Behind(R, s)) : s \in R} :
             \A m \in {Cardinality(Behind(R, s)) : s \in R} : n <= m
      <3>1. /\ {Cardinality(Behind(R, s)) : s \in R} \subseteq Nat
            /\ {Cardinality(Behind(R, s)) : s \in R} # {}
        BY <1>1
      <3> QED
        BY <3>1, LeastNatural
    <2>2. PICK s \in R : n = Cardinality(Behind(R, s))
      BY <2>1
    <2>3. ASSUME NEW t \in R, Before(row, s, t) PROVE FALSE
      <3>1. Cardinality(Behind(R, t)) < Cardinality(Behind(R, s))
        BY <2>3, RankOrder
      <3>2. n <= Cardinality(Behind(R, t))
        BY <2>1
      <3> QED
        BY <1>1, <2>2, <3>1, <3>2
    <2> QED
      BY <2>3
  <1> QED
    BY <1>2, <1>3

\* ORDER BY ... LIMIT n of rows that are not none: there is a last one, and the
\* rows returned are that one and the rows before it.
LEMMA FirstRowsOf ==
    ASSUME row \in [Sessions -> Summaries], NEW R, R \subseteq Sessions, R # {},
           NEW n \in Nat \ {0}
    PROVE  /\ FirstRows(R, n) \subseteq R
           /\ \E s \in FirstRows(R, n) : \A t \in FirstRows(R, n) : ~Before(row, s, t)
           /\ \A last \in FirstRows(R, n) :
                (\A t \in FirstRows(R, n) : ~Before(row, last, t)) =>
                  \A s \in R : s \in FirstRows(R, n) <=> ~Before(row, last, s)
  <1>1. FirstRows(R, n) = {s \in R : Cardinality(Ahead(R, s)) < n}
    BY DEF FirstRows, Ahead
  <1>2. FirstRows(R, n) # {}
    <2>1. PICK s \in R : Ahead(R, s) = {}
      BY FirstAndLast
    <2>2. Cardinality(Ahead(R, s)) = 0
      BY <2>1, FS_EmptySet
    <2>3. 0 < n
      OBVIOUS
    <2> QED
      BY <1>1, <2>2, <2>3
  <1>3. FirstRows(R, n) \subseteq R /\ FirstRows(R, n) \subseteq Sessions
    BY <1>1
  <1>4. \E s \in FirstRows(R, n) : \A t \in FirstRows(R, n) : ~Before(row, s, t)
    BY <1>2, <1>3, FirstAndLast
  <1>5. ASSUME NEW last \in FirstRows(R, n), \A t \in FirstRows(R, n) : ~Before(row, last, t),
               NEW s \in R, ~Before(row, last, s)
        PROVE  s \in FirstRows(R, n)
    <2>1. last \in R /\ Cardinality(Ahead(R, last)) < n
      BY <1>1
    <2>2. s = last \/ Before(row, s, last)
      BY <1>5, <2>1, ListOrder
    <2>3. CASE Before(row, s, last)
      <3>1. Cardinality(Ahead(R, s)) < Cardinality(Ahead(R, last))
        BY <2>1, <2>3, RankOrder
      <3>2. Cardinality(Ahead(R, s)) \in Nat /\ Cardinality(Ahead(R, last)) \in Nat
        <4>1. Ahead(R, s) \subseteq Sessions /\ Ahead(R, last) \subseteq Sessions
          BY DEF Ahead
        <4> QED
          BY <4>1, SessionsFinite
      <3>3. Cardinality(Ahead(R, s)) < n
        BY <2>1, <3>1, <3>2
      <3> QED
        BY <1>1, <3>3
    <2> QED
      BY <2>2, <2>3
  <1> QED
    BY <1>3, <1>4, <1>5

\* The cursor is a row: the rows after it are the ones behind that row.
LEMMA CursorAtRow ==
    ASSUME row \in [Sessions -> Summaries], NEW last \in Sessions,
           walk'.after = <<row[last].at, last>>, row' = row
    PROVE  \A s \in Sessions : AfterCursor(s)' <=> Before(row, last, s)
  <1> SUFFICES ASSUME NEW s \in Sessions PROVE AfterCursor(s)' <=> Before(row, last, s)
    OBVIOUS
  <1>1. /\ last \in Nat /\ s \in Nat /\ row[last].at \in Nat /\ row[s].at \in Nat
    BY SessionsAssumption DEF Summaries, Sessions
  <1>2. walk'.after # <<>> /\ walk'.after[1] = row[last].at /\ walk'.after[2] = last
    OBVIOUS
  <1>3. AfterCursor(s)' <=> row[s].at < row[last].at \/ (row[s].at = row[last].at /\ s < last)
    BY <1>2 DEF AfterCursor
  <1> QED
    BY <1>1, <1>3 DEF Before

\* Behind a row the cursor has yet to pass there is none that it has passed.
LEMMA CursorOrder ==
    ASSUME row \in [Sessions -> Summaries], walk \in Walks,
           NEW s \in Sessions, NEW t \in Sessions, AfterCursor(s), Before(row, s, t)
    PROVE  AfterCursor(t)
  <1>1. /\ s \in Nat /\ t \in Nat /\ row[s].at \in Nat /\ row[t].at \in Nat
    BY SessionsAssumption DEF Summaries, Sessions
  <1>2. CASE walk.after = <<>>
    BY <1>2 DEF AfterCursor
  <1>3. CASE walk.after # <<>>
    <2>1. PICK a \in Nat, c \in Nat : walk.after[1] = a /\ walk.after[2] = c
      <3>1. walk.after \in Nat \X Sessions
        BY <1>3 DEF Walks
      <3>2. Sessions \subseteq Nat
        BY SessionsAssumption DEF Sessions
      <3> QED
        BY <3>1, <3>2
    <2>2. row[s].at < a \/ (row[s].at = a /\ s < c)
      BY <1>3, <2>1 DEF AfterCursor
    <2>3. row[t].at < a \/ (row[t].at = a /\ t < c)
      BY <1>1, <2>1, <2>2 DEF Before
    <2> QED
      BY <2>1, <2>3 DEF AfterCursor
  <1> QED
    BY <1>2, <1>3

\* A page: the cursor passes exactly the rows that are shown.
LEMMA PageWalk ==
    ASSUME row \in [Sessions -> Summaries], WalkInv, Page
    PROVE  WalkInv'
  <1> DEFINE rows == {s \in Sessions : Listed(row, s) /\ AfterCursor(s)}
             more == Cardinality(rows) > PageSize
             got  == IF more THEN FirstRows(rows, PageSize) ELSE rows
             last == CHOOSE s \in got : \A t \in got : ~Before(row, s, t)
             seen == [s \in Sessions |-> walk.seen[s] + (IF s \in got THEN 1 ELSE 0)]
  <1>1. /\ walk.ph = "open" /\ row' = row
        /\ walk' = [walk EXCEPT !.ph = IF more THEN "open" ELSE "end",
                                !.after = IF more THEN <<row[last].at, last>> ELSE <<>>,
                                !.seen = seen]
    BY DEF Page, db
  <1>2. /\ walk \in Walks /\ walk.seen \in [Sessions -> Nat] /\ walk.due \subseteq Sessions
        /\ \A s \in walk.due : Listed(row, s) /\ ShownSoFar(s)
    BY <1>1 DEF WalkInv, Walks
  <1>3. seen \in [Sessions -> Nat]
    BY <1>2
  <1>4. rows \subseteq Sessions /\ PageSize \in Nat \ {0}
    BY SessionsAssumption
  <1>5. \A s \in walk.due : s \in rows <=> AfterCursor(s)
    BY <1>2
  <1>6. \A s \in walk.due : walk.seen[s] = IF s \in rows THEN 0 ELSE 1
    BY <1>2, <1>5 DEF ShownSoFar
  <1>7. CASE more
    <2>1. Cardinality(rows) \in Nat /\ rows # {}
      <3>1. Cardinality(rows) \in Nat
        BY <1>4, SessionsFinite
      <3>2. Cardinality(rows) # 0
        BY <1>4, <1>7, <3>1
      <3> QED
        BY <3>1, <3>2, FS_EmptySet
    <2>2. got = FirstRows(rows, PageSize)
      BY <1>7
    <2>3. PICK l \in Sessions : /\ l = last /\ l \in rows
                                /\ \A s \in rows : s \in got <=> ~Before(row, l, s)
      <3> HIDE DEF rows, more, got, last
      <3>1. /\ got \subseteq rows /\ last \in got /\ \A t \in got : ~Before(row, last, t)
        <4>1. got \subseteq rows /\ \E s \in got : \A t \in got : ~Before(row, s, t)
          BY <1>4, <2>1, <2>2, FirstRowsOf
        <4> QED
          BY <4>1 DEF last
      <3>2. \A s \in rows : s \in got <=> ~Before(row, last, s)
        BY <1>4, <2>1, <2>2, <3>1, FirstRowsOf
      <3> QED
        BY <1>4, <3>1, <3>2
    <2>4. row[l].at \in Nat
      BY DEF Summaries
    <2>5. /\ walk' \in Walks /\ walk'.ph = "open" /\ walk'.after = <<row[l].at, l>>
          /\ walk'.seen = seen /\ walk'.due = walk.due
      <3>1. walk' = [walk EXCEPT !.ph = "open", !.after = <<row[l].at, l>>, !.seen = seen]
        <4> HIDE DEF more, last, seen
        <4> QED
          BY <1>1, <1>7, <2>3
      <3> HIDE DEF seen
      <3> QED
        BY <1>2, <1>3, <2>4, <3>1 DEF Walks
    <2>6. \A s \in Sessions : AfterCursor(s)' <=> Before(row, l, s)
      BY <1>1, <2>5, CursorAtRow
    <2>7. ASSUME NEW s \in walk.due PROVE ShownSoFar(s)'
      <3>1. s \in Sessions /\ walk'.seen[s] = walk.seen[s] + (IF s \in got THEN 1 ELSE 0)
        <4> HIDE DEF got
        <4> QED
          BY <1>2, <2>5
      <3>2. s \in got => s \in rows
        BY <1>4, <2>1, <2>2, FirstRowsOf
      <3>3. CASE s \in rows
        <4>1. s \in got <=> ~AfterCursor(s)'
          BY <2>3, <2>6, <3>1, <3>3
        <4>2. walk.seen[s] = 0
          BY <1>6, <3>3
        <4>3. walk'.seen[s] = IF AfterCursor(s)' THEN 0 ELSE 1
          <5> HIDE DEF got
          <5> QED
            BY <3>1, <4>1, <4>2
        <4> QED
          BY <4>3 DEF ShownSoFar
      <3>4. CASE s \notin rows
        <4>1. ~AfterCursor(s) /\ AfterCursor(l)
          BY <1>5, <2>3, <3>4
        <4>2. ~AfterCursor(s)'
          BY <1>2, <2>6, <3>1, <4>1, CursorOrder
        <4>3. walk.seen[s] = 1
          BY <1>6, <3>4
        <4>4. walk'.seen[s] = 1
          <5> HIDE DEF got, rows
          <5> QED
            BY <3>1, <3>2, <3>4, <4>3
        <4> QED
          BY <4>2, <4>4 DEF ShownSoFar
      <3> QED
        BY <3>3, <3>4
    <2>8. \A s \in walk'.due : Listed(row, s)' /\ ShownSoFar(s)'
      BY <1>1, <1>2, <2>5, <2>7 DEF Listed
    <2> QED
      BY <2>5, <2>8 DEF WalkInv, UnmovedListedOnce
  <1>8. CASE ~more
    <2>1. got = rows
      BY <1>8
    <2>2. /\ walk' \in Walks /\ walk'.ph = "end" /\ walk'.seen = seen /\ walk'.due = walk.due
      <3>1. walk' = [walk EXCEPT !.ph = "end", !.after = <<>>, !.seen = seen]
        <4> HIDE DEF more, last, seen
        <4> QED
          BY <1>1, <1>8
      <3> HIDE DEF seen
      <3> QED
        BY <1>2, <1>3, <3>1 DEF Walks
    <2>3. ASSUME NEW s \in walk.due PROVE walk'.seen[s] = 1
      <3> HIDE DEF rows, more, got
      <3>1. walk'.seen[s] = walk.seen[s] + (IF s \in rows THEN 1 ELSE 0)
        BY <1>2, <2>1, <2>2
      <3> QED
        BY <1>6, <3>1
    <2> QED
      BY <2>2, <2>3 DEF WalkInv, UnmovedListedOnce
  <1> QED
    BY <1>7, <1>8

\* The walk starts with every listed session due and none shown.
LEMMA StartWalkWalk ==
    ASSUME StartWalk
    PROVE  WalkInv'
  <1>1. /\ row' = row
        /\ walk' = [ph |-> "open", after |-> <<>>, seen |-> [s \in Sessions |-> 0],
                    due |-> {s \in Sessions : Listed(row, s)}]
    BY DEF StartWalk, NoWalk, db
  <1>2. walk' \in Walks
    BY <1>1 DEF Walks
  <1>3. \A s \in walk'.due : Listed(row, s)' /\ ShownSoFar(s)'
    BY <1>1 DEF Listed, ShownSoFar, AfterCursor
  <1> QED
    BY <1>1, <1>2, <1>3 DEF WalkInv, UnmovedListedOnce

\* A change of the rows: what it moves is no longer due, and the rest stays on
\* its side of the cursor.
LEMMA SetRowWalk ==
    ASSUME WalkInv, NEW r, SetRow(r)
    PROVE  WalkInv'
  <1>1. row' = r /\ walk' = [walk EXCEPT !.due = walk.due \cap Unmoved(r)]
    BY DEF SetRow
  <1>2. walk \in Walks
    BY DEF WalkInv
  <1>3. /\ walk' \in Walks /\ walk'.ph = walk.ph /\ walk'.after = walk.after
        /\ walk'.seen = walk.seen /\ walk'.due = walk.due \cap Unmoved(r)
    <2>1. PICK due \in SUBSET Sessions : due = walk.due \cap Unmoved(r)
      BY DEF Unmoved
    <2> QED
      BY <1>1, <1>2, <2>1 DEF Walks
  <1>4. ASSUME NEW s \in walk'.due
        PROVE  s \in walk.due /\ Listed(row', s) = Listed(row, s) /\ row'[s].at = row[s].at
    BY <1>1, <1>3 DEF Unmoved
  <1>5. ASSUME walk.ph = "open", NEW s \in walk'.due PROVE Listed(row, s)' /\ ShownSoFar(s)'
    <2>1. Listed(row, s) /\ ShownSoFar(s)
      BY <1>4, <1>5 DEF WalkInv
    <2>2. AfterCursor(s)' <=> AfterCursor(s)
      BY <1>3, <1>4 DEF AfterCursor
    <2> QED
      BY <1>3, <1>4, <2>1, <2>2 DEF ShownSoFar
  <1> QED
    BY <1>3, <1>4, <1>5 DEF WalkInv, UnmovedListedOnce

\* A step that touches neither the rows nor the walk.
LEMMA QuietWalk ==
    ASSUME WalkInv, UNCHANGED <<row, walk>>
    PROVE  WalkInv'
  BY DEF WalkInv, UnmovedListedOnce, Listed, ShownSoFar, AfterCursor

\* Every step keeps the invariant of the walk.
LEMMA WalkStep == NotifyInv /\ WalkInv /\ [Next]_vars => WalkInv'
  <1> SUFFICES ASSUME NotifyInv, WalkInv, [Next]_vars PROVE WalkInv'
    OBVIOUS
  <1>1. row \in [Sessions -> Summaries]
    BY DEF NotifyInv, Types
  <1>2. ASSUME NEW c \in Loops,
               \/ Connect(c) \/ FindSession(c) \/ Decide(c) \/ LoadSubscriptions(c)
               \/ DeleteGone(c) \/ Leave(c) \/ \E i \in SubIds : Send(c, i)
               \/ \E s \in Sessions, ks \in Triggers : EventBatch(c, s, ks)
        PROVE  WalkInv'
    <2>1. UNCHANGED <<row, walk>>
      BY <1>2 DEF Connect, FindSession, Decide, LoadSubscriptions, DeleteGone, Leave, Send,
                  EventBatch, db
    <2> QED
      BY <2>1, QuietWalk
  <1>3. ASSUME NEW c \in Loops, ShowOnline(c) \/ ShowOffline(c) PROVE WalkInv'
    BY <1>3, SetRowWalk, QuietWalk DEF ShowOnline, ShowOffline
  <1>4. ASSUME NEW c \in Loops, NEW s \in Sessions, NEW t, NEW ks, SummaryBatch(c, s, t, ks)
        PROVE  WalkInv'
    BY <1>4, SetRowWalk, QuietWalk DEF SummaryBatch
  <1>5. ASSUME NEW s \in Sessions, NEW m, NEW a, PatchPrefs(s, m, a) PROVE WalkInv'
    BY <1>5, SetRowWalk DEF PatchPrefs
  <1>6. ASSUME \/ \E p \in Sessions \X Kinds : WindowEnds(p)
               \/ Restart
               \/ \E k \in Kinds, on \in BOOLEAN : PutSettings({k}, on)
               \/ WriteSettings
               \/ \E i \in SubIds, e \in Endpoints : CreateSubscription(i, e) \/ UpdateSubscription(i, e)
               \/ \E i \in SubIds : DeleteSubscription(i)
               \/ UNCHANGED vars
        PROVE  WalkInv'
    <2>1. UNCHANGED <<row, walk>>
      BY <1>6 DEF WindowEnds, Restart, PutSettings, WriteSettings, CreateSubscription,
                  UpdateSubscription, DeleteSubscription, db, vars
    <2> QED
      BY <2>1, QuietWalk
  <1> QED
    BY <1>1, <1>2, <1>3, <1>4, <1>5, <1>6, StartWalkWalk, PageWalk DEF Next

\* A Browser that follows nextCursor to the end of the list has been shown
\* every session that stayed where it was exactly once, whatever the Bridge and
\* other Browsers moved around it between two pages of list_sessions.
THEOREM UnmovedShownOnce == Spec => []UnmovedListedOnce
  <1>1. Init => WalkInv
    <2> SUFFICES ASSUME Init PROVE WalkInv
      OBVIOUS
    <2>1. walk = [ph |-> "none", after |-> <<>>, seen |-> [s \in Sessions |-> 0], due |-> {}]
      BY DEF Init, NoWalk
    <2> QED
      BY <2>1 DEF WalkInv, Walks, UnmovedListedOnce
  <1>2. WalkInv => UnmovedListedOnce
    BY DEF WalkInv
  <1> QED
    BY <1>1, <1>2, WalkStep, SessionsInvariant, PTL DEF Spec
=============================================================================
