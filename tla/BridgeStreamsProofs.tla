------------------------ MODULE BridgeStreamsProofs -------------------------
(***************************************************************************)
(* TLAPS proofs about the two ways in which a Bridge's data reaches a      *)
(* Browser.  The streams (BridgeStreams): the limit of the queue, the      *)
(* order of the numbers in it, and that an established stream skips no     *)
(* change.  The file data plane (Transfers): a file arrives whole or with  *)
(* an error.                                                               *)
(***************************************************************************)
EXTENDS BridgeStreams, Transfers, SequenceTheorems, TLAPS

-----------------------------------------------------------------------------
(* Queues as the sets of their elements.                                   *)

\* Nothing is in the empty sequence.
LEMMA RangeEmpty == Range(<<>>) = {}
  BY DEF Range

\* An appended element is added to the elements of a queue.
LEMMA RangeAppend ==
    ASSUME NEW S, NEW q \in Seq(S), NEW x \in S
    PROVE  Range(Append(q, x)) = Range(q) \cup {x}
  <1>1. <<x>> \in Seq(S) /\ Range(<<x>>) = {x}
    BY DEF Range
  <1>2. Append(q, x) = q \o <<x>>
    BY AppendIsConcat
  <1>3. Range(q \o <<x>>) = Range(q) \cup Range(<<x>>)
    BY <1>1, RangeConcatenation
  <1> QED
    BY <1>1, <1>2, <1>3

\* A queue is its head and its tail.
LEMMA RangeSplit ==
    ASSUME NEW S, NEW q \in Seq(S), q # <<>>
    PROVE  Range(q) = {Head(q)} \cup Range(Tail(q))
  <1>1. Head(q) \in S /\ Tail(q) \in Seq(S) /\ q = <<Head(q)>> \o Tail(q)
    OBVIOUS
  <1>2. <<Head(q)>> \in Seq(S) /\ Range(<<Head(q)>>) = {Head(q)}
    BY <1>1 DEF Range
  <1>3. \A a, b \in Seq(S) : Range(a \o b) = Range(a) \cup Range(b)
    BY RangeConcatenation
  <1> QED
    BY <1>1, <1>2, <1>3

-----------------------------------------------------------------------------

\* The bounds of the instance.
Budgeted ==
    ver + budget.changes = MaxChanges /\ counter + budget.starts = MaxStarts

\* The open stream has the newest epoch; no handler has a newer one.
NewestEpoch ==
    /\ stream.open => stream.epoch = counter
    /\ \A t \in Tasks : task[t].epoch <= counter

\* A numbered message in the queue is older than the next one of the stream.
Before(m, e, n) ==
    m.type # "subscribed" => m.epoch < e \/ (m.epoch = e /\ m.seq < n)
OlderThanNext ==
    \A i \in DOMAIN out :
        /\ out[i].type # "subscribed" => out[i].epoch <= counter
        /\ stream.open => Before(out[i], counter, stream.next)

\* The change is in the content x, was numbered (and queued, or dropped by the
\* full queue), or is kept or on its way.
Kept(v, x) ==
    \/ v <= x \/ v \in given.events \/ v \in given.lost \/ v \in Range(events)
    \/ v \in Range(stream.buffer)

\* A handler of the newest epoch that has read the content.
Reporting(t) == task[t].at = "sending" /\ task[t].epoch = counter /\ task[t].ok

\* What the handler of the newest epoch is about to send, and what it has
\* sent, misses no change.
NoneLost ==
    stream.open =>
        /\ given.own =>
              /\ ~stream.buffering /\ stream.buffer = <<>>
              /\ \A v \in 1..ver : Kept(v, given.snap)
        /\ \A t \in Tasks : Reporting(t) => \A v \in 1..ver : Kept(v, task[t].ver)

StreamInv ==
    /\ TypeOK
    /\ Budgeted
    /\ NewestEpoch
    /\ OlderThanNext
    /\ NumbersAscend
    /\ NoneLost


-----------------------------------------------------------------------------
(* The operators. *)

\* send_envelope appends, and cuts off what does not fit.
LEMMA SendEffect ==
    ASSUME NEW q \in Seq(Messages), Len(q) <= OutMax, NEW msgs \in Seq(Messages)
    PROVE  /\ Send(q, msgs) \in Seq(Messages) /\ Len(Send(q, msgs)) <= OutMax
           /\ \A i \in DOMAIN Send(q, msgs) :
                 \/ i \in DOMAIN q /\ Send(q, msgs)[i] = q[i]
                 \/ /\ i > Len(q) /\ i - Len(q) \in 1..Len(msgs)
                    /\ Send(q, msgs)[i] = msgs[i - Len(q)]
  <1> DEFINE all == q \o msgs
  <1>0. OutMax \in Nat /\ Len(q) \in Nat /\ Len(msgs) \in Nat
        /\ DOMAIN q = 1..Len(q) /\ DOMAIN msgs = 1..Len(msgs)
    BY BridgeStreamsAssumption
  <1>1. /\ all \in Seq(Messages) /\ Len(all) = Len(q) + Len(msgs)
        /\ DOMAIN all = 1..Len(all)
    BY <1>0
  <1>2. \A i \in 1..Len(all) : all[i] = IF i <= Len(q) THEN q[i] ELSE msgs[i - Len(q)]
    BY <1>0
  <1> HIDE DEF all
  <1>3. \A i \in 1..Len(all) :
           \/ i \in DOMAIN q /\ all[i] = q[i]
           \/ /\ i > Len(q) /\ i - Len(q) \in 1..Len(msgs)
              /\ all[i] = msgs[i - Len(q)]
    BY <1>0, <1>1, <1>2
  <1>4. CASE Len(all) <= OutMax
    <2>1. Send(q, msgs) = all
      BY <1>4 DEF Send, all
    <2> QED
      BY <1>1, <1>3, <1>4, <2>1
  <1>5. CASE ~(Len(all) <= OutMax)
    <2>1. Send(q, msgs) = SubSeq(all, 1, OutMax)
      BY <1>5 DEF Send, all
    <2>2. OutMax \in 0..Len(all)
      BY <1>0, <1>1, <1>5
    <2>3. /\ SubSeq(all, 1, OutMax) \in Seq(Messages)
          /\ Len(SubSeq(all, 1, OutMax)) = OutMax
          /\ DOMAIN SubSeq(all, 1, OutMax) = 1..OutMax
          /\ \A i \in 1..OutMax : SubSeq(all, 1, OutMax)[i] = all[i]
      BY <1>0, <1>1, <2>2
    <2>4. \A i \in 1..OutMax : i \in 1..Len(all)
      BY <1>0, <1>1, <2>2
    <2> QED
      BY <1>0, <1>3, <2>1, <2>3, <2>4
  <1> QED
    BY <1>4, <1>5

\* Payloads take the stream's epoch and its next numbers.
LEMMA NumberedEffect ==
    ASSUME NEW s \in Streams, NEW vers \in Seq(Nat), NEW kinds,
           \A i \in DOMAIN vers : kinds[i] \in {"snapshot", "batch"}
    PROVE  /\ Numbered(s, kinds, vers) \in Seq(Messages)
           /\ Len(Numbered(s, kinds, vers)) = Len(vers)
           /\ \A i \in 1..Len(vers) :
                 /\ Numbered(s, kinds, vers)[i].type # "subscribed"
                 /\ Numbered(s, kinds, vers)[i].epoch = s.epoch
                 /\ Numbered(s, kinds, vers)[i].seq = s.next + i - 1
  <1>0. s.epoch \in Nat /\ s.next \in Nat \ {0} /\ Len(vers) \in Nat /\ DOMAIN vers = 1..Len(vers)
    BY DEF Streams
  <1>1. \A i \in 1..Len(vers) :
           /\ s.next + i - 1 \in Nat /\ vers[i] \in Nat /\ kinds[i] \in {"snapshot", "batch"}
    BY <1>0
  <1>2. \A i \in 1..Len(vers) :
           [type |-> kinds[i], epoch |-> s.epoch, seq |-> s.next + i - 1, ver |-> vers[i]]
             \in Messages
    BY <1>0, <1>1 DEF Messages
  <1>3. Numbered(s, kinds, vers) =
          [i \in 1..Len(vers) |-> [type |-> kinds[i], epoch |-> s.epoch,
                                   seq |-> s.next + i - 1, ver |-> vers[i]]]
    BY <1>0 DEF Numbered
  <1>4. Numbered(s, kinds, vers) \in Seq(Messages) /\ Len(Numbered(s, kinds, vers)) = Len(vers)
    BY <1>0, <1>2, <1>3
  <1>5. ASSUME NEW i \in 1..Len(vers)
        PROVE  /\ Numbered(s, kinds, vers)[i].type # "subscribed"
               /\ Numbered(s, kinds, vers)[i].epoch = s.epoch
               /\ Numbered(s, kinds, vers)[i].seq = s.next + i - 1
    <2>1. Numbered(s, kinds, vers)[i] =
            [type |-> kinds[i], epoch |-> s.epoch, seq |-> s.next + i - 1, ver |-> vers[i]]
      BY <1>3
    <2>2. kinds[i] # "subscribed"
      BY <1>1
    <2> QED
      BY <2>1, <2>2
  <1> QED
    BY <1>4, <1>5

\* History h is g and a snapshot of x, the events evs and the drops dr.
Grown(g, h, x, evs, dr) ==
    /\ h \in History /\ h.snap >= g.snap /\ h.snap >= x
    /\ h.events = g.events \cup evs /\ h.lost = g.lost \cup dr /\ h.own = g.own

\* What the epoch has given out only grows.
LEMMA GiveEffect ==
    ASSUME NEW g \in History, NEW x \in Nat, NEW evs \in SUBSET Nat, NEW dr \in SUBSET Nat
    PROVE  Grown(g, Give(g, x, evs, dr), x, evs, dr)
  <1>1. PICK y \in Nat : y = (IF x > g.snap THEN x ELSE g.snap)
    BY DEF History
  <1>2. y >= g.snap /\ y >= x
    BY <1>1 DEF History
  <1>3. PICK all \in SUBSET Nat : all = g.events \cup evs
    BY DEF History
  <1>4. PICK gone \in SUBSET Nat : gone = g.lost \cup dr
    BY DEF History
  <1>5. Give(g, x, evs, dr) = [g EXCEPT !.snap = y, !.events = all, !.lost = gone]
    BY <1>1, <1>3, <1>4 DEF Give
  <1>6. /\ [g EXCEPT !.snap = y, !.events = all, !.lost = gone] \in History
        /\ [g EXCEPT !.snap = y, !.events = all, !.lost = gone].snap = y
        /\ [g EXCEPT !.snap = y, !.events = all, !.lost = gone].events = all
        /\ [g EXCEPT !.snap = y, !.events = all, !.lost = gone].lost = gone
        /\ [g EXCEPT !.snap = y, !.events = all, !.lost = gone].own = g.own
    BY DEF History
  <1> QED
    BY <1>2, <1>3, <1>4, <1>5, <1>6 DEF Grown

-----------------------------------------------------------------------------
(* The queue. *)

\* Messages leave, or a message without number is added, and the stream is
\* as it was, forgotten, or begun anew.
LEMMA QueueShrinks ==
    ASSUME StreamInv, NEW n \in 0..Len(out), out' = SubSeq(out, n + 1, Len(out)),
           \/ counter' = counter /\ (stream'.open => stream.open /\ stream'.next = stream.next)
           \/ counter' = counter + 1
    PROVE  /\ out' \in Seq(Messages) /\ Len(out') <= OutMax
           /\ OlderThanNext' /\ NumbersAscend'
  <1>0. /\ out \in Seq(Messages) /\ Len(out) \in Nat /\ Len(out) <= OutMax
        /\ counter \in Nat /\ OutMax \in Nat /\ n \in Nat /\ n <= Len(out)
        /\ \A i \in DOMAIN out : out[i].type # "subscribed" => out[i].epoch \in Nat
    BY BridgeStreamsAssumption DEF StreamInv, TypeOK, Messages
  <1>1. /\ out' \in Seq(Messages) /\ Len(out') = Len(out) - n
        /\ DOMAIN out' = 1..(Len(out) - n) /\ DOMAIN out = 1..Len(out)
        /\ \A i \in 1..(Len(out) - n) : out'[i] = out[i + n]
    BY <1>0
  <1>2. ASSUME NEW i \in DOMAIN out'
        PROVE  i \in Nat /\ i + n \in DOMAIN out /\ out'[i] = out[i + n]
    <2>1. i \in 1..(Len(out) - n)
      BY <1>1
    <2>2. i \in Nat /\ i + n \in 1..Len(out)
      BY <1>0, <2>1
    <2> QED
      BY <1>1, <2>1, <2>2
  <1>3. OlderThanNext'
    BY <1>0, <1>2 DEF StreamInv, OlderThanNext, Before
  <1>4. NumbersAscend'
    <2> SUFFICES ASSUME NEW i \in DOMAIN out', NEW j \in DOMAIN out', i < j,
                        out'[i].type # "subscribed", out'[j].type # "subscribed"
                 PROVE  \/ out'[i].epoch < out'[j].epoch
                        \/ out'[i].epoch = out'[j].epoch /\ out'[i].seq < out'[j].seq
      BY DEF NumbersAscend
    <2>1. i + n < j + n
      BY <1>0, <1>2
    <2>2. i + n \in DOMAIN out /\ j + n \in DOMAIN out
      BY <1>2
    <2>3. \/ out[i + n].epoch < out[j + n].epoch
          \/ out[i + n].epoch = out[j + n].epoch /\ out[i + n].seq < out[j + n].seq
      BY <1>2, <2>1, <2>2 DEF StreamInv, NumbersAscend
    <2> QED
      BY <1>2, <2>3
  <1> QED
    BY <1>0, <1>1, <1>3, <1>4

\* The queue is left alone.
LEMMA QueueStays ==
    ASSUME StreamInv, out' = out,
           \/ counter' = counter /\ (stream'.open => stream.open /\ stream'.next = stream.next)
           \/ counter' = counter + 1
    PROVE  OlderThanNext' /\ NumbersAscend'
  <1>1. 0 \in 0..Len(out) /\ out = SubSeq(out, 1, Len(out))
    BY DEF StreamInv, TypeOK
  <1>2. out' = SubSeq(out, 0 + 1, Len(out))
    BY <1>1
  <1> QED
    BY <1>1, <1>2, QueueShrinks

\* A message without number is added.
LEMMA QueueAnnounces ==
    ASSUME StreamInv, NEW e \in Nat, UNCHANGED <<stream, counter>>,
           out' = Send(out, <<[type |-> "subscribed", epoch |-> e]>>)
    PROVE  /\ out' \in Seq(Messages) /\ Len(out') <= OutMax
           /\ OlderThanNext' /\ NumbersAscend'
  <1> DEFINE msgs == <<[type |-> "subscribed", epoch |-> e]>>
  <1>0. out \in Seq(Messages) /\ Len(out) <= OutMax /\ Len(out) \in Nat
        /\ DOMAIN out = 1..Len(out)
    BY DEF StreamInv, TypeOK
  <1>1. [type |-> "subscribed", epoch |-> e] \in Messages
    BY DEF Messages
  <1>2. msgs \in Seq(Messages) /\ Len(msgs) = 1 /\ msgs[1].type = "subscribed"
    BY <1>1
  <1>3. out' = Send(out, msgs)
    OBVIOUS
  <1> HIDE DEF msgs
  <1>4. /\ out' \in Seq(Messages) /\ Len(out') <= OutMax /\ DOMAIN out' = 1..Len(out')
        /\ Len(out') \in Nat
        /\ \A i \in DOMAIN out' : \/ i \in DOMAIN out /\ out'[i] = out[i]
                                  \/ out'[i].type = "subscribed"
    <2>1. /\ Send(out, msgs) \in Seq(Messages) /\ Len(Send(out, msgs)) <= OutMax
          /\ \A i \in DOMAIN Send(out, msgs) :
                \/ i \in DOMAIN out /\ Send(out, msgs)[i] = out[i]
                \/ i - Len(out) \in 1..Len(msgs) /\ Send(out, msgs)[i] = msgs[i - Len(out)]
      BY <1>0, <1>2, SendEffect
    <2>2. \A k \in 1..Len(msgs) : msgs[k].type = "subscribed"
      BY <1>2
    <2>3. out' \in Seq(Messages) /\ Len(out') <= OutMax
      BY <1>3, <2>1
    <2>4. DOMAIN out' = 1..Len(out') /\ Len(out') \in Nat
      BY <2>3
    <2>5. ASSUME NEW i \in DOMAIN out'
          PROVE  (i \in DOMAIN out /\ out'[i] = out[i]) \/ out'[i].type = "subscribed"
      <3>1. \/ i \in DOMAIN out /\ out'[i] = out[i]
            \/ i - Len(out) \in 1..Len(msgs) /\ out'[i] = msgs[i - Len(out)]
        BY <1>3, <2>1
      <3> QED
        BY <2>2, <3>1
    <2> QED
      BY <2>3, <2>4, <2>5
  <1>5. OlderThanNext'
    BY <1>4 DEF StreamInv, OlderThanNext, Before
  <1>6. NumbersAscend'
    BY <1>4 DEF StreamInv, NumbersAscend
  <1> QED
    BY <1>4, <1>5, <1>6

\* Numbered messages are added under the lock.
LEMMA QueueNumbers ==
    ASSUME StreamInv, NEW vers \in Seq(Nat), NEW kinds,
           \A i \in DOMAIN vers : kinds[i] \in {"snapshot", "batch"},
           stream.open, counter' = counter,
           stream'.next = stream.next + Len(vers),
           out' = Send(out, Numbered(stream, kinds, vers))
    PROVE  /\ out' \in Seq(Messages) /\ Len(out') <= OutMax
           /\ OlderThanNext' /\ NumbersAscend'
  <1> DEFINE msgs == Numbered(stream, kinds, vers)
  <1>0. /\ out \in Seq(Messages) /\ Len(out) <= OutMax /\ Len(out) \in Nat
        /\ DOMAIN out = 1..Len(out) /\ Len(vers) \in Nat
        /\ counter \in Nat /\ stream.epoch = counter /\ stream.next \in Nat \ {0}
    BY DEF StreamInv, TypeOK, NewestEpoch, Streams
  <1>1. /\ msgs \in Seq(Messages) /\ Len(msgs) = Len(vers)
        /\ \A k \in 1..Len(vers) : /\ msgs[k].type # "subscribed" /\ msgs[k].epoch = counter
                                   /\ msgs[k].seq = stream.next + k - 1
    BY <1>0, NumberedEffect DEF StreamInv, TypeOK
  <1> HIDE DEF msgs
  <1>2. /\ out' \in Seq(Messages) /\ Len(out') <= OutMax
        /\ \A i \in DOMAIN out' :
              \/ i \in DOMAIN out /\ out'[i] = out[i]
              \/ /\ i > Len(out) /\ i - Len(out) \in 1..Len(vers)
                 /\ out'[i] = msgs[i - Len(out)]
    BY <1>0, <1>1, SendEffect DEF msgs
  <1>3. \A i \in DOMAIN out' : i \in Nat
    BY <1>2
  <1>4. \A i \in DOMAIN out' :
           \/ i \in DOMAIN out /\ out'[i] = out[i]
           \/ /\ i > Len(out) /\ out'[i].type # "subscribed" /\ out'[i].epoch = counter
              /\ out'[i].seq = stream.next + (i - Len(out)) - 1
              /\ i - Len(out) \in 1..Len(vers)
    BY <1>1, <1>2
  <1>5. ASSUME NEW i \in DOMAIN out'
        PROVE  /\ out'[i].type # "subscribed" => out'[i].epoch <= counter
               /\ Before(out'[i], counter, stream.next + Len(vers))
    <2>1. CASE i \in DOMAIN out /\ out'[i] = out[i]
      <3>1. /\ out[i].type # "subscribed" => out[i].epoch <= counter
            /\ Before(out[i], counter, stream.next)
        BY <2>1 DEF StreamInv, OlderThanNext
      <3>2. out[i].type # "subscribed" => out[i].seq \in Nat /\ out[i].epoch \in Nat
        BY <1>0, <2>1 DEF Messages
      <3> QED
        BY <1>0, <2>1, <3>1, <3>2 DEF Before
    <2>2. CASE /\ i > Len(out) /\ out'[i].type # "subscribed" /\ out'[i].epoch = counter
               /\ out'[i].seq = stream.next + (i - Len(out)) - 1
               /\ i - Len(out) \in 1..Len(vers)
      <3>1. out'[i].seq < stream.next + Len(vers)
        BY <1>0, <1>3, <2>2
      <3> QED
        BY <1>0, <2>2, <3>1 DEF Before
    <2> QED
      BY <1>4, <2>1, <2>2
  <1>6. OlderThanNext'
    BY <1>5 DEF OlderThanNext, Before
  <1>7. NumbersAscend'
    <2> SUFFICES ASSUME NEW i \in DOMAIN out', NEW j \in DOMAIN out', i < j,
                        out'[i].type # "subscribed", out'[j].type # "subscribed"
                 PROVE  \/ out'[i].epoch < out'[j].epoch
                        \/ out'[i].epoch = out'[j].epoch /\ out'[i].seq < out'[j].seq
      BY DEF NumbersAscend
    <2>1. CASE j \in DOMAIN out /\ out'[j] = out[j]
      <3>1. i \in DOMAIN out /\ out'[i] = out[i]
        BY <1>0, <1>3, <1>4, <2>1
      <3> QED
        BY <2>1, <3>1 DEF StreamInv, NumbersAscend
    <2>2. CASE /\ j > Len(out) /\ out'[j].epoch = counter
               /\ out'[j].seq = stream.next + (j - Len(out)) - 1
      <3>1. CASE i \in DOMAIN out /\ out'[i] = out[i]
        <4>1. out[i].epoch < counter \/ (out[i].epoch = counter /\ out[i].seq < stream.next)
          BY <3>1 DEF StreamInv, OlderThanNext, Before
        <4>2. out[i].seq \in Nat
          BY <1>0, <3>1 DEF Messages
        <4>3. out'[j].seq >= stream.next /\ out'[j].seq \in Nat
          BY <1>0, <1>3, <2>2
        <4> QED
          BY <1>0, <2>2, <3>1, <4>1, <4>2, <4>3
      <3>2. CASE /\ i > Len(out) /\ out'[i].epoch = counter
                 /\ out'[i].seq = stream.next + (i - Len(out)) - 1
        BY <1>0, <1>3, <2>2, <3>2
      <3> QED
        BY <1>4, <3>1, <3>2
    <2> QED
      BY <1>4, <2>1, <2>2
  <1> QED
    BY <1>2, <1>6, <1>7

-----------------------------------------------------------------------------
(* Changes on their way. *)

\* The change was numbered, or is on its way to the pump or kept by it.
Somewhere(v) ==
    \/ v \in given.events \/ v \in given.lost \/ v \in Range(events)
    \/ v \in Range(stream.buffer)

\* A step that loses no change, and gives a stream its own snapshot only from
\* a handler of its epoch, preserves NoneLost.
LEMMA LosesNothing ==
    ASSUME StreamInv, UNCHANGED <<ver, counter>>, TypeOK',
           stream'.open => stream.open,
           \A v \in Nat : Somewhere(v) => Somewhere(v)',
           given.snap <= given'.snap,
           stream'.open /\ given'.own =>
              /\ ~stream'.buffering /\ stream'.buffer = <<>>
              /\ \/ given.own
                 \/ \E t \in Tasks : Reporting(t) /\ task[t].ver <= given'.snap,
           \A t \in Tasks : Reporting(t)' => task'[t] = task[t] \/ task'[t].ver = ver
    PROVE  NoneLost'
  <1> SUFFICES ASSUME stream'.open
               PROVE  /\ given'.own =>
                            /\ ~stream'.buffering /\ stream'.buffer = <<>>
                            /\ \A v \in 1..ver : Kept(v, given.snap)'
                      /\ \A t \in Tasks : Reporting(t)' =>
                            \A v \in 1..ver : Kept(v, task[t].ver)'
    BY DEF NoneLost
  <1>0. /\ ver \in Nat /\ given.snap \in Nat /\ given'.snap \in Nat
        /\ \A t \in Tasks : task[t].ver \in Nat
    BY DEF StreamInv, TypeOK, History, Handlers
  <1>1. \A x : \A v \in Nat : Kept(v, x) <=> v <= x \/ Somewhere(v)
    BY DEF Kept, Somewhere
  <1>2. \A v \in Nat : v <= given'.snap \/ Somewhere(v)' => Kept(v, given.snap)'
    BY DEF Kept, Somewhere
  <1>3. \A t \in Tasks : \A v \in Nat : v <= task'[t].ver \/ Somewhere(v)' => Kept(v, task[t].ver)'
    BY DEF Kept, Somewhere
  <1>4. ASSUME given'.own, NEW v \in 1..ver PROVE Kept(v, given.snap)'
    <2>0. v \in Nat
      BY <1>0
    <2>1. CASE given.own
      <3>1. Kept(v, given.snap)
        BY <2>1 DEF StreamInv, NoneLost
      <3> QED
        BY <1>0, <1>1, <1>2, <2>0, <3>1
    <2>2. CASE \E t \in Tasks : Reporting(t) /\ task[t].ver <= given'.snap
      <3>1. PICK t \in Tasks : Reporting(t) /\ task[t].ver <= given'.snap
        BY <2>2
      <3>2. Kept(v, task[t].ver)
        BY <3>1 DEF StreamInv, NoneLost
      <3> QED
        BY <1>0, <1>1, <1>2, <2>0, <3>1, <3>2
    <2> QED
      BY <1>4, <2>1, <2>2
  <1>5. ASSUME NEW t \in Tasks, Reporting(t)', NEW v \in 1..ver
        PROVE  Kept(v, task[t].ver)'
    <2>0. v \in Nat /\ v <= ver
      BY <1>0
    <2>1. CASE task'[t] = task[t]
      <3>1. Kept(v, task[t].ver)
        BY <1>5, <2>1 DEF StreamInv, NoneLost, Reporting
      <3> QED
        BY <1>1, <1>3, <2>0, <2>1, <3>1
    <2>2. CASE task'[t].ver = ver
      BY <1>3, <2>0, <2>2
    <2> QED
      BY <1>5, <2>1, <2>2
  <1> QED
    BY <1>4, <1>5

-----------------------------------------------------------------------------
(* One lemma per action. *)

\* The bounds as numbers.
LEMMA Bounds == {MaxChanges, MaxStarts, MaxObserves, MaxLinks, MaxEnds, OutMax} \subseteq Nat
  BY BridgeStreamsAssumption

\* A bound that is used up by one.
LEMMA Spending ==
    ASSUME NEW b \in Budgets, NEW n \in Nat
    PROVE  /\ [b EXCEPT !.changes = n] \in Budgets /\ [b EXCEPT !.changes = n].changes = n
           /\ [b EXCEPT !.changes = n].starts = b.starts
           /\ [b EXCEPT !.starts = n] \in Budgets /\ [b EXCEPT !.starts = n].starts = n
           /\ [b EXCEPT !.starts = n].changes = b.changes
           /\ [b EXCEPT !.observes = n] \in Budgets /\ [b EXCEPT !.links = n] \in Budgets
           /\ [b EXCEPT !.ends = n] \in Budgets
           /\ [b EXCEPT !.observes = n].changes = b.changes
           /\ [b EXCEPT !.observes = n].starts = b.starts
           /\ [b EXCEPT !.links = n].changes = b.changes
           /\ [b EXCEPT !.links = n].starts = b.starts
           /\ [b EXCEPT !.ends = n].changes = b.changes
           /\ [b EXCEPT !.ends = n].starts = b.starts
  BY DEF Budgets

\* Nothing is open or queued at the start.
LEMMA InitInv == Init => StreamInv
  <1> SUFFICES ASSUME Init PROVE StreamInv
    OBVIOUS
  <1>0. /\ NoStream \in Streams /\ Idle \in Handlers /\ Nothing \in History
        /\ NoStream.epoch = 0 /\ ~NoStream.open /\ Idle.epoch = 0
    BY DEF NoStream, Idle, Nothing, Streams, Handlers, History
  <1>1. task \in [Tasks -> Handlers] /\ \A t \in Tasks : task[t] = Idle
    BY <1>0 DEF Init
  <1>2. budget \in Budgets /\ budget.changes = MaxChanges /\ budget.starts = MaxStarts
    BY Bounds DEF Init, Budgets
  <1>3. out \in Seq(Messages) /\ Len(out) = 0 /\ events \in Seq(Nat) /\ DOMAIN out = {}
    BY DEF Init
  <1>4. cache \in [has : BOOLEAN, revision : Nat] /\ link \in [up : BOOLEAN, resync : BOOLEAN]
    BY DEF Init
  <1>5. TypeOK
    BY <1>0, <1>1, <1>2, <1>3, <1>4, Bounds, BridgeStreamsAssumption DEF Init, TypeOK
  <1>6. Budgeted /\ NewestEpoch
    BY <1>0, <1>1, <1>2, Bounds DEF Init, Budgeted, NewestEpoch
  <1>7. OlderThanNext /\ NumbersAscend
    BY <1>3 DEF OlderThanNext, NumbersAscend
  <1>8. NoneLost
    BY <1>0 DEF Init, NoneLost
  <1> QED
    BY <1>5, <1>6, <1>7, <1>8 DEF StreamInv

\* Desktop changes.
LEMMA ChangeInv == StreamInv /\ Change => StreamInv'
  <1> SUFFICES ASSUME StreamInv, Change PROVE StreamInv'
    OBVIOUS
  <1>1. /\ budget.changes > 0 /\ budget' = [budget EXCEPT !.changes = budget.changes - 1]
        /\ ver' = ver + 1 /\ events' = Append(events, ver + 1)
        /\ UNCHANGED <<target, stream, counter, task, observer, cache, out, link, asked, given>>
    BY DEF Change, wireVars
  <1>2. /\ ver \in Nat /\ budget \in Budgets /\ budget.changes \in Nat
        /\ ver + budget.changes = MaxChanges /\ MaxChanges \in Nat
        /\ events \in Seq(Nat) /\ counter + budget.starts = MaxStarts
    BY Bounds DEF StreamInv, TypeOK, Budgets, Budgeted
  <1>3. PICK n \in Nat : n = budget.changes - 1
    BY <1>1, <1>2
  <1>4. budget' \in Budgets /\ budget'.changes = n /\ budget'.starts = budget.starts
    <2>1. budget' = [budget EXCEPT !.changes = n]
      BY <1>1, <1>3
    <2> QED
      BY <1>2, <2>1, Spending
  <1>5. ver + 1 \in 0..MaxChanges /\ ver + 1 + n = MaxChanges
    BY <1>2, <1>3
  <1>6. /\ events' \in Seq(Nat) /\ Range(events') = Range(events) \cup {ver + 1}
    BY <1>1, <1>2, RangeAppend
  <1>7. TypeOK'
    BY <1>1, <1>4, <1>5, <1>6 DEF StreamInv, TypeOK
  <1>8. Budgeted' /\ NewestEpoch'
    BY <1>1, <1>2, <1>4, <1>5 DEF StreamInv, Budgeted, NewestEpoch
  <1>9. OlderThanNext' /\ NumbersAscend'
    BY <1>1, QueueStays
  <1>10. ASSUME NEW x, \A v \in 1..ver : Kept(v, x), NEW v \in 1..ver'
         PROVE  \/ v <= x \/ v \in given'.events \/ v \in given'.lost
                \/ v \in Range(events') \/ v \in Range(stream'.buffer)
    <2>1. v \in 1..ver \/ v = ver + 1
      BY <1>1, <1>2
    <2> QED
      BY <1>1, <1>6, <1>10, <2>1 DEF Kept
  <1>11. NoneLost'
    <2>1. ASSUME stream'.open, given'.own
          PROVE  /\ ~stream'.buffering /\ stream'.buffer = <<>>
                 /\ \A v \in 1..ver' : Kept(v, given.snap)'
      <3>1. /\ ~stream.buffering /\ stream.buffer = <<>>
            /\ \A v \in 1..ver : Kept(v, given.snap)
        BY <1>1, <2>1 DEF StreamInv, NoneLost
      <3> QED
        BY <1>1, <1>10, <3>1 DEF Kept
    <2>2. ASSUME stream'.open, NEW t \in Tasks, Reporting(t)'
          PROVE  \A v \in 1..ver' : Kept(v, task[t].ver)'
      <3>1. \A v \in 1..ver : Kept(v, task[t].ver)
        BY <1>1, <2>2 DEF StreamInv, NoneLost, Reporting
      <3> QED
        BY <1>1, <1>10, <3>1 DEF Kept
    <2> QED
      BY <2>1, <2>2 DEF NoneLost
  <1> QED
    BY <1>7, <1>8, <1>9, <1>11 DEF StreamInv

\* dispatch_domain_event: without a stream, kept, or sent.
LEMMA DispatchInv == StreamInv /\ Dispatch => StreamInv'
  <1> SUFFICES ASSUME StreamInv, Dispatch PROVE StreamInv'
    OBVIOUS
  <1>1. /\ events # <<>> /\ events' = Tail(events)
        /\ UNCHANGED <<target, ver, counter, task, observer, cache, link, asked, budget>>
    BY DEF Dispatch
  <1>2. /\ events \in Seq(Nat) /\ stream \in Streams /\ given \in History
        /\ stream.buffer \in Seq(Nat) /\ stream.next \in Nat \ {0} /\ given.events \in SUBSET Nat
        /\ stream.epoch \in Nat
    BY DEF StreamInv, TypeOK, Streams, History
  <1>3. PICK x \in Nat : x = Head(events)
    BY <1>1, <1>2
  <1>4. events' \in Seq(Nat) /\ Range(events) = {x} \cup Range(events')
    BY <1>1, <1>2, <1>3, RangeSplit
  <1>5. Budgeted'
    BY <1>1 DEF StreamInv, Budgeted
  <1>6. \A t \in Tasks : task'[t] = task[t]
    BY <1>1
  <1>7. CASE ~stream.open /\ UNCHANGED <<stream, out, given>>
    <2>1. TypeOK'
      BY <1>1, <1>4, <1>7 DEF StreamInv, TypeOK
    <2>2. NewestEpoch' /\ NoneLost'
      BY <1>1, <1>7 DEF StreamInv, NewestEpoch, NoneLost
    <2>3. OlderThanNext' /\ NumbersAscend'
      BY <1>1, <1>7, QueueStays
    <2> QED
      BY <1>5, <2>1, <2>2, <2>3 DEF StreamInv
  <1>8. CASE /\ stream.open /\ stream.buffering /\ UNCHANGED <<out, given>>
             /\ stream' = [stream EXCEPT !.buffer = Append(stream.buffer, x)]
    <2>0. PICK old \in Seq(Nat) : old = stream.buffer
      BY <1>2
    <2>00. Append(old, x) \in Seq(Nat)
      OBVIOUS
    <2>1. PICK b \in Seq(Nat) : b = Append(stream.buffer, x)
      BY <2>0, <2>00
    <2>2. Range(b) = Range(stream.buffer) \cup {x}
      BY <1>2, <2>1, RangeAppend
    <2>3. /\ stream' \in Streams /\ stream'.buffer = b /\ stream'.open = stream.open
          /\ stream'.epoch = stream.epoch /\ stream'.next = stream.next
      BY <1>2, <1>8, <2>1 DEF Streams
    <2>4. TypeOK'
      BY <1>1, <1>4, <1>8, <2>3 DEF StreamInv, TypeOK
    <2>5. NewestEpoch'
      BY <1>1, <2>3 DEF StreamInv, NewestEpoch
    <2>6. OlderThanNext' /\ NumbersAscend'
      BY <1>1, <1>8, <2>3, QueueStays
    <2>7. \A v \in Nat : Somewhere(v) => Somewhere(v)'
      BY <1>4, <1>8, <2>2, <2>3 DEF Somewhere
    <2>8. ~given.own
      BY <1>8 DEF StreamInv, NoneLost
    <2>9. given.snap <= given'.snap
      BY <1>2, <1>8 DEF History
    <2>10. NoneLost'
      BY <1>1, <1>6, <1>8, <2>3, <2>4, <2>7, <2>8, <2>9, LosesNothing
    <2> QED
      BY <1>5, <2>4, <2>5, <2>6, <2>10 DEF StreamInv
  <1>9. CASE /\ stream.open /\ ~stream.buffering
             /\ stream' = [stream EXCEPT !.next = stream.next + 1]
             /\ out' = Send(out, Numbered(stream, <<"batch">>, <<x>>))
             /\ given' = GiveEvent(given, x)
    <2>0. PICK n \in Nat \ {0} : n = stream.next + 1
      BY <1>2
    <2>1. /\ stream' \in Streams /\ stream'.buffer = stream.buffer /\ stream'.open = stream.open
          /\ stream'.epoch = stream.epoch /\ stream'.next = stream.next + 1
          /\ stream'.buffering = stream.buffering
      <3>1. stream' = [stream EXCEPT !.next = n]
        BY <1>9, <2>0
      <3> QED
        BY <1>2, <2>0, <3>1 DEF Streams
    <2>2. /\ <<x>> \in Seq(Nat) /\ Len(<<x>>) = 1
          /\ \A i \in DOMAIN <<x>> : <<"batch">>[i] \in {"snapshot", "batch"}
      BY <1>3
    <2>3. /\ out' \in Seq(Messages) /\ Len(out') <= OutMax /\ OlderThanNext' /\ NumbersAscend'
      BY <1>1, <1>9, <2>1, <2>2, QueueNumbers
    <2>4. /\ given' \in History /\ given'.snap >= given.snap
          /\ given.events \cup given.lost \cup {x} = given'.events \cup given'.lost
          /\ given'.own = given.own
      <3>1. \E e, d \in SUBSET Nat : given' = Give(given, 0, e, d) /\ e \cup d = {x}
        BY <1>9 DEF GiveEvent
      <3>2. PICK e \in SUBSET Nat, d \in SUBSET Nat :
               given' = Give(given, 0, e, d) /\ e \cup d = {x}
        BY <3>1
      <3>3. /\ given' \in History /\ given'.snap >= given.snap /\ given'.own = given.own
            /\ given'.events = given.events \cup e /\ given'.lost = given.lost \cup d
        <4>1. Grown(given, given', 0, e, d)
          BY <1>2, <3>2, GiveEffect
        <4> QED
          BY <4>1 DEF Grown
      <3> QED
        BY <3>2, <3>3
    <2>5. TypeOK'
      BY <1>1, <1>4, <2>1, <2>3, <2>4 DEF StreamInv, TypeOK
    <2>6. NewestEpoch'
      BY <1>1, <2>1 DEF StreamInv, NewestEpoch
    <2>7. \A v \in Nat : Somewhere(v) => Somewhere(v)'
      BY <1>4, <2>1, <2>4 DEF Somewhere
    <2>8. given.snap <= given'.snap
      BY <1>2, <2>4 DEF History
    <2>9. given.own => stream.buffer = <<>>
      BY <1>9 DEF StreamInv, NoneLost
    <2>10. NoneLost'
      BY <1>1, <1>6, <1>9, <2>1, <2>4, <2>5, <2>7, <2>8, <2>9, LosesNothing
    <2> QED
      BY <1>5, <2>3, <2>5, <2>6, <2>10 DEF StreamInv
  <1> QED
    BY <1>3, <1>7, <1>8, <1>9 DEF Dispatch

\* One handler moves.
LEMMA HandlerMoves ==
    ASSUME task \in [Tasks -> Handlers], NEW t \in Tasks, NEW h \in Handlers,
           task' = [task EXCEPT ![t] = h]
    PROVE  /\ task' \in [Tasks -> Handlers] /\ task'[t] = h
           /\ \A u \in Tasks : u = t \/ task'[u] = task[u]
  OBVIOUS

\* A new epoch: older handlers lose the stream.
LEMMA BeginInv ==
    ASSUME StreamInv, NEW t \in Tasks, Begin(t),
           UNCHANGED <<target, ver, events, observer, cache, out>>,
           link' \in [up : BOOLEAN, resync : BOOLEAN], asked' \in 0..1
    PROVE  StreamInv'
  <1> DEFINE h == [Idle EXCEPT !.at = "begun", !.epoch = counter + 1]
  <1>1. /\ budget.starts > 0 /\ budget' = [budget EXCEPT !.starts = budget.starts - 1]
        /\ counter' = counter + 1 /\ given' = Nothing
        /\ stream' = [open |-> TRUE, epoch |-> counter + 1, next |-> 1,
                      buffering |-> TRUE, buffer |-> <<>>]
        /\ task' = [task EXCEPT ![t] = h]
    BY DEF Begin
  <1>2. /\ counter \in Nat /\ budget \in Budgets /\ budget.starts \in Nat
        /\ counter + budget.starts = MaxStarts /\ MaxStarts \in Nat
        /\ ver + budget.changes = MaxChanges /\ task \in [Tasks -> Handlers]
    BY Bounds DEF StreamInv, TypeOK, Budgets, Budgeted
  <1>20. \A u \in Tasks : task[u].epoch \in Nat /\ task[u].epoch <= counter
    BY <1>2 DEF StreamInv, NewestEpoch, Handlers
  <1>3. PICK n \in Nat : n = budget.starts - 1
    BY <1>1, <1>2
  <1>4. budget' \in Budgets /\ budget'.starts = n /\ budget'.changes = budget.changes
    <2>1. budget' = [budget EXCEPT !.starts = n]
      BY <1>1, <1>3
    <2> QED
      BY <1>2, <2>1, Spending
  <1>5. counter + 1 \in 0..MaxStarts /\ counter + 1 + n = MaxStarts /\ counter + 1 \in Nat
    BY <1>2, <1>3
  <1>6. /\ stream' \in Streams /\ stream'.epoch = counter + 1 /\ Nothing \in History
        /\ Nothing.own = FALSE
    <2>1. <<>> \in Seq(Nat)
      OBVIOUS
    <2> QED
      BY <1>1, <1>5, <2>1 DEF Streams, Nothing, History
  <1>7. h \in Handlers /\ h.at = "begun" /\ h.epoch = counter + 1
    BY <1>5 DEF Handlers, Idle
  <1> HIDE DEF h
  <1>8. /\ task' \in [Tasks -> Handlers] /\ task'[t] = h
        /\ \A u \in Tasks : u = t \/ task'[u] = task[u]
    BY <1>1, <1>2, <1>7, HandlerMoves
  <1>9. TypeOK'
    BY <1>1, <1>4, <1>5, <1>6, <1>8 DEF StreamInv, TypeOK
  <1>10. Budgeted'
    BY <1>1, <1>2, <1>4, <1>5 DEF Budgeted
  <1>11. NewestEpoch'
    BY <1>1, <1>2, <1>20, <1>6, <1>7, <1>8 DEF NewestEpoch
  <1>12. OlderThanNext' /\ NumbersAscend'
    BY <1>1, QueueStays
  <1>13. NoneLost'
    <2>1. ~given'.own
      BY <1>1, <1>6
    <2>2. \A u \in Tasks : task'[u].at = "sending" => task'[u].epoch # counter'
      BY <1>1, <1>2, <1>20, <1>7, <1>8
    <2> QED
      BY <2>1, <2>2 DEF NoneLost, Reporting
  <1> QED
    BY <1>9, <1>10, <1>11, <1>12, <1>13 DEF StreamInv

\* handle_subscribe, resync_inner and handle_stream_resync.
LEMMA EstablishInv ==
    ASSUME StreamInv, NEW t \in Tasks,
           HandleSubscribe(t) \/ ResyncInner(t) \/ HandleStreamResync(t)
    PROVE  StreamInv'
  <1>0. link \in [up : BOOLEAN, resync : BOOLEAN] /\ asked \in 0..1
    BY DEF StreamInv, TypeOK
  <1>1. CASE HandleSubscribe(t)
    <2>1. asked' \in 0..1 /\ link' \in [up : BOOLEAN, resync : BOOLEAN]
      BY <1>0, <1>1 DEF HandleSubscribe
    <2> QED
      BY <1>1, <2>1, BeginInv DEF HandleSubscribe
  <1>2. CASE HandleStreamResync(t)
    BY <1>0, <1>2, BeginInv DEF HandleStreamResync, wireVars
  <1>3. CASE ResyncInner(t)
    <2>1. asked' \in 0..1 /\ link' \in [up : BOOLEAN, resync : BOOLEAN]
      BY <1>0, <1>3 DEF ResyncInner
    <2>2. CASE Begin(t)
      BY <1>3, <2>1, <2>2, BeginInv DEF ResyncInner
    <2>3. CASE UNCHANGED <<stream, counter, task, budget, given>>
      <3>1. UNCHANGED <<target, ver, events, observer, cache, out, asked>>
        BY <1>3 DEF ResyncInner
      <3>2. TypeOK'
        BY <2>1, <2>3, <3>1 DEF StreamInv, TypeOK
      <3>3. Budgeted' /\ NewestEpoch' /\ OlderThanNext' /\ NumbersAscend'
        BY <2>3, <3>1
           DEF StreamInv, Budgeted, NewestEpoch, OlderThanNext, NumbersAscend
      <3>4. NoneLost'
        BY <2>3, <3>1 DEF StreamInv, NoneLost, Kept, Reporting
      <3> QED
        BY <3>2, <3>3, <3>4 DEF StreamInv
    <2> QED
      BY <1>3, <2>2, <2>3 DEF ResyncInner
  <1> QED
    BY <1>1, <1>2, <1>3

\* handle_unsubscribe: no stream, nothing to lose.
LEMMA HandleUnsubscribeInv == StreamInv /\ HandleUnsubscribe => StreamInv'
  <1> SUFFICES ASSUME StreamInv, HandleUnsubscribe PROVE StreamInv'
    OBVIOUS
  <1>1. /\ budget.ends > 0 /\ budget' = [budget EXCEPT !.ends = budget.ends - 1]
        /\ stream' = NoStream /\ given' = Nothing
        /\ UNCHANGED <<target, ver, events, counter, task, observer, cache, out, link, asked>>
    BY DEF HandleUnsubscribe, wireVars
  <1>2. budget \in Budgets /\ budget.ends \in Nat /\ counter \in Nat
    BY DEF StreamInv, TypeOK, Budgets
  <1>3. PICK n \in Nat : n = budget.ends - 1
    BY <1>1, <1>2
  <1>4. /\ budget' \in Budgets /\ budget'.starts = budget.starts
        /\ budget'.changes = budget.changes
    <2>1. budget' = [budget EXCEPT !.ends = n]
      BY <1>1, <1>3
    <2> QED
      BY <1>2, <2>1, Spending
  <1>5. /\ NoStream \in Streams /\ Nothing \in History /\ NoStream.epoch = 0 /\ ~NoStream.open
        /\ 0 <= counter
    BY <1>2 DEF NoStream, Nothing, Streams, History
  <1>6. TypeOK'
    BY <1>1, <1>4, <1>5 DEF StreamInv, TypeOK
  <1>7. Budgeted' /\ NewestEpoch' /\ NoneLost'
    BY <1>1, <1>4, <1>5 DEF StreamInv, Budgeted, NewestEpoch, NoneLost
  <1>8. OlderThanNext' /\ NumbersAscend'
    BY <1>1, <1>5, QueueStays
  <1> QED
    BY <1>6, <1>7, <1>8 DEF StreamInv

\* send_subscribed.
LEMMA AnnounceInv ==
    ASSUME StreamInv, NEW t \in Tasks, Announce(t)
    PROVE  StreamInv'
  <1> DEFINE h == [task[t] EXCEPT !.at = "reading"]
  <1>1. /\ task' = [task EXCEPT ![t] = h]
        /\ out' = Send(out, <<[type |-> "subscribed", epoch |-> task[t].epoch]>>)
        /\ UNCHANGED <<target, ver, events, stream, counter, observer, cache, link, asked,
                       budget, given>>
    BY DEF Announce
  <1>2. task \in [Tasks -> Handlers] /\ task[t] \in Handlers /\ task[t].epoch \in Nat
    BY DEF StreamInv, TypeOK, Handlers
  <1>3. h \in Handlers /\ h.at = "reading" /\ h.epoch = task[t].epoch
    BY <1>2 DEF Handlers
  <1> HIDE DEF h
  <1>4. /\ task' \in [Tasks -> Handlers] /\ task'[t] = h
        /\ \A u \in Tasks : u = t \/ task'[u] = task[u]
    BY <1>1, <1>2, <1>3, HandlerMoves
  <1>5. /\ out' \in Seq(Messages) /\ Len(out') <= OutMax /\ OlderThanNext' /\ NumbersAscend'
    BY <1>1, <1>2, QueueAnnounces
  <1>6. TypeOK'
    BY <1>1, <1>4, <1>5 DEF StreamInv, TypeOK
  <1>7. Budgeted' /\ NewestEpoch'
    BY <1>1, <1>3, <1>4 DEF StreamInv, Budgeted, NewestEpoch
  <1>8. /\ \A u \in Tasks : Reporting(u)' => task'[u] = task[u]
        /\ \A v \in Nat : Somewhere(v) => Somewhere(v)'
        /\ given.own /\ stream.open => ~stream.buffering /\ stream.buffer = <<>>
        /\ given.snap <= given'.snap
    BY <1>1, <1>3, <1>4 DEF Somewhere, StreamInv, NoneLost, TypeOK, History, Reporting
  <1>9. NoneLost'
    BY <1>1, <1>6, <1>8, LosesNothing
  <1> QED
    BY <1>5, <1>6, <1>7, <1>9 DEF StreamInv

\* The content is read as of now, or the list cannot be read.
LEMMA ReadInv ==
    ASSUME StreamInv, NEW t \in Tasks, Read(t)
    PROVE  StreamInv'
  <1>1. UNCHANGED <<target, ver, events, stream, counter, observer, cache, out, link, asked,
                    budget, given>>
    BY DEF Read, wireVars
  <1>2. task \in [Tasks -> Handlers] /\ task[t] \in Handlers /\ ver \in Nat
    BY DEF StreamInv, TypeOK
  <1>3. PICK h \in Handlers :
           /\ task' = [task EXCEPT ![t] = h] /\ h.epoch = task[t].epoch
           /\ h.ok => h.ver = ver
    <2>1. CASE task' = [task EXCEPT ![t].at = "sending", ![t].ver = ver]
      <3>1. task' = [task EXCEPT ![t] = [task[t] EXCEPT !.at = "sending", !.ver = ver]]
        BY <1>2, <2>1
      <3>2. /\ [task[t] EXCEPT !.at = "sending", !.ver = ver] \in Handlers
            /\ [task[t] EXCEPT !.at = "sending", !.ver = ver].epoch = task[t].epoch
            /\ [task[t] EXCEPT !.at = "sending", !.ver = ver].ver = ver
        BY <1>2 DEF Handlers
      <3> QED
        BY <3>1, <3>2
    <2>2. CASE task' = [task EXCEPT ![t].at = "sending", ![t].ok = FALSE]
      <3>1. task' = [task EXCEPT ![t] = [task[t] EXCEPT !.at = "sending", !.ok = FALSE]]
        BY <1>2, <2>2
      <3>2. /\ [task[t] EXCEPT !.at = "sending", !.ok = FALSE] \in Handlers
            /\ [task[t] EXCEPT !.at = "sending", !.ok = FALSE].epoch = task[t].epoch
            /\ [task[t] EXCEPT !.at = "sending", !.ok = FALSE].ok = FALSE
        BY <1>2 DEF Handlers
      <3> QED
        BY <3>1, <3>2
    <2> QED
      BY <2>1, <2>2 DEF Read
  <1>4. /\ task' \in [Tasks -> Handlers] /\ task'[t] = h
        /\ \A u \in Tasks : u = t \/ task'[u] = task[u]
    BY <1>2, <1>3, HandlerMoves
  <1>5. OlderThanNext' /\ NumbersAscend'
    BY <1>1, QueueStays
  <1>6. TypeOK'
    BY <1>1, <1>4 DEF StreamInv, TypeOK
  <1>7. Budgeted' /\ NewestEpoch'
    BY <1>1, <1>3, <1>4 DEF StreamInv, Budgeted, NewestEpoch
  <1>8. /\ \A u \in Tasks : Reporting(u)' => task'[u] = task[u] \/ task'[u].ver = ver
        /\ \A v \in Nat : Somewhere(v) => Somewhere(v)'
        /\ given.own /\ stream.open => ~stream.buffering /\ stream.buffer = <<>>
        /\ given.snap <= given'.snap
    BY <1>1, <1>3, <1>4 DEF Somewhere, StreamInv, NoneLost, TypeOK, History, Reporting
  <1>9. NoneLost'
    BY <1>1, <1>6, <1>8, LosesNothing
  <1> QED
    BY <1>5, <1>6, <1>7, <1>9 DEF StreamInv

\* The cache keeps its type.
LEMMA CacheType ==
    ASSUME cache \in [has : BOOLEAN, revision : Nat], NEW v \in Nat, NoteSnapshot(v)
    PROVE  cache' \in [has : BOOLEAN, revision : Nat]
  BY DEF NoteSnapshot

\* A handler that stops changes nothing else of the handlers.
LEMMA HandlerStops ==
    ASSUME StreamInv, NEW t \in Tasks, task' = [task EXCEPT ![t] = Idle], counter' = counter
    PROVE  /\ task' \in [Tasks -> Handlers]
           /\ \A u \in Tasks : task'[u].epoch <= counter'
           /\ \A u \in Tasks : Reporting(u)' => task'[u] = task[u]
  <1>1. Idle \in Handlers /\ Idle.epoch = 0 /\ Idle.at = "idle"
    BY DEF Idle, Handlers
  <1>2. /\ task' \in [Tasks -> Handlers] /\ task'[t] = Idle
        /\ \A u \in Tasks : u = t \/ task'[u] = task[u]
    BY <1>1, HandlerMoves DEF StreamInv, TypeOK
  <1>3. counter \in Nat /\ \A u \in Tasks : task[u].epoch <= counter
    BY DEF StreamInv, TypeOK, NewestEpoch
  <1> QED
    BY <1>1, <1>2, <1>3 DEF Reporting

\* The snapshot and what was kept are numbered; the handler of the newest
\* epoch gives the stream its own snapshot.
LEMMA FinishInv ==
    ASSUME StreamInv, NEW t \in Tasks, Finish(t)
    PROVE  StreamInv'
  <1>1. /\ task[t].at = "sending" /\ task' = [task EXCEPT ![t] = Idle]
        /\ NoteSnapshot(task[t].ver)
        /\ UNCHANGED <<target, ver, events, counter, observer, link, asked, budget>>
    BY DEF Finish
  <1>2. /\ stream \in Streams /\ given \in History /\ stream.buffer \in Seq(Nat)
        /\ stream.next \in Nat \ {0} /\ stream.epoch \in Nat /\ task[t] \in Handlers
        /\ stream.epoch <= counter
    BY DEF StreamInv, TypeOK, Streams
  <1>3. PICK x \in Nat : x = task[t].ver
    BY <1>2 DEF Handlers
  <1>4. cache' \in [has : BOOLEAN, revision : Nat]
    BY <1>1, <1>3, CacheType DEF StreamInv, TypeOK
  <1>5. /\ task' \in [Tasks -> Handlers]
        /\ \A u \in Tasks : task'[u].epoch <= counter'
        /\ \A u \in Tasks : Reporting(u)' => task'[u] = task[u]
    BY <1>1, HandlerStops
  <1>6. Budgeted'
    BY <1>1 DEF StreamInv, Budgeted
  <1>7. CASE ~stream.open /\ UNCHANGED <<stream, out, given>>
    <2>1. TypeOK'
      BY <1>1, <1>4, <1>5, <1>7 DEF StreamInv, TypeOK
    <2>2. NewestEpoch' /\ NoneLost'
      BY <1>5, <1>7 DEF NewestEpoch, NoneLost
    <2>3. OlderThanNext' /\ NumbersAscend'
      BY <1>1, <1>7, QueueStays
    <2> QED
      BY <1>6, <2>1, <2>2, <2>3 DEF StreamInv
  <1>8. CASE stream.open
    <2>1. PICK buf \in Seq(Nat) : buf = stream.buffer
      BY <1>2
    <2> DEFINE vers == <<x>> \o buf
               kinds == [i \in DOMAIN vers |-> IF i = 1 THEN "snapshot" ELSE "batch"]
               in == {buf[i] : i \in Flushed}
               off == {buf[i] : i \in DOMAIN buf \ Flushed}
               y == IF Fits(1) THEN x ELSE 0
               g == Give(given, y, in, off)
    <2>2. /\ stream' = [stream EXCEPT !.buffering = FALSE, !.buffer = <<>>,
                                      !.next = stream.next + Len(vers)]
          /\ out' = Send(out, Numbered(stream, kinds, vers))
          /\ given' = [g EXCEPT !.own = g.own \/ Own(t)]
      <3>1. /\ vers = <<task[t].ver>> \o stream.buffer
            /\ kinds = [i \in DOMAIN (<<task[t].ver>> \o stream.buffer) |->
                          IF i = 1 THEN "snapshot" ELSE "batch"]
            /\ in = {stream.buffer[i] : i \in Flushed}
            /\ off = {stream.buffer[i] : i \in DOMAIN stream.buffer \ Flushed}
            /\ y = IF Fits(1) THEN task[t].ver ELSE 0
        BY <1>3, <2>1, Zenon
      <3> HIDE DEF vers, kinds, in, off, y
      <3> QED
        BY <1>8, <3>1, Zenon DEF Finish
    <2>3. vers \in Seq(Nat) /\ Len(vers) \in Nat
      OBVIOUS
    <2>4. \A i \in DOMAIN vers : kinds[i] \in {"snapshot", "batch"}
      OBVIOUS
    <2>5. in \in SUBSET Nat /\ off \in SUBSET Nat /\ y \in Nat /\ in \cup off = Range(buf)
      BY <2>1 DEF Flushed, Range
    <2>50. Fits(1) => y = x
      OBVIOUS
    <2> HIDE DEF in, off, y
    <2>6. /\ g \in History /\ g.snap >= given.snap /\ g.snap >= y
          /\ g.events = given.events \cup in /\ g.lost = given.lost \cup off
          /\ g.own = given.own
      <3>1. Grown(given, g, y, in, off)
        BY <1>2, <2>5, GiveEffect
      <3> HIDE DEF g
      <3> QED
        BY <3>1 DEF Grown
    <2> HIDE DEF vers, kinds, g
    <2>7. PICK n \in Nat \ {0} : n = stream.next + Len(vers)
      BY <1>2, <2>3
    <2>8. /\ stream' \in Streams /\ stream'.open = stream.open /\ stream'.epoch = stream.epoch
          /\ stream'.next = n /\ stream'.buffering = FALSE /\ stream'.buffer = <<>>
      <3>1. stream' = [stream EXCEPT !.buffering = FALSE, !.buffer = <<>>, !.next = n]
        BY <2>2, <2>7
      <3>2. <<>> \in Seq(Nat)
        OBVIOUS
      <3> QED
        BY <1>2, <3>1, <3>2 DEF Streams
    <2>9. /\ out' \in Seq(Messages) /\ Len(out') <= OutMax /\ OlderThanNext' /\ NumbersAscend'
      BY <1>1, <1>8, <2>2, <2>3, <2>4, <2>7, <2>8, QueueNumbers
    <2>10. PICK own \in BOOLEAN : own = (g.own \/ Own(t))
      OBVIOUS
    <2>11. /\ given' \in History /\ given'.snap = g.snap /\ given'.events = g.events
           /\ given'.lost = g.lost /\ given'.own = own
      <3>1. given' = [g EXCEPT !.own = own]
        BY <2>2, <2>10
      <3> QED
        BY <2>6, <3>1 DEF History
    <2>12. TypeOK'
      BY <1>1, <1>2, <1>4, <1>5, <2>8, <2>9, <2>11 DEF StreamInv, TypeOK
    <2>13. NewestEpoch'
      BY <1>1, <1>5, <2>8 DEF StreamInv, NewestEpoch
    <2>14. \A v \in Nat : Somewhere(v) => Somewhere(v)'
      BY <1>1, <2>1, <2>5, <2>6, <2>11 DEF Somewhere
    <2>15. given.snap <= given'.snap /\ (Fits(1) => task[t].ver <= given'.snap)
      BY <1>2, <1>3, <2>50, <2>6, <2>11 DEF History
    <2>16. given'.own => given.own \/ (Reporting(t) /\ task[t].ver <= given'.snap)
      BY <1>1, <1>8, <2>6, <2>10, <2>11, <2>15 DEF StreamInv, NewestEpoch, Own, Reporting
    <2>17. NoneLost'
      BY <1>1, <1>5, <1>8, <2>8, <2>12, <2>14, <2>15, <2>16, LosesNothing
    <2> QED
      BY <1>6, <2>9, <2>12, <2>13, <2>17 DEF StreamInv
  <1> QED
    BY <1>7, <1>8 DEF Finish

\* A snapshot that Desktop does not give.
LEMMA FailInv ==
    ASSUME StreamInv, NEW t \in Tasks, Fail(t)
    PROVE  StreamInv'
  <1>1. /\ task' = [task EXCEPT ![t] = Idle] /\ stream' = [stream EXCEPT !.buffering = FALSE]
        /\ UNCHANGED <<target, ver, events, counter, observer, cache, out, link, asked, budget,
                       given>>
    BY DEF Fail, wireVars
  <1>2. /\ task' \in [Tasks -> Handlers]
        /\ \A u \in Tasks : task'[u].epoch <= counter'
        /\ \A u \in Tasks : Reporting(u)' => task'[u] = task[u]
    BY <1>1, HandlerStops
  <1>3. /\ stream' \in Streams /\ stream'.open = stream.open /\ stream'.epoch = stream.epoch
        /\ stream'.next = stream.next /\ ~stream'.buffering /\ stream'.buffer = stream.buffer
    BY <1>1 DEF StreamInv, TypeOK, Streams
  <1>4. TypeOK'
    BY <1>1, <1>2, <1>3 DEF StreamInv, TypeOK
  <1>5. Budgeted' /\ NewestEpoch'
    BY <1>1, <1>2, <1>3 DEF StreamInv, Budgeted, NewestEpoch
  <1>6. OlderThanNext' /\ NumbersAscend'
    BY <1>1, <1>3, QueueStays
  <1>7. /\ \A v \in Nat : Somewhere(v) => Somewhere(v)'
        /\ given.own /\ stream.open => ~stream.buffering /\ stream.buffer = <<>>
        /\ given.snap <= given'.snap
    BY <1>1, <1>3 DEF Somewhere, StreamInv, NoneLost, TypeOK, History
  <1>8. NoneLost'
    BY <1>1, <1>2, <1>3, <1>4, <1>7, LosesNothing
  <1> QED
    BY <1>4, <1>5, <1>6, <1>8 DEF StreamInv

\* A step that leaves the stream, the handlers and the changes alone.
LEMMA NothingMoves ==
    ASSUME StreamInv, TypeOK',
           UNCHANGED <<ver, events, stream, counter, task, given>>,
           budget'.changes = budget.changes, budget'.starts = budget.starts
    PROVE  Budgeted' /\ NewestEpoch' /\ NoneLost'
  <1>1. Budgeted' /\ NewestEpoch'
    BY DEF StreamInv, Budgeted, NewestEpoch
  <1>2. NoneLost'
    BY DEF StreamInv, NoneLost, Kept, Reporting
  <1> QED
    BY <1>1, <1>2

\* observe_session and refresh_list_summary read the content.
LEMMA ObserveReadInv == StreamInv /\ ObserveRead => StreamInv'
  <1> SUFFICES ASSUME StreamInv, ObserveRead PROVE StreamInv'
    OBVIOUS
  <1>1. /\ budget.observes > 0 /\ budget' = [budget EXCEPT !.observes = budget.observes - 1]
        /\ observer' = [Idle EXCEPT !.at = "sending", !.epoch = stream.epoch, !.ver = ver]
        /\ UNCHANGED <<target, ver, events, stream, counter, task, cache, out, link, asked, given>>
    BY DEF ObserveRead, wireVars
  <1>2. budget \in Budgets /\ budget.observes \in Nat /\ stream.epoch \in Nat /\ ver \in Nat
    BY DEF StreamInv, TypeOK, Budgets, Streams
  <1>3. PICK n \in Nat : n = budget.observes - 1
    BY <1>1, <1>2
  <1>4. /\ budget' \in Budgets /\ budget'.starts = budget.starts
        /\ budget'.changes = budget.changes
    <2>1. budget' = [budget EXCEPT !.observes = n]
      BY <1>1, <1>3
    <2> QED
      BY <1>2, <2>1, Spending
  <1>5. observer' \in Handlers
    BY <1>1, <1>2 DEF Handlers, Idle
  <1>6. TypeOK'
    BY <1>1, <1>4, <1>5 DEF StreamInv, TypeOK
  <1>7. OlderThanNext' /\ NumbersAscend'
    BY <1>1, QueueStays
  <1> QED
    BY <1>1, <1>4, <1>6, <1>7, NothingMoves DEF StreamInv

\* What was read is sent as one more snapshot, or not at all.
LEMMA ObserveSendInv == StreamInv /\ ObserveSend => StreamInv'
  <1> SUFFICES ASSUME StreamInv, ObserveSend PROVE StreamInv'
    OBVIOUS
  <1>1. /\ observer' = Idle /\ NoteSnapshot(observer.ver)
        /\ UNCHANGED <<target, ver, events, counter, task, link, asked, budget>>
    BY DEF ObserveSend
  <1>2. /\ stream \in Streams /\ given \in History /\ stream.next \in Nat \ {0}
        /\ stream.epoch \in Nat /\ observer \in Handlers
    BY DEF StreamInv, TypeOK, Streams
  <1>3. PICK x \in Nat : x = observer.ver
    BY <1>2 DEF Handlers
  <1>4. cache' \in [has : BOOLEAN, revision : Nat] /\ Idle \in Handlers
    BY <1>1, <1>3, CacheType DEF StreamInv, TypeOK, Idle, Handlers
  <1>5. CASE UNCHANGED <<stream, out, given>>
    <2>1. TypeOK'
      BY <1>1, <1>4, <1>5 DEF StreamInv, TypeOK
    <2>2. OlderThanNext' /\ NumbersAscend'
      BY <1>1, <1>5, QueueStays
    <2> QED
      BY <1>1, <1>5, <2>1, <2>2, NothingMoves DEF StreamInv
  <1>6. CASE /\ stream.open /\ ~stream.buffering
             /\ stream' = [stream EXCEPT !.next = stream.next + 1]
             /\ out' = Send(out, Numbered(stream, <<"snapshot">>, <<x>>))
             /\ given' = GiveSnapshot(given, x)
    <2>0. PICK n \in Nat \ {0} : n = stream.next + 1
      BY <1>2
    <2>1. /\ stream' \in Streams /\ stream'.buffer = stream.buffer /\ stream'.open = stream.open
          /\ stream'.epoch = stream.epoch /\ stream'.next = stream.next + 1
          /\ stream'.buffering = stream.buffering
      <3>1. stream' = [stream EXCEPT !.next = n]
        BY <1>6, <2>0
      <3> QED
        BY <1>2, <2>0, <3>1 DEF Streams
    <2>2. /\ <<x>> \in Seq(Nat) /\ Len(<<x>>) = 1
          /\ \A i \in DOMAIN <<x>> : <<"snapshot">>[i] \in {"snapshot", "batch"}
      BY <1>3
    <2>3. /\ out' \in Seq(Messages) /\ Len(out') <= OutMax /\ OlderThanNext' /\ NumbersAscend'
      BY <1>1, <1>6, <2>1, <2>2, QueueNumbers
    <2>4. /\ given' \in History /\ given'.snap >= given.snap
          /\ given'.events = given.events /\ given'.lost = given.lost
          /\ given'.own = given.own
      <3>1. PICK y \in Nat : given' = Give(given, y, {}, {})
        BY <1>3, <1>6 DEF GiveSnapshot
      <3>2. /\ given' \in History /\ given'.snap >= given.snap
            /\ given'.events = given.events \cup {} /\ given'.lost = given.lost \cup {}
            /\ given'.own = given.own
        <4>1. Grown(given, given', y, {}, {})
          BY <1>2, <3>1, GiveEffect
        <4> QED
          BY <4>1 DEF Grown
      <3> QED
        BY <3>2
    <2>5. TypeOK'
      BY <1>1, <1>4, <2>1, <2>3, <2>4 DEF StreamInv, TypeOK
    <2>6. Budgeted' /\ NewestEpoch'
      BY <1>1, <2>1 DEF StreamInv, Budgeted, NewestEpoch
    <2>7. \A v \in Nat : Somewhere(v) => Somewhere(v)'
      BY <1>1, <2>1, <2>4 DEF Somewhere
    <2>8. given.snap <= given'.snap
      BY <1>2, <2>4 DEF History
    <2>9. given.own => stream.buffer = <<>>
      BY <1>6 DEF StreamInv, NoneLost
    <2>10. \A u \in Tasks : task'[u] = task[u]
      BY <1>1
    <2>11. NoneLost'
      BY <1>1, <1>6, <2>1, <2>4, <2>5, <2>7, <2>8, <2>9, <2>10, LosesNothing
    <2> QED
      BY <2>3, <2>5, <2>6, <2>11 DEF StreamInv
  <1> QED
    BY <1>3, <1>5, <1>6 DEF ObserveSend

\* A connection is made.
LEMMA ConnectInv == StreamInv /\ Connect => StreamInv'
  <1> SUFFICES ASSUME StreamInv, Connect PROVE StreamInv'
    OBVIOUS
  <1>1. /\ budget.links > 0 /\ budget' = [budget EXCEPT !.links = budget.links - 1]
        /\ link' = [up |-> TRUE, resync |-> TRUE] /\ asked' = 1
        /\ UNCHANGED <<target, ver, events, stream, counter, task, observer, cache, out, given>>
    BY DEF Connect
  <1>2. budget \in Budgets /\ budget.links \in Nat
    BY DEF StreamInv, TypeOK, Budgets
  <1>3. PICK n \in Nat : n = budget.links - 1
    BY <1>1, <1>2
  <1>4. /\ budget' \in Budgets /\ budget'.starts = budget.starts
        /\ budget'.changes = budget.changes
    <2>1. budget' = [budget EXCEPT !.links = n]
      BY <1>1, <1>3
    <2> QED
      BY <1>2, <2>1, Spending
  <1>5. link' \in [up : BOOLEAN, resync : BOOLEAN] /\ asked' \in 0..1
    BY <1>1
  <1>6. TypeOK'
    BY <1>1, <1>4, <1>5 DEF StreamInv, TypeOK
  <1>7. OlderThanNext' /\ NumbersAscend'
    BY <1>1, QueueStays
  <1> QED
    BY <1>1, <1>4, <1>6, <1>7, NothingMoves DEF StreamInv

\* Messages leave, or are lost with the connection.
LEMMA DrainInv == StreamInv /\ (Disconnect \/ Transmit) => StreamInv'
  <1> SUFFICES ASSUME StreamInv, Disconnect \/ Transmit PROVE StreamInv'
    OBVIOUS
  <1>1. UNCHANGED <<target, ver, events, stream, counter, task, observer, cache, budget, given>>
    BY DEF Disconnect, Transmit
  <1>2. link' \in [up : BOOLEAN, resync : BOOLEAN] /\ asked' \in 0..1
    <2>1. link \in [up : BOOLEAN, resync : BOOLEAN] /\ asked \in 0..1
      BY DEF StreamInv, TypeOK
    <2>2. CASE Disconnect
      <3>1. link' = [link EXCEPT !.up = FALSE] /\ asked' = 0
        BY <2>2 DEF Disconnect
      <3>2. [link EXCEPT !.up = FALSE] \in [up : BOOLEAN, resync : BOOLEAN]
        BY <2>1
      <3>3. 0 \in 0..1
        OBVIOUS
      <3> QED
        BY <3>1, <3>2, <3>3
    <2>3. CASE Transmit
      BY <2>1, <2>3 DEF Transmit
    <2> QED
      BY <2>2, <2>3
  <1>3. PICK n \in 0..Len(out) : out' = SubSeq(out, n + 1, Len(out))
    <2>1. CASE Disconnect
      BY <2>1 DEF Disconnect
    <2>2. CASE Transmit
      <3>1. out \in Seq(Messages) /\ out # <<>> /\ out' = Tail(out)
        BY <2>2 DEF Transmit, StreamInv, TypeOK
      <3>2. 1 \in 0..Len(out)
        BY <3>1
      <3>3. Tail(out) = SubSeq(out, 1 + 1, Len(out))
        BY <3>1, TailIsSubSeq
      <3> QED
        BY <3>1, <3>2, <3>3
    <2> QED
      BY <2>1, <2>2
  <1>4. /\ out' \in Seq(Messages) /\ Len(out') <= OutMax /\ OlderThanNext' /\ NumbersAscend'
    BY <1>1, <1>3, QueueShrinks
  <1>5. TypeOK'
    BY <1>1, <1>2, <1>4 DEF StreamInv, TypeOK
  <1> QED
    BY <1>1, <1>4, <1>5, NothingMoves DEF StreamInv

-----------------------------------------------------------------------------
(* The theorems. *)

\* Every step, and stuttering, preserves the invariant.
LEMMA StepInv == StreamInv /\ [Next]_vars => StreamInv'
  <1> SUFFICES ASSUME StreamInv, [Next]_vars PROVE StreamInv'
    OBVIOUS
  <1>1. CASE UNCHANGED vars
    <2>1. UNCHANGED <<target, ver, events, stream, counter, task, observer, cache, out, link,
                      asked, budget, given>>
      BY <1>1 DEF vars
    <2>2. TypeOK'
      BY <2>1 DEF StreamInv, TypeOK
    <2>3. OlderThanNext' /\ NumbersAscend'
      BY <2>1, QueueStays
    <2> QED
      BY <2>1, <2>2, <2>3, NothingMoves DEF StreamInv
  <1>2. ASSUME NEW t \in Tasks,
               \/ HandleSubscribe(t) \/ ResyncInner(t) \/ HandleStreamResync(t)
               \/ Announce(t) \/ Read(t) \/ Finish(t) \/ Fail(t)
        PROVE  StreamInv'
    BY <1>2, EstablishInv, AnnounceInv, ReadInv, FinishInv, FailInv
  <1>3. CASE Change \/ Dispatch \/ HandleUnsubscribe
    BY <1>3, ChangeInv, DispatchInv, HandleUnsubscribeInv
  <1>4. CASE ObserveRead \/ ObserveSend \/ Connect \/ Disconnect \/ Transmit
    BY <1>4, ObserveReadInv, ObserveSendInv, ConnectInv, DrainInv
  <1> QED
    BY <1>1, <1>2, <1>3, <1>4 DEF Next

\* The inductive invariant holds in every behaviour, for any number of
\* handlers, any capacity of the queue and any number of changes.
THEOREM StreamInvariant == Spec => []StreamInv
  BY InitInv, StepInv, PTL DEF Spec

\* The variables have their types; the queue never exceeds its capacity and
\* no stream has an epoch that was not given out (send_envelope).
THEOREM StreamTypeCorrect == Spec => []TypeOK
  <1>1. StreamInv => TypeOK
    BY DEF StreamInv
  <1> QED
    BY <1>1, StreamInvariant, PTL

\* Along the queue epochs never go back and within an epoch the numbers rise,
\* however handlers, pump and observer interleave (assign_sequence,
\* send_stream_locked).
THEOREM NumbersLeaveInOrder == Spec => []NumbersAscend
  <1>1. StreamInv => NumbersAscend
    BY DEF StreamInv
  <1> QED
    BY <1>1, StreamInvariant, PTL

\* Once the queue has taken the content that the newest establishment read,
\* every change is in a snapshot of the epoch or an event of it that the queue
\* took, or in an event it dropped because it was full, or on its way to the
\* pump, whatever older handlers do; an empty page in place of a list that could
\* not be read counts for nothing (establish_list_stream,
\* establish_session_stream, dispatch_domain_event).
THEOREM NoChangeIsSkipped == Spec => []NothingSkipped
  <1>1. StreamInv => NothingSkipped
    <2> SUFFICES ASSUME StreamInv, stream.open, given.own, NEW v \in 1..ver
                 PROVE  \/ v <= given.snap \/ v \in given.events \/ v \in given.lost
                        \/ v \in Range(events)
      BY DEF NothingSkipped
    <2>1. Kept(v, given.snap) /\ stream.buffer = <<>>
      BY DEF StreamInv, NoneLost
    <2>2. v \notin Range(stream.buffer)
      BY <2>1, RangeEmpty
    <2> QED
      BY <2>1, <2>2 DEF Kept
  <1> QED
    BY <1>1, StreamInvariant, PTL

-----------------------------------------------------------------------------
(* The file data plane.                                                    *)

Registered == [reg : {"new", "in", "out"}, dir : {"down", "up"}, term : BOOLEAN,
               sig : BOOLEAN, hand : {"open", "given", "picked"},
               ack : {"none", "pending", "open", "closed"},
               res : {"none", "completed", "failed", "cancelled"}]
Requests == [ph : {"idle", "declared", "wait", "stream", "result", "failed", "ended",
                   "completed", "gone"},
             req : Ranges, h : Transfers, n : 0..Chunks, puts : 0..MaxPuts]
Workers == [ph : {"idle", "connect", "stream", "done"}, tok : {"none", "live", "cancelled"},
          n : 0..Chunks, off : 0..Chunks, len : 0..Chunks, ranged : BOOLEAN]
Channels == [q : 0..Capacity, err : BOOLEAN, tx : BOOLEAN, rx : BOOLEAN, cut : BOOLEAN]
Pumps == {"none", "read", "send", "done"}
Files == [n : 0..Chunks, inline : BOOLEAN, grant : {"none", "valid", "expired"}, kept : BOOLEAN]
Orders == [kind : {"offer", "cancel"}, id : Transfers]
Answers == [kind : {"reject", "failed", "completed", "cancelled"}, id : Transfers]

\* An upload: what the Browser sent is in the channel or at the Bridge; its
\* request is answered `completed` only once the Bridge has issued a handle,
\* and then the channel was empty and nothing could enter it any more.  It has
\* no pump at the Relay.
UpFine(r, b, i, p, m, f) ==
    /\ r.dir = "up" /\ (r.reg = "new" <=> b.ph = "idle") /\ (r.reg = "new" => i.ph = "idle")
    /\ r.ack = "none" /\ m = "none" /\ b.ph # "ended"
    /\ b.n = p.q + i.n
    /\ b.ph \in {"result", "completed"} => b.n = Chunks
    /\ r.res = "completed" \/ b.ph = "completed" => f.grant # "none"
    /\ f.grant # "none" => i.ph = "done" /\ ~p.rx /\ p.q = 0 /\ f.n = i.n

\* The slice the Bridge sends is what the request asked of a whole file.
Sliced(off, len, r) == {off + k : k \in 0..(len - 1)} = Asked(r, Chunks)

\* A download: the pump is started once, after the handoff; what it has read
\* is in its hand, in the channel or at the Browser; and a channel that was
\* closed holds an error, was cut, has no reader, or carried the whole slice.
DownFine(t, r, b, i, p, m) ==
    /\ r.dir = "down" /\ (r.reg = "new" <=> b.ph = "idle") /\ (r.reg = "new" => i.ph = "idle")
    /\ b.ph \notin {"declared", "result", "completed"}
    /\ b.h = t => b.ph \in {"idle", "failed"}
    /\ i.ph \in {"idle", "connect"} => r.ack = "none" /\ m = "none"
    /\ r.ack \in {"none", "pending"} => m = "none"
    /\ m = "none" => i.n = 0
    /\ m \in {"none", "read"} => i.n = b.n + p.q
    /\ m = "send" => i.n = b.n + p.q + 1
    /\ m = "done" => b.n + p.q <= i.n
    /\ i.n <= i.len
    /\ b.ph \in {"idle", "wait", "stream"} => p.rx
    /\ b.ph = "stream" => r.hand # "open"
    /\ ~p.tx => m = "done" /\ (p.err \/ p.cut \/ ~p.rx \/ (i.n = i.len /\ b.n + p.q = i.len))
    /\ b.ph = "ended" => m = "done" /\ (p.cut \/ b.n = i.len)
    /\ i.ph # "idle" => Sliced(i.off, i.len, b.req)

\* A download that was offered names a handle, which is a finished upload.
HandleFine(t) == bro[t].h # t => bro[t].h \in Uploads /\ bro[bro[t].h].ph = "completed"

\* An offer on its way was not taken up before, and is on its way once.
OfferPending(t) ==
    rel[t].reg # "new" /\ bri[t].ph = "idle" /\ (t \in Downloads => bro[t].h # t)
OfferedOnce(q) ==
    \A j, k \in 1..Len(q) :
        q[j].kind = "offer" /\ q[k].kind = "offer" /\ q[j].id = q[k].id => j = k

TransferTypes ==
    /\ rel \in [Transfers -> Registered] /\ bro \in [Transfers -> Requests]
    /\ bri \in [Transfers -> Workers] /\ pipe \in [Transfers -> Channels]
    /\ pump \in [Transfers -> Pumps] /\ file \in [Transfers -> Files]
    /\ toBridge \in Seq(Orders) /\ toRelay \in Seq(Answers)

TransferInv ==
    /\ TransferTypes
    /\ \A t \in Uploads : UpFine(rel[t], bro[t], bri[t], pipe[t], pump[t], file[t])
    /\ \A t \in Downloads : DownFine(t, rel[t], bro[t], bri[t], pipe[t], pump[t]) /\ HandleFine(t)
    /\ \A m \in Range(toBridge) : m.kind = "offer" => OfferPending(m.id)
    /\ OfferedOnce(toBridge)
    /\ \A m \in Range(toRelay) :
         m.kind = "completed" /\ m.id \in Uploads => file[m.id].grant # "none"

\* A step of one transfer, its new values, and what no step may undo.
Put(f, g, t, x) == g = [f EXCEPT ![t] = x]
Keeps(t, r, b, i, f) ==
    /\ rel[t].reg # "new" => r.reg # "new"
    /\ bro[t].ph = "completed" => b.ph = "completed"
    /\ b.h = bro[t].h
    /\ bri[t].ph = "idle" => i.ph = "idle"
    /\ file[t].grant # "none" => f.grant # "none"
Tells(t, f) ==
    /\ toBridge' = toBridge \/ toBridge' = Append(toBridge, [kind |-> "cancel", id |-> t])
    /\ \/ toRelay' = toRelay
       \/ \E k \in {"failed", "completed", "cancelled"} :
            /\ toRelay' = Append(toRelay, [kind |-> k, id |-> t])
            /\ k = "completed" /\ t \in Uploads => f.grant # "none"
Moves(t, r, b, i, p, m, f) ==
    /\ r \in Registered /\ b \in Requests /\ i \in Workers /\ p \in Channels /\ m \in Pumps
    /\ f \in Files
    /\ Put(rel, rel', t, r) /\ Put(bro, bro', t, b) /\ Put(bri, bri', t, i)
    /\ Put(pipe, pipe', t, p) /\ Put(pump, pump', t, m) /\ Put(file, file', t, f)
    /\ t \in Uploads => UpFine(r, b, i, p, m, f)
    /\ t \in Downloads => DownFine(t, r, b, i, p, m)

\* Nothing is replaced.
LEMMA PutSame ==
    ASSUME NEW S, NEW f \in [Transfers -> S], NEW g, g = f, NEW t \in Transfers
    PROVE  Put(f, g, t, f[t])
  BY DEF Put

\* The two kinds of transfers are different ones.
LEMMA UpOrDown ==
    /\ Uploads \subseteq Transfers /\ Downloads \subseteq Transfers
    /\ \A t \in Transfers : t \in Uploads \/ t \in Downloads
    /\ \A t \in Uploads : t \notin Downloads
  BY TransferAssumption DEF Transfers

\* A cancellation or an answer at the end of a queue.
LEMMA OfferAdded ==
    ASSUME NEW q \in Seq(Orders), NEW x \in Orders, OfferedOnce(q),
           x.kind = "offer" => \A m \in Range(q) : m.kind = "offer" => m.id # x.id
    PROVE  OfferedOnce(Append(q, x))
  <1>1. /\ Append(q, x) \in Seq(Orders) /\ Len(Append(q, x)) = Len(q) + 1 /\ Len(q) \in Nat
        /\ Append(q, x)[Len(q) + 1] = x /\ \A k \in 1..Len(q) : Append(q, x)[k] = q[k]
    OBVIOUS
  <1>2. \A k \in 1..Len(q) : q[k] \in Range(q)
    BY DEF Range
  <1>3. \A k \in 1..(Len(q) + 1) : k \in 1..Len(q) \/ k = Len(q) + 1
    BY <1>1
  <1> QED
    BY <1>1, <1>2, <1>3 DEF OfferedOnce

\* The first of a queue is taken.
LEMMA OfferTaken ==
    ASSUME NEW q \in Seq(Orders), q # <<>>, OfferedOnce(q)
    PROVE  /\ OfferedOnce(Tail(q))
           /\ Head(q).kind = "offer" =>
                \A m \in Range(Tail(q)) : m.kind = "offer" => m.id # Head(q).id
  <1>1. /\ Tail(q) \in Seq(Orders) /\ Len(q) \in Nat \ {0} /\ Len(Tail(q)) = Len(q) - 1
        /\ Head(q) = q[1] /\ \A k \in 1..(Len(q) - 1) : Tail(q)[k] = q[k + 1]
    OBVIOUS
  <1>2. \A k \in 1..(Len(q) - 1) : k + 1 \in 1..Len(q) /\ k + 1 # 1
    BY <1>1
  <1>3. OfferedOnce(Tail(q))
    BY <1>1, <1>2 DEF OfferedOnce
  <1>4. ASSUME Head(q).kind = "offer", NEW m \in Range(Tail(q)), m.kind = "offer", m.id = Head(q).id
        PROVE  FALSE
    <2>1. PICK k \in 1..(Len(q) - 1) : m = Tail(q)[k]
      BY <1>1 DEF Range
    <2>2. 1 \in 1..Len(q) /\ q[k + 1] = m
      BY <1>1, <2>1
    <2> QED
      BY <1>1, <1>2, <1>4, <2>1, <2>2 DEF OfferedOnce
  <1> QED
    BY <1>3, <1>4

\* One transfer moves, in a way that undoes nothing, and at most a cancellation
\* and an answer are sent: the others and the queues are as they were.
LEMMA LocalStep ==
    ASSUME TransferInv, NEW t \in Transfers, NEW r, NEW b, NEW i, NEW p, NEW m, NEW f,
           Moves(t, r, b, i, p, m, f), Keeps(t, r, b, i, f), Tells(t, f)
    PROVE  TransferInv'
  <1>1. /\ rel \in [Transfers -> Registered] /\ bro \in [Transfers -> Requests]
        /\ bri \in [Transfers -> Workers] /\ pipe \in [Transfers -> Channels]
        /\ pump \in [Transfers -> Pumps] /\ file \in [Transfers -> Files]
        /\ toBridge \in Seq(Orders) /\ toRelay \in Seq(Answers)
    BY DEF TransferInv, TransferTypes
  <1>2. /\ r \in Registered /\ b \in Requests /\ i \in Workers /\ p \in Channels /\ m \in Pumps
        /\ f \in Files
        /\ Put(rel, rel', t, r) /\ Put(bro, bro', t, b) /\ Put(bri, bri', t, i)
        /\ Put(pipe, pipe', t, p) /\ Put(pump, pump', t, m) /\ Put(file, file', t, f)
        /\ t \in Uploads => UpFine(r, b, i, p, m, f)
        /\ t \in Downloads => DownFine(t, r, b, i, p, m)
    BY DEF Moves
  <1>3. /\ rel' \in [Transfers -> Registered] /\ bro' \in [Transfers -> Requests]
        /\ bri' \in [Transfers -> Workers] /\ pipe' \in [Transfers -> Channels]
        /\ pump' \in [Transfers -> Pumps] /\ file' \in [Transfers -> Files]
        /\ rel'[t] = r /\ bro'[t] = b /\ bri'[t] = i /\ pipe'[t] = p /\ pump'[t] = m /\ file'[t] = f
        /\ \A u \in Transfers : u # t =>
             /\ rel'[u] = rel[u] /\ bro'[u] = bro[u] /\ bri'[u] = bri[u]
             /\ pipe'[u] = pipe[u] /\ pump'[u] = pump[u] /\ file'[u] = file[u]
    <2>1. /\ rel' \in [Transfers -> Registered] /\ rel'[t] = r
          /\ \A u \in Transfers : u # t => rel'[u] = rel[u]
      BY <1>1, <1>2 DEF Put
    <2>2. /\ bro' \in [Transfers -> Requests] /\ bro'[t] = b
          /\ \A u \in Transfers : u # t => bro'[u] = bro[u]
      BY <1>1, <1>2 DEF Put
    <2>3. /\ bri' \in [Transfers -> Workers] /\ bri'[t] = i
          /\ \A u \in Transfers : u # t => bri'[u] = bri[u]
      BY <1>1, <1>2 DEF Put
    <2>4. /\ pipe' \in [Transfers -> Channels] /\ pipe'[t] = p
          /\ \A u \in Transfers : u # t => pipe'[u] = pipe[u]
      BY <1>1, <1>2 DEF Put
    <2>5. /\ pump' \in [Transfers -> Pumps] /\ pump'[t] = m
          /\ \A u \in Transfers : u # t => pump'[u] = pump[u]
      BY <1>1, <1>2 DEF Put
    <2>6. /\ file' \in [Transfers -> Files] /\ file'[t] = f
          /\ \A u \in Transfers : u # t => file'[u] = file[u]
      BY <1>1, <1>2 DEF Put
    <2> QED
      BY <2>1, <2>2, <2>3, <2>4, <2>5, <2>6
  <1>4. ASSUME NEW u \in Transfers, u # t
        PROVE  /\ rel'[u] = rel[u] /\ bro'[u] = bro[u] /\ bri'[u] = bri[u] /\ pipe'[u] = pipe[u]
               /\ pump'[u] = pump[u] /\ file'[u] = file[u]
    BY <1>3, <1>4
  <1>5. /\ [kind |-> "cancel", id |-> t] \in Orders
        /\ \A k \in {"failed", "completed", "cancelled"} : [kind |-> k, id |-> t] \in Answers
    BY DEF Orders, Answers
  <1>6. /\ toBridge' \in Seq(Orders) /\ OfferedOnce(toBridge')
        /\ \A x \in Range(toBridge') : x.kind = "offer" => x \in Range(toBridge)
    <2>1. CASE toBridge' = toBridge
      BY <1>1, <2>1 DEF TransferInv
    <2>2. CASE toBridge' = Append(toBridge, [kind |-> "cancel", id |-> t])
      <3>1. PICK x \in Orders : x = [kind |-> "cancel", id |-> t] /\ x.kind = "cancel"
        BY <1>5
      <3>2. Range(toBridge') = Range(toBridge) \cup {x} /\ toBridge' \in Seq(Orders)
        BY <1>1, <2>2, <3>1, RangeAppend
      <3>3. OfferedOnce(toBridge')
        BY <1>1, <2>2, <3>1, OfferAdded DEF TransferInv
      <3> QED
        BY <3>1, <3>2, <3>3
    <2> QED
      BY <2>1, <2>2 DEF Tells
  <1>7. /\ toRelay' \in Seq(Answers)
        /\ \A x \in Range(toRelay') :
             x \in Range(toRelay) \/ (x.id = t /\ (x.kind = "completed" /\ t \in Uploads => f.grant # "none"))
    <2>1. CASE toRelay' = toRelay
      BY <1>1, <2>1
    <2>2. ASSUME NEW k \in {"failed", "completed", "cancelled"},
                 toRelay' = Append(toRelay, [kind |-> k, id |-> t]),
                 k = "completed" /\ t \in Uploads => f.grant # "none"
          PROVE  /\ toRelay' \in Seq(Answers)
                 /\ \A x \in Range(toRelay') :
                      \/ x \in Range(toRelay)
                      \/ x.id = t /\ (x.kind = "completed" /\ t \in Uploads => f.grant # "none")
      <3>1. PICK x \in Answers : x = [kind |-> k, id |-> t] /\ x.kind = k /\ x.id = t
        BY <1>5
      <3>2. Range(toRelay') = Range(toRelay) \cup {x} /\ toRelay' \in Seq(Answers)
        BY <1>1, <2>2, <3>1, RangeAppend
      <3> QED
        BY <2>2, <3>1, <3>2
    <2> QED
      BY <2>1, <2>2 DEF Tells
  <1>8. TransferTypes'
    BY <1>3, <1>6, <1>7 DEF TransferTypes
  <1>9. ASSUME NEW u \in Uploads
        PROVE  UpFine(rel'[u], bro'[u], bri'[u], pipe'[u], pump'[u], file'[u])
    <2>1. CASE u = t
      BY <1>2, <1>3, <2>1
    <2>2. CASE u # t
      <3>1. UpFine(rel[u], bro[u], bri[u], pipe[u], pump[u], file[u]) /\ u \in Transfers
        BY UpOrDown DEF TransferInv
      <3> QED
        BY <1>4, <2>2, <3>1
    <2> QED
      BY <2>1, <2>2
  <1>10. ASSUME NEW u \in Transfers, bro[u].ph = "completed" PROVE bro'[u].ph = "completed"
    <2>1. CASE u = t
      BY <1>3, <1>10, <2>1 DEF Keeps
    <2> QED
      BY <1>4, <1>10, <2>1
  <1>11. ASSUME NEW u \in Transfers PROVE bro'[u].h = bro[u].h
    <2>1. CASE u = t
      BY <1>3, <2>1 DEF Keeps
    <2> QED
      BY <1>4, <2>1
  <1>12. ASSUME NEW u \in Downloads
         PROVE  DownFine(u, rel'[u], bro'[u], bri'[u], pipe'[u], pump'[u]) /\ HandleFine(u)'
    <2>1. /\ DownFine(u, rel[u], bro[u], bri[u], pipe[u], pump[u]) /\ HandleFine(u)
          /\ u \in Transfers
      BY UpOrDown DEF TransferInv
    <2>2. HandleFine(u)'
      <3>1. bro[u].h \in Uploads => bro[u].h \in Transfers
        BY UpOrDown
      <3> QED
        BY <1>10, <1>11, <2>1, <3>1 DEF HandleFine
    <2>3. CASE u = t
      BY <1>2, <1>3, <2>2, <2>3
    <2>4. CASE u # t
      BY <1>4, <2>1, <2>2, <2>4
    <2> QED
      BY <2>3, <2>4
  <1>13. ASSUME NEW x \in Range(toBridge'), x.kind = "offer" PROVE OfferPending(x.id)'
    <2>1. x \in Range(toBridge) /\ OfferPending(x.id)
      BY <1>6, <1>13 DEF TransferInv
    <2>2. x.id \in Transfers
      <3>1. Range(toBridge) \subseteq Orders
        BY <1>1 DEF Range
      <3> QED
        BY <2>1, <3>1 DEF Orders
    <2>3. CASE x.id = t
      BY <1>3, <1>11, <2>1, <2>2, <2>3 DEF OfferPending, Keeps
    <2>4. CASE x.id # t
      BY <1>4, <2>1, <2>2, <2>4 DEF OfferPending
    <2> QED
      BY <2>3, <2>4
  <1>14. ASSUME NEW x \in Range(toRelay'), x.kind = "completed", x.id \in Uploads
         PROVE  file'[x.id].grant # "none"
    <2>1. x.id \in Transfers
      BY <1>14, UpOrDown
    <2>2. CASE x \in Range(toRelay)
      <3>1. file[x.id].grant # "none"
        BY <1>14, <2>2 DEF TransferInv
      <3> QED
        BY <1>3, <1>4, <2>1, <3>1 DEF Keeps
    <2>3. CASE x \notin Range(toRelay)
      BY <1>3, <1>7, <1>14, <2>3
    <2> QED
      BY <2>2, <2>3
  <1> QED
    BY <1>6, <1>8, <1>9, <1>12, <1>13, <1>14 DEF TransferInv

-----------------------------------------------------------------------------
(* The Relay's side of a transfer.                                         *)

\* A change of the registry's entry that no one else depends on.
Quiet(r, s) ==
    /\ s \in Registered /\ s.dir = r.dir /\ (s.reg = "new" <=> r.reg = "new")
    /\ s.res = "completed" => r.res = "completed"
    /\ s.ack = r.ack \/ (r.ack = "open" /\ s.ack = "closed")
    /\ r.hand # "open" => s.hand # "open"

\* It leaves the transfer consistent.
LEMMA QuietFine ==
    ASSUME NEW r, NEW s, Quiet(r, s)
    PROVE  /\ \A b, i, p, m, f : UpFine(r, b, i, p, m, f) => UpFine(s, b, i, p, m, f)
           /\ \A t, b, i, p, m : DownFine(t, r, b, i, p, m) => DownFine(t, s, b, i, p, m)
  <1>1. /\ s.dir = r.dir /\ (s.reg = "new" <=> r.reg = "new")
        /\ s.res = "completed" => r.res = "completed"
        /\ s.ack = r.ack \/ (r.ack = "open" /\ s.ack = "closed")
        /\ r.hand # "open" => s.hand # "open"
    BY DEF Quiet
  <1>2. ASSUME NEW b, NEW i, NEW p, NEW m, NEW f, UpFine(r, b, i, p, m, f) PROVE UpFine(s, b, i, p, m, f)
    BY <1>1, <1>2 DEF UpFine
  <1>3. ASSUME NEW t, NEW b, NEW i, NEW p, NEW m, DownFine(t, r, b, i, p, m)
        PROVE  DownFine(t, s, b, i, p, m)
    <2>1. /\ s.ack = "none" <=> r.ack = "none"
          /\ s.ack \in {"none", "pending"} <=> r.ack \in {"none", "pending"}
      BY <1>1
    <2> QED
      BY <1>1, <1>3, <2>1 DEF DownFine
  <1> QED
    BY <1>2, <1>3

\* Two such changes are one.
LEMMA QuietTwice ==
    ASSUME NEW r, NEW s, NEW u, Quiet(r, s), Quiet(s, u)
    PROVE  Quiet(r, u)
  BY DEF Quiet

\* No change at all.
LEMMA QuietSame ==
    ASSUME NEW r \in Registered
    PROVE  Quiet(r, r)
  BY DEF Quiet

\* Transfer::complete.
LEMMA CompleteQuiet ==
    ASSUME NEW r \in Registered
    PROVE  Quiet(r, Complete(r)) /\ Complete(r).res = r.res /\ Complete(r).reg = r.reg
  <1>1. PICK a \in {"none", "pending", "open", "closed"} :
           a = (IF r.ack = "open" THEN "closed" ELSE r.ack)
           /\ (a = r.ack \/ (r.ack = "open" /\ a = "closed"))
    BY DEF Registered
  <1>2. Complete(r) = [r EXCEPT !.term = TRUE, !.ack = a]
    BY <1>1 DEF Complete
  <1>3. /\ Complete(r) \in Registered
        /\ Complete(r).dir = r.dir /\ Complete(r).reg = r.reg /\ Complete(r).res = r.res
        /\ Complete(r).ack = a /\ Complete(r).hand = r.hand
    BY <1>2 DEF Registered
  <1> QED
    BY <1>1, <1>3 DEF Quiet

\* Transfer::cancel.
LEMMA CancelQuiet ==
    ASSUME NEW r \in Registered
    PROVE  Quiet(r, Cancel(r)) /\ Cancel(r).reg = r.reg
  <1>1. CASE r.term
    BY <1>1, QuietSame DEF Cancel
  <1>2. CASE ~r.term
    <2>1. PICK c \in Registered : c = Complete(r) /\ Quiet(r, c) /\ c.res = r.res /\ c.reg = r.reg
      BY CompleteQuiet DEF Quiet
    <2>2. PICK x \in {"none", "completed", "failed", "cancelled"} :
             x = (IF c.res = "none" THEN "cancelled" ELSE c.res)
             /\ (x = "completed" => c.res = "completed")
      BY DEF Registered
    <2>3. Cancel(r) = [c EXCEPT !.sig = TRUE, !.res = x]
      BY <1>2, <2>1, <2>2 DEF Cancel
    <2>4. /\ Cancel(r) \in Registered /\ Cancel(r).dir = c.dir /\ Cancel(r).reg = c.reg
          /\ Cancel(r).res = x /\ Cancel(r).ack = c.ack
          /\ Cancel(r).hand = c.hand
      BY <2>3 DEF Registered
    <2>5. Quiet(c, Cancel(r))
      BY <2>2, <2>4 DEF Quiet
    <2> QED
      BY <2>1, <2>4, <2>5, QuietTwice
  <1> QED
    BY <1>1, <1>2

\* A transfer leaves the registry.
LEMMA OutQuiet ==
    ASSUME NEW r \in Registered, r.reg # "new"
    PROVE  Quiet(r, [r EXCEPT !.reg = "out"])
  <1>1. /\ [r EXCEPT !.reg = "out"] \in Registered
        /\ [r EXCEPT !.reg = "out"].dir = r.dir /\ [r EXCEPT !.reg = "out"].reg = "out"
        /\ [r EXCEPT !.reg = "out"].res = r.res /\ [r EXCEPT !.reg = "out"].ack = r.ack
        /\ [r EXCEPT !.reg = "out"].hand = r.hand
    BY DEF Registered
  <1> QED
    BY <1>1 DEF Quiet

\* TransferRegistry::remove.
LEMMA RemoveQuiet ==
    ASSUME TransferTypes, NEW t \in Transfers, Remove(t)
    PROVE  \E r \in Registered : Put(rel, rel', t, r) /\ Quiet(rel[t], r)
  <1>1. rel \in [Transfers -> Registered] /\ rel[t] \in Registered
    BY DEF TransferTypes
  <1>2. rel' = [rel EXCEPT ![t].reg = IF rel[t].reg = "in" THEN "out" ELSE rel[t].reg]
    BY DEF Remove
  <1>3. CASE rel[t].reg = "in"
    <2>1. rel' = [rel EXCEPT ![t] = [rel[t] EXCEPT !.reg = "out"]]
      BY <1>2, <1>3
    <2>2. Quiet(rel[t], [rel[t] EXCEPT !.reg = "out"])
      BY <1>1, <1>3, OutQuiet
    <2> QED
      BY <2>1, <2>2 DEF Put, Quiet
  <1>4. CASE rel[t].reg # "in"
    <2>1. rel' = [rel EXCEPT ![t] = rel[t]]
      <3>1. [rel[t] EXCEPT !.reg = rel[t].reg] = rel[t]
        BY <1>1 DEF Registered
      <3> QED
        BY <1>2, <1>4, <3>1
    <2> QED
      BY <1>1, <2>1, QuietSame DEF Put
  <1> QED
    BY <1>3, <1>4

\* cancel_and_remove.
LEMMA CancelAndRemoveQuiet ==
    ASSUME TransferTypes, NEW t \in Transfers, CancelAndRemove(t)
    PROVE  /\ \E r \in Registered : Put(rel, rel', t, r) /\ Quiet(rel[t], r)
           /\ toBridge' = toBridge \/ toBridge' = Append(toBridge, [kind |-> "cancel", id |-> t])
  <1>1. rel \in [Transfers -> Registered] /\ rel[t] \in Registered
    BY DEF TransferTypes
  <1>2. CASE ~InReg(t)
    <2>1. rel' = rel /\ toBridge' = toBridge
      BY <1>2 DEF CancelAndRemove
    <2> QED
      BY <1>1, <2>1, PutSame, QuietSame
  <1>3. CASE InReg(t)
    <2>1. /\ rel' = [rel EXCEPT ![t] = [Cancel(rel[t]) EXCEPT !.reg = "out"]]
          /\ toBridge' = toBridge \/ toBridge' = Append(toBridge, [kind |-> "cancel", id |-> t])
      BY <1>3 DEF CancelAndRemove
    <2>2. Quiet(rel[t], Cancel(rel[t])) /\ Cancel(rel[t]).reg = "in"
      BY <1>1, <1>3, CancelQuiet DEF InReg
    <2>3. Cancel(rel[t]) \in Registered
      BY <2>2 DEF Quiet
    <2>4. Quiet(Cancel(rel[t]), [Cancel(rel[t]) EXCEPT !.reg = "out"])
      BY <2>2, <2>3, OutQuiet
    <2>5. Quiet(rel[t], [Cancel(rel[t]) EXCEPT !.reg = "out"])
      BY <2>2, <2>4, QuietTwice
    <2> QED
      BY <2>1, <2>5 DEF Put, Quiet
  <1> QED
    BY <1>2, <1>3

-----------------------------------------------------------------------------
(* The requests of the Browser.                                            *)

\* What the invariant says of one transfer.
LEMMA Here ==
    ASSUME TransferInv, NEW t \in Transfers
    PROVE  /\ TransferTypes
           /\ rel[t] \in Registered /\ bro[t] \in Requests /\ bri[t] \in Workers
           /\ pipe[t] \in Channels /\ pump[t] \in Pumps /\ file[t] \in Files
           /\ t \in Uploads => UpFine(rel[t], bro[t], bri[t], pipe[t], pump[t], file[t])
           /\ t \in Downloads => DownFine(t, rel[t], bro[t], bri[t], pipe[t], pump[t])
           /\ t \in Uploads \/ t \in Downloads
           /\ t \in Uploads <=> rel[t].dir = "up"
           /\ t \in Downloads <=> rel[t].dir = "down"
           /\ bro[t].n \in 0..Chunks /\ bri[t].n \in 0..Chunks /\ bri[t].len \in 0..Chunks
           /\ pipe[t].q \in 0..Capacity
  <1>1. /\ TransferTypes
        /\ rel[t] \in Registered /\ bro[t] \in Requests /\ bri[t] \in Workers
        /\ pipe[t] \in Channels /\ pump[t] \in Pumps /\ file[t] \in Files
    BY DEF TransferInv, TransferTypes
  <1>2. /\ t \in Uploads => UpFine(rel[t], bro[t], bri[t], pipe[t], pump[t], file[t])
        /\ t \in Downloads => DownFine(t, rel[t], bro[t], bri[t], pipe[t], pump[t])
        /\ t \in Uploads \/ t \in Downloads
    BY UpOrDown DEF TransferInv
  <1>3. t \in Uploads => rel[t].dir = "up"
    BY <1>2 DEF UpFine
  <1>4. t \in Downloads => rel[t].dir = "down"
    BY <1>2 DEF DownFine
  <1>5. /\ bro[t].n \in 0..Chunks /\ bri[t].n \in 0..Chunks /\ bri[t].len \in 0..Chunks
        /\ pipe[t].q \in 0..Capacity
    BY <1>1 DEF Requests, Workers, Channels
  <1> QED
    BY <1>1, <1>2, <1>3, <1>4, <1>5

\* What is unchanged is replaced by itself.
LEMMA Stays ==
    ASSUME TransferInv, NEW t \in Transfers
    PROVE  /\ rel' = rel => Put(rel, rel', t, rel[t])
           /\ bro' = bro => Put(bro, bro', t, bro[t])
           /\ bri' = bri => Put(bri, bri', t, bri[t])
           /\ pipe' = pipe => Put(pipe, pipe', t, pipe[t])
           /\ pump' = pump => Put(pump, pump', t, pump[t])
           /\ file' = file => Put(file, file', t, file[t])
  <1>1. /\ rel \in [Transfers -> Registered] /\ bro \in [Transfers -> Requests]
        /\ bri \in [Transfers -> Workers] /\ pipe \in [Transfers -> Channels]
        /\ pump \in [Transfers -> Pumps] /\ file \in [Transfers -> Files]
    BY DEF TransferInv, TransferTypes
  <1> QED
    BY <1>1 DEF Put

\* The Browser's request ends before it was answered: an upload lets go of the
\* writing end of the channel, a download of the reading end.
LEMMA RequestEnds ==
    ASSUME TransferInv, NEW t \in Transfers, NEW x \in {"failed", "gone"},
           bro[t].ph \in {"declared", "wait", "stream", "result"},
           bro' = [bro EXCEPT ![t].ph = x],
           NEW r \in Registered, Put(rel, rel', t, r), Quiet(rel[t], r),
           NEW p \in Channels, Put(pipe, pipe', t, p),
           p.q = pipe[t].q, p.err = pipe[t].err, p.cut = pipe[t].cut,
           t \in Uploads => p.rx = pipe[t].rx,
           t \in Downloads => p.tx = pipe[t].tx /\ ~p.rx,
           UNCHANGED <<bri, pump, file, toRelay>>,
           toBridge' = toBridge \/ toBridge' = Append(toBridge, [kind |-> "cancel", id |-> t])
    PROVE  TransferInv'
  <1>1. /\ rel[t] \in Registered /\ bro[t] \in Requests /\ bri[t] \in Workers
        /\ pipe[t] \in Channels /\ pump[t] \in Pumps /\ file[t] \in Files
        /\ t \in Uploads => UpFine(rel[t], bro[t], bri[t], pipe[t], pump[t], file[t])
        /\ t \in Downloads => DownFine(t, rel[t], bro[t], bri[t], pipe[t], pump[t])
    BY Here
  <1>b. PICK b : b = [bro[t] EXCEPT !.ph = x]
    OBVIOUS
  <1>2. /\ b \in Requests /\ b.ph = x /\ b.n = bro[t].n /\ b.h = bro[t].h /\ b.req = bro[t].req
    BY <1>1, <1>b DEF Requests
  <1>3. Put(bro, bro', t, b)
    BY <1>b DEF Put
  <1>4. ASSUME t \in Uploads PROVE UpFine(r, b, bri[t], p, pump[t], file[t])
    <2>1. UpFine(rel[t], b, bri[t], p, pump[t], file[t])
      BY <1>1, <1>2, <1>4 DEF UpFine
    <2> QED
      BY <2>1, QuietFine
  <1>5. ASSUME t \in Downloads PROVE DownFine(t, r, b, bri[t], p, pump[t])
    <2>1. DownFine(t, rel[t], b, bri[t], p, pump[t])
      BY <1>1, <1>2, <1>5 DEF DownFine
    <2> QED
      BY <2>1, QuietFine
  <1>6. Moves(t, r, b, bri[t], p, pump[t], file[t])
    BY <1>1, <1>2, <1>3, <1>4, <1>5, Stays DEF Moves
  <1>7. Keeps(t, r, b, bri[t], file[t])
    BY <1>2 DEF Keeps, Quiet
  <1>8. Tells(t, file[t])
    BY DEF Tells
  <1> QED
    BY <1>6, <1>7, <1>8, LocalStep

\* The rendezvous is cancelled or takes too long.
LEMMA RendezvousFailsInv ==
    ASSUME TransferInv, NEW t \in Transfers, RendezvousCancelled(t) \/ RendezvousTimeout(t)
    PROVE  TransferInv'
  <1>1. /\ bro[t].ph = "wait" /\ bro' = [bro EXCEPT ![t].ph = "failed"]
        /\ pipe' = [pipe EXCEPT ![t].rx = IF rel[t].dir = "down" THEN FALSE ELSE pipe[t].rx,
                                ![t].tx = IF rel[t].dir = "up" THEN FALSE ELSE pipe[t].tx]
        /\ UNCHANGED <<bri, pump, file, toRelay>>
        /\ \/ Remove(t) /\ toBridge' = toBridge
           \/ CancelAndRemove(t)
    BY DEF RendezvousCancelled, RendezvousTimeout
  <1>2. /\ TransferTypes /\ pipe[t] \in Channels
        /\ t \in Uploads <=> rel[t].dir = "up"
        /\ t \in Downloads <=> rel[t].dir = "down"
    BY Here
  <1>3. PICK r \in Registered : Put(rel, rel', t, r) /\ Quiet(rel[t], r)
    BY <1>1, <1>2, RemoveQuiet, CancelAndRemoveQuiet
  <1>4. toBridge' = toBridge \/ toBridge' = Append(toBridge, [kind |-> "cancel", id |-> t])
    BY <1>1, <1>2, CancelAndRemoveQuiet
  <1>5. PICK x \in BOOLEAN, y \in BOOLEAN :
           /\ x = (IF rel[t].dir = "down" THEN FALSE ELSE pipe[t].rx)
           /\ y = (IF rel[t].dir = "up" THEN FALSE ELSE pipe[t].tx)
    BY <1>2 DEF Channels
  <1>p. PICK p : p = [pipe[t] EXCEPT !.rx = x, !.tx = y]
    OBVIOUS
  <1>6. /\ p \in Channels /\ p.q = pipe[t].q /\ p.err = pipe[t].err /\ p.cut = pipe[t].cut
        /\ p.rx = x /\ p.tx = y
    BY <1>2, <1>p DEF Channels
  <1>7. Put(pipe, pipe', t, p)
    BY <1>1, <1>5, <1>p DEF Put
  <1>8. /\ t \in Uploads => p.rx = pipe[t].rx
        /\ t \in Downloads => p.tx = pipe[t].tx /\ ~p.rx
    BY <1>2, <1>5, <1>6
  <1> QED
    BY <1>1, <1>3, <1>4, <1>6, <1>7, <1>8, RequestEnds

\* The channel was handed over to the request that waits for it.
LEMMA RendezvousDoneInv ==
    ASSUME TransferInv, NEW t \in Transfers, RendezvousDone(t)
    PROVE  TransferInv'
  <1>1. /\ bro[t].ph = "wait" /\ bro' = [bro EXCEPT ![t].ph = "stream"]
        /\ rel' = [rel EXCEPT ![t].hand = "picked"]
        /\ UNCHANGED <<bri, pipe, pump, file, toBridge, toRelay>>
    BY DEF RendezvousDone
  <1>2. /\ rel[t] \in Registered /\ bro[t] \in Requests /\ bri[t] \in Workers
        /\ pipe[t] \in Channels /\ pump[t] \in Pumps /\ file[t] \in Files
        /\ t \in Uploads => UpFine(rel[t], bro[t], bri[t], pipe[t], pump[t], file[t])
        /\ t \in Downloads => DownFine(t, rel[t], bro[t], bri[t], pipe[t], pump[t])
    BY Here
  <1>3. PICK b, r : b = [bro[t] EXCEPT !.ph = "stream"] /\ r = [rel[t] EXCEPT !.hand = "picked"]
    OBVIOUS
  <1>4. /\ b \in Requests /\ b.ph = "stream" /\ b.n = bro[t].n /\ b.h = bro[t].h
        /\ b.req = bro[t].req
    BY <1>2, <1>3 DEF Requests
  <1>5. /\ r \in Registered /\ r.dir = rel[t].dir /\ r.reg = rel[t].reg /\ r.res = rel[t].res
        /\ r.ack = rel[t].ack /\ r.hand = "picked"
    BY <1>2, <1>3 DEF Registered
  <1>6. Quiet(rel[t], r)
    BY <1>5 DEF Quiet
  <1>7. ASSUME t \in Uploads PROVE UpFine(r, b, bri[t], pipe[t], pump[t], file[t])
    <2>1. UpFine(rel[t], b, bri[t], pipe[t], pump[t], file[t])
      BY <1>1, <1>2, <1>4, <1>7 DEF UpFine
    <2> QED
      BY <1>6, <2>1, QuietFine
  <1>8. ASSUME t \in Downloads PROVE DownFine(t, r, b, bri[t], pipe[t], pump[t])
    BY <1>1, <1>2, <1>4, <1>5, <1>8 DEF DownFine
  <1>9. Put(rel, rel', t, r) /\ Put(bro, bro', t, b)
    BY <1>1, <1>3 DEF Put
  <1>10. Moves(t, r, b, bri[t], pipe[t], pump[t], file[t])
    BY <1>1, <1>2, <1>4, <1>5, <1>7, <1>8, <1>9, Stays DEF Moves
  <1>11. Keeps(t, r, b, bri[t], file[t]) /\ Tells(t, file[t])
    BY <1>1, <1>4, <1>5 DEF Keeps, Tells
  <1> QED
    BY <1>10, <1>11, LocalStep

\* The Browser goes away.
LEMMA BrowserLeavesInv ==
    ASSUME TransferInv, NEW t \in Transfers, BrowserLeaves(t)
    PROVE  TransferInv'
  <1>1. /\ bro[t].ph \in {"declared", "wait", "stream", "result"}
        /\ bro' = [bro EXCEPT ![t].ph = "gone"]
        /\ rel[t].dir = "down" => pipe' = [pipe EXCEPT ![t].rx = FALSE]
        /\ rel[t].dir # "down" =>
             pipe' = [pipe EXCEPT ![t].tx = IF bro[t].ph = "declared" THEN pipe[t].tx ELSE FALSE]
        /\ UNCHANGED <<rel, bri, pump, file, toBridge, toRelay>>
    BY DEF BrowserLeaves
  <1>2. /\ rel[t] \in Registered /\ pipe[t] \in Channels
        /\ t \in Uploads <=> rel[t].dir = "up"
        /\ t \in Downloads <=> rel[t].dir = "down"
    BY Here
  <1>3. Put(rel, rel', t, rel[t]) /\ Quiet(rel[t], rel[t])
    BY <1>1, <1>2, Stays, QuietSame
  <1>4. CASE rel[t].dir = "down"
    <2>1. PICK p : p = [pipe[t] EXCEPT !.rx = FALSE]
      OBVIOUS
    <2>2. /\ p \in Channels /\ p.q = pipe[t].q /\ p.err = pipe[t].err /\ p.cut = pipe[t].cut
          /\ p.rx = FALSE /\ p.tx = pipe[t].tx
      BY <1>2, <2>1 DEF Channels
    <2>3. Put(pipe, pipe', t, p)
      BY <1>1, <1>4, <2>1 DEF Put
    <2>4. t \notin Uploads
      BY <1>2, <1>4
    <2> QED
      BY <1>1, <1>2, <1>3, <2>2, <2>3, <2>4, RequestEnds
  <1>5. CASE rel[t].dir # "down"
    <2>1. PICK x \in BOOLEAN : x = (IF bro[t].ph = "declared" THEN pipe[t].tx ELSE FALSE)
      BY <1>2 DEF Channels
    <2>2. PICK p : p = [pipe[t] EXCEPT !.tx = x]
      OBVIOUS
    <2>3. /\ p \in Channels /\ p.q = pipe[t].q /\ p.err = pipe[t].err /\ p.cut = pipe[t].cut
          /\ p.rx = pipe[t].rx
      BY <1>2, <2>2 DEF Channels
    <2>4. Put(pipe, pipe', t, p)
      BY <1>1, <1>5, <2>1, <2>2 DEF Put
    <2>5. t \notin Downloads
      BY <1>2, <1>5
    <2> QED
      BY <1>1, <1>2, <1>3, <2>3, <2>4, <2>5, RequestEnds
  <1> QED
    BY <1>4, <1>5

\* A body that breaks, finds the channel closed or is cancelled.
LEMMA UploadFails ==
    ASSUME TransferInv, NEW t \in Transfers, bro[t].ph = "stream", rel[t].dir = "up",
           bro' = [bro EXCEPT ![t].ph = "failed"], pipe' = [pipe EXCEPT ![t].tx = FALSE],
           (Remove(t) /\ toBridge' = toBridge) \/ CancelAndRemove(t),
           UNCHANGED <<bri, pump, file, toRelay>>
    PROVE  TransferInv'
  <1>1. TransferTypes /\ pipe[t] \in Channels /\ t \notin Downloads
    BY Here
  <1>2. PICK r \in Registered : Put(rel, rel', t, r) /\ Quiet(rel[t], r)
    BY <1>1, RemoveQuiet, CancelAndRemoveQuiet
  <1>3. toBridge' = toBridge \/ toBridge' = Append(toBridge, [kind |-> "cancel", id |-> t])
    BY <1>1, CancelAndRemoveQuiet
  <1>4. PICK p : p = [pipe[t] EXCEPT !.tx = FALSE]
    OBVIOUS
  <1>5. /\ p \in Channels /\ p.q = pipe[t].q /\ p.err = pipe[t].err /\ p.cut = pipe[t].cut
        /\ p.rx = pipe[t].rx
    BY <1>1, <1>4 DEF Channels
  <1>6. Put(pipe, pipe', t, p)
    BY <1>4 DEF Put
  <1> QED
    BY <1>1, <1>2, <1>3, <1>5, <1>6, RequestEnds

\* An upload moves without the Relay's registry.
LEMMA UploadMoves ==
    ASSUME TransferInv, NEW t \in Uploads,
           NEW b \in Requests, NEW i \in Workers, NEW p \in Channels, NEW f \in Files,
           Put(bro, bro', t, b), Put(bri, bri', t, i), Put(pipe, pipe', t, p),
           Put(file, file', t, f), UNCHANGED <<rel, pump, toBridge>>,
           UpFine(rel[t], b, i, p, pump[t], f), Keeps(t, rel[t], b, i, f), Tells(t, f)
    PROVE  TransferInv'
  <1>1. t \in Transfers /\ t \notin Downloads
    BY UpOrDown
  <1>2. rel[t] \in Registered /\ pump[t] \in Pumps
    BY <1>1, Here
  <1>3. Put(rel, rel', t, rel[t]) /\ Put(pump, pump', t, pump[t])
    BY <1>1, Stays
  <1>4. Moves(t, rel[t], b, i, p, pump[t], f)
    BY <1>1, <1>2, <1>3 DEF Moves
  <1> QED
    BY <1>1, <1>4, LocalStep

\* A chunk of the body, or the channel is closed.
LEMMA UploadChunkInv ==
    ASSUME TransferInv, NEW t \in Transfers, UploadChunk(t)
    PROVE  TransferInv'
  <1>1. /\ bro[t].ph = "stream" /\ rel[t].dir = "up" /\ bro[t].n < Chunks
        /\ UNCHANGED <<bri, pump, file, toRelay>>
    BY DEF UploadChunk
  <1>2. /\ t \in Uploads /\ bro[t] \in Requests /\ bri[t] \in Workers /\ pipe[t] \in Channels
        /\ file[t] \in Files /\ UpFine(rel[t], bro[t], bri[t], pipe[t], pump[t], file[t])
        /\ bro[t].n \in 0..Chunks /\ bri[t].n \in 0..Chunks /\ pipe[t].q \in 0..Capacity
    BY <1>1, Here
  <1>3. CASE /\ pipe[t].rx /\ pipe[t].q < Capacity
             /\ pipe' = [pipe EXCEPT ![t].q = pipe[t].q + 1]
             /\ bro' = [bro EXCEPT ![t].n = bro[t].n + 1]
             /\ UNCHANGED <<rel, toBridge>>
    <2>1. PICK k \in 0..Capacity, n \in 0..Chunks : k = pipe[t].q + 1 /\ n = bro[t].n + 1
      <3>1. pipe[t].q + 1 \in 0..Capacity /\ bro[t].n + 1 \in 0..Chunks
        BY <1>1, <1>2, <1>3, TransferAssumption
      <3> QED
        BY <3>1
    <2>2. PICK p, b : p = [pipe[t] EXCEPT !.q = k] /\ b = [bro[t] EXCEPT !.n = n]
      OBVIOUS
    <2>3. p \in Channels /\ p.q = k /\ p.rx = pipe[t].rx
      BY <1>2, <2>2 DEF Channels
    <2>4. b \in Requests /\ b.n = n /\ b.ph = bro[t].ph /\ b.h = bro[t].h
      BY <1>2, <2>2 DEF Requests
    <2>5. b.n = p.q + bri[t].n
      <3>1. bro[t].n = pipe[t].q + bri[t].n
        BY <1>2 DEF UpFine
      <3> QED
        BY <1>2, <2>1, <2>3, <2>4, <3>1
    <2>6. UpFine(rel[t], b, bri[t], p, pump[t], file[t])
      BY <1>1, <1>2, <1>3, <2>3, <2>4, <2>5 DEF UpFine
    <2>7. Put(pipe, pipe', t, p) /\ Put(bro, bro', t, b)
      BY <1>3, <2>1, <2>2 DEF Put
    <2>8. Keeps(t, rel[t], b, bri[t], file[t]) /\ Tells(t, file[t])
      BY <1>1, <1>3, <2>4 DEF Keeps, Tells
    <2>9. Put(bri, bri', t, bri[t]) /\ Put(file, file', t, file[t])
      BY <1>1, Stays
    <2> QED
      BY <1>1, <1>2, <1>3, <2>3, <2>4, <2>6, <2>7, <2>8, <2>9, UploadMoves
  <1>4. CASE /\ bro' = [bro EXCEPT ![t].ph = "failed"]
             /\ pipe' = [pipe EXCEPT ![t].tx = FALSE] /\ CancelAndRemove(t)
    BY <1>1, <1>4, UploadFails
  <1> QED
    BY <1>3, <1>4 DEF UploadChunk

\* The end of the body.
LEMMA UploadEofInv ==
    ASSUME TransferInv, NEW t \in Transfers, UploadEof(t)
    PROVE  TransferInv'
  <1>1. /\ bro[t].ph = "stream" /\ rel[t].dir = "up" /\ bro[t].n = Chunks
        /\ bro' = [bro EXCEPT ![t].ph = "result"] /\ pipe' = [pipe EXCEPT ![t].tx = FALSE]
        /\ UNCHANGED <<rel, bri, pump, file, toBridge, toRelay>>
    BY DEF UploadEof
  <1>2. /\ t \in Uploads /\ bro[t] \in Requests /\ bri[t] \in Workers /\ pipe[t] \in Channels
        /\ file[t] \in Files /\ UpFine(rel[t], bro[t], bri[t], pipe[t], pump[t], file[t])
    BY <1>1, Here
  <1>3. PICK b, p : b = [bro[t] EXCEPT !.ph = "result"] /\ p = [pipe[t] EXCEPT !.tx = FALSE]
    OBVIOUS
  <1>4. b \in Requests /\ b.ph = "result" /\ b.n = bro[t].n /\ b.h = bro[t].h
    BY <1>2, <1>3 DEF Requests
  <1>5. p \in Channels /\ p.q = pipe[t].q /\ p.rx = pipe[t].rx
    BY <1>2, <1>3 DEF Channels
  <1>6. UpFine(rel[t], b, bri[t], p, pump[t], file[t])
    BY <1>1, <1>2, <1>4, <1>5 DEF UpFine
  <1>7. Put(bro, bro', t, b) /\ Put(pipe, pipe', t, p)
    BY <1>1, <1>3 DEF Put
  <1>8. Put(bri, bri', t, bri[t]) /\ Put(file, file', t, file[t])
    BY <1>1, Stays
  <1>9. Keeps(t, rel[t], b, bri[t], file[t]) /\ Tells(t, file[t])
    BY <1>1, <1>4 DEF Keeps, Tells
  <1> QED
    BY <1>1, <1>2, <1>4, <1>5, <1>6, <1>7, <1>8, <1>9, UploadMoves

\* The upload is answered.
LEMMA UploadResultInv ==
    ASSUME TransferInv, NEW t \in Transfers, UploadResult(t)
    PROVE  TransferInv'
  <1>1. /\ bro[t].ph = "result" /\ Remove(t)
        /\ UNCHANGED <<bri, pipe, pump, file, toBridge, toRelay>>
        /\ \/ rel[t].res = "completed" /\ bro' = [bro EXCEPT ![t].ph = "completed"]
           \/ bro' = [bro EXCEPT ![t].ph = "failed"]
    BY DEF UploadResult
  <1>2. /\ TransferTypes /\ rel[t] \in Registered /\ bro[t] \in Requests /\ bri[t] \in Workers
        /\ pipe[t] \in Channels /\ pump[t] \in Pumps /\ file[t] \in Files
        /\ t \in Uploads => UpFine(rel[t], bro[t], bri[t], pipe[t], pump[t], file[t])
        /\ t \in Downloads => DownFine(t, rel[t], bro[t], bri[t], pipe[t], pump[t])
        /\ t \in Uploads \/ t \in Downloads
    BY Here
  <1>3. t \in Uploads /\ t \notin Downloads
    BY <1>1, <1>2 DEF DownFine
  <1>4. PICK r \in Registered : Put(rel, rel', t, r) /\ Quiet(rel[t], r)
    BY <1>1, <1>2, RemoveQuiet
  <1>5. Put(pipe, pipe', t, pipe[t])
    BY <1>1, Stays
  <1>6. CASE bro' = [bro EXCEPT ![t].ph = "failed"]
    BY <1>1, <1>2, <1>3, <1>4, <1>5, <1>6, RequestEnds
  <1>7. CASE rel[t].res = "completed" /\ bro' = [bro EXCEPT ![t].ph = "completed"]
    <2>1. PICK b : b = [bro[t] EXCEPT !.ph = "completed"]
      OBVIOUS
    <2>2. b \in Requests /\ b.ph = "completed" /\ b.n = bro[t].n /\ b.h = bro[t].h
      BY <1>2, <2>1 DEF Requests
    <2>3. UpFine(r, b, bri[t], pipe[t], pump[t], file[t])
      <3>1. UpFine(rel[t], b, bri[t], pipe[t], pump[t], file[t])
        BY <1>1, <1>2, <1>3, <1>7, <2>2 DEF UpFine
      <3> QED
        BY <1>4, <3>1, QuietFine
    <2>4. Put(bro, bro', t, b)
      BY <1>7, <2>1 DEF Put
    <2>5. Moves(t, r, b, bri[t], pipe[t], pump[t], file[t])
      BY <1>1, <1>2, <1>3, <1>4, <2>2, <2>3, <2>4, Stays DEF Moves
    <2>6. Keeps(t, r, b, bri[t], file[t]) /\ Tells(t, file[t])
      BY <1>1, <1>4, <2>2 DEF Keeps, Tells, Quiet
    <2> QED
      BY <2>5, <2>6, LocalStep
  <1> QED
    BY <1>1, <1>6, <1>7

\* The body breaks off or stalls.
LEMMA UploadBreaksInv ==
    ASSUME TransferInv, NEW t \in Transfers, UploadBreaks(t) \/ UploadCancelled(t)
    PROVE  TransferInv'
  <1>1. /\ bro[t].ph = "stream" /\ rel[t].dir = "up"
        /\ bro' = [bro EXCEPT ![t].ph = "failed"] /\ pipe' = [pipe EXCEPT ![t].tx = FALSE]
        /\ (Remove(t) /\ toBridge' = toBridge) \/ CancelAndRemove(t)
        /\ UNCHANGED <<bri, pump, file, toRelay>>
    BY DEF UploadBreaks, UploadCancelled
  <1> QED
    BY <1>1, UploadFails

\* A PUT: the first one of an upload, or another.
LEMMA UploadStreamInv ==
    ASSUME TransferInv, NEW t \in Transfers, UploadStream(t)
    PROVE  TransferInv'
  <1>1. /\ rel[t].reg = "in" /\ rel[t].dir = "up" /\ bro[t].puts < MaxPuts
        /\ bro' = [bro EXCEPT ![t].puts = bro[t].puts + 1,
                              ![t].ph = IF bro[t].ph = "declared" THEN "wait" ELSE bro[t].ph]
        /\ UNCHANGED <<rel, bri, pipe, pump, file, toBridge, toRelay>>
    BY DEF UploadStream, InReg
  <1>2. /\ t \in Uploads /\ bro[t] \in Requests /\ bri[t] \in Workers /\ pipe[t] \in Channels
        /\ file[t] \in Files /\ UpFine(rel[t], bro[t], bri[t], pipe[t], pump[t], file[t])
    BY <1>1, Here
  <1>3. PICK k \in 0..MaxPuts : k = bro[t].puts + 1
    <2>1. bro[t].puts \in 0..MaxPuts
      BY <1>2 DEF Requests
    <2>2. bro[t].puts + 1 \in 0..MaxPuts
      BY <1>1, <2>1, TransferAssumption
    <2> QED
      BY <2>2
  <1>4. PICK x \in {"idle", "declared", "wait", "stream", "result", "failed", "ended",
                    "completed", "gone"} :
           x = (IF bro[t].ph = "declared" THEN "wait" ELSE bro[t].ph)
    BY <1>2 DEF Requests
  <1>5. PICK b : b = [bro[t] EXCEPT !.puts = k, !.ph = x]
    OBVIOUS
  <1>6. b \in Requests /\ b.ph = x /\ b.n = bro[t].n /\ b.h = bro[t].h
    BY <1>2, <1>5 DEF Requests
  <1>7. UpFine(rel[t], b, bri[t], pipe[t], pump[t], file[t])
    BY <1>1, <1>2, <1>4, <1>6 DEF UpFine
  <1>8. Put(bro, bro', t, b)
    BY <1>1, <1>3, <1>4, <1>5 DEF Put
  <1>9. Put(bri, bri', t, bri[t]) /\ Put(pipe, pipe', t, pipe[t]) /\ Put(file, file', t, file[t])
    BY <1>1, Stays
  <1>10. Keeps(t, rel[t], b, bri[t], file[t]) /\ Tells(t, file[t])
    BY <1>1, <1>4, <1>6 DEF Keeps, Tells
  <1> QED
    BY <1>1, <1>2, <1>6, <1>7, <1>8, <1>9, <1>10, UploadMoves

\* A download moves without the Relay's registry and without the Bridge's files.
LEMMA DownloadMoves ==
    ASSUME TransferInv, NEW t \in Downloads, NEW r \in Registered,
           NEW b \in Requests, NEW i \in Workers, NEW p \in Channels, NEW m \in Pumps,
           Put(rel, rel', t, r), Put(bro, bro', t, b), Put(bri, bri', t, i),
           Put(pipe, pipe', t, p), Put(pump, pump', t, m), UNCHANGED file,
           DownFine(t, r, b, i, p, m), Keeps(t, r, b, i, file[t]), Tells(t, file[t])
    PROVE  TransferInv'
  <1>1. t \in Transfers /\ t \notin Uploads
    BY UpOrDown
  <1>2. file[t] \in Files
    BY <1>1, Here
  <1>3. Put(file, file', t, file[t])
    BY <1>1, Stays
  <1>4. Moves(t, r, b, i, p, m, file[t])
    BY <1>1, <1>2, <1>3 DEF Moves
  <1> QED
    BY <1>1, <1>4, LocalStep

\* What has been read from the channel and what is in it, in numbers.
LEMMA ReadBound ==
    ASSUME TransferInv, NEW t \in Downloads
    PROVE  bro[t].n + pipe[t].q <= bri[t].n /\ bri[t].n <= bri[t].len /\ bri[t].len <= Chunks
  <1>1. t \in Transfers
    BY UpOrDown
  <1>2. /\ DownFine(t, rel[t], bro[t], bri[t], pipe[t], pump[t]) /\ pump[t] \in Pumps
        /\ bro[t].n \in 0..Chunks /\ bri[t].n \in 0..Chunks /\ bri[t].len \in 0..Chunks
        /\ pipe[t].q \in 0..Capacity
    BY <1>1, Here
  <1>3. /\ pump[t] \in {"none", "read"} => bri[t].n = bro[t].n + pipe[t].q
        /\ pump[t] = "send" => bri[t].n = bro[t].n + pipe[t].q + 1
        /\ pump[t] = "done" => bro[t].n + pipe[t].q <= bri[t].n
        /\ bri[t].n <= bri[t].len
    BY <1>2 DEF DownFine
  <1>4. pump[t] \in {"none", "read"} \/ pump[t] = "send" \/ pump[t] = "done"
    BY <1>2 DEF Pumps
  <1> QED
    BY <1>2, <1>3, <1>4, TransferAssumption

\* The Browser reads a chunk, or the end of its response.
LEMMA BrowserReadsInv ==
    ASSUME TransferInv, NEW t \in Transfers, BrowserReads(t)
    PROVE  TransferInv'
  <1>1. /\ bro[t].ph = "stream" /\ rel[t].dir = "down"
        /\ UNCHANGED <<rel, bri, pump, file, toBridge, toRelay>>
    BY DEF BrowserReads
  <1>2. /\ t \in Downloads /\ rel[t] \in Registered /\ bro[t] \in Requests /\ bri[t] \in Workers
        /\ pipe[t] \in Channels /\ pump[t] \in Pumps /\ file[t] \in Files
        /\ DownFine(t, rel[t], bro[t], bri[t], pipe[t], pump[t])
        /\ bro[t].n \in 0..Chunks /\ bri[t].n \in 0..Chunks /\ bri[t].len \in 0..Chunks
        /\ pipe[t].q \in 0..Capacity
    BY <1>1, Here
  <1>3. /\ Put(rel, rel', t, rel[t]) /\ Put(bri, bri', t, bri[t])
        /\ Put(pump, pump', t, pump[t])
    BY <1>1, Stays
  <1>4. CASE /\ pipe[t].q > 0 /\ pipe' = [pipe EXCEPT ![t].q = pipe[t].q - 1]
             /\ bro' = [bro EXCEPT ![t].n = bro[t].n + 1]
    <2>1. PICK k \in 0..Capacity, n \in 0..Chunks : k = pipe[t].q - 1 /\ n = bro[t].n + 1
      <3>1. pipe[t].q - 1 \in 0..Capacity /\ bro[t].n + 1 \in 0..Chunks
        BY <1>2, <1>4, ReadBound, TransferAssumption
      <3> QED
        BY <3>1
    <2>2. PICK p, b : p = [pipe[t] EXCEPT !.q = k] /\ b = [bro[t] EXCEPT !.n = n]
      OBVIOUS
    <2>3. /\ p \in Channels /\ p.q = k /\ p.rx = pipe[t].rx /\ p.tx = pipe[t].tx
          /\ p.err = pipe[t].err /\ p.cut = pipe[t].cut
      BY <1>2, <2>2 DEF Channels
    <2>4. b \in Requests /\ b.n = n /\ b.ph = bro[t].ph /\ b.h = bro[t].h /\ b.req = bro[t].req
      BY <1>2, <2>2 DEF Requests
    <2>5. b.n + p.q = bro[t].n + pipe[t].q
      BY <1>2, <2>1, <2>3, <2>4
    <2>6. DownFine(t, rel[t], b, bri[t], p, pump[t])
      BY <1>1, <1>2, <2>3, <2>4, <2>5 DEF DownFine
    <2>7. Put(pipe, pipe', t, p) /\ Put(bro, bro', t, b)
      BY <1>4, <2>1, <2>2 DEF Put
    <2>8. Keeps(t, rel[t], b, bri[t], file[t]) /\ Tells(t, file[t])
      BY <1>1, <2>4 DEF Keeps, Tells
    <2> QED
      BY <1>1, <1>2, <1>3, <2>3, <2>4, <2>6, <2>7, <2>8, DownloadMoves
  <1>5. ASSUME NEW x \in {"failed", "ended"}, pipe[t].q = 0,
               pipe' = [pipe EXCEPT ![t].rx = FALSE], bro' = [bro EXCEPT ![t].ph = x],
               x = "ended" => ~pipe[t].err /\ ~pipe[t].tx
        PROVE  TransferInv'
    <2>1. PICK p, b : p = [pipe[t] EXCEPT !.rx = FALSE] /\ b = [bro[t] EXCEPT !.ph = x]
      OBVIOUS
    <2>2. /\ p \in Channels /\ p.q = pipe[t].q /\ p.rx = FALSE /\ p.tx = pipe[t].tx
          /\ p.err = pipe[t].err /\ p.cut = pipe[t].cut
      BY <1>2, <2>1 DEF Channels
    <2>3. b \in Requests /\ b.n = bro[t].n /\ b.ph = x /\ b.h = bro[t].h /\ b.req = bro[t].req
      BY <1>2, <2>1 DEF Requests
    <2>4. b.n + p.q = b.n
      BY <1>2, <1>5, <2>2, <2>3
    <2>5. x = "ended" => pump[t] = "done" /\ (p.cut \/ b.n = bri[t].len)
      BY <1>1, <1>2, <1>5, <2>2, <2>3, <2>4 DEF DownFine
    <2>6. DownFine(t, rel[t], b, bri[t], p, pump[t])
      BY <1>1, <1>2, <1>5, <2>2, <2>3, <2>5 DEF DownFine
    <2>7. Put(pipe, pipe', t, p) /\ Put(bro, bro', t, b)
      BY <1>5, <2>1 DEF Put
    <2>8. Keeps(t, rel[t], b, bri[t], file[t]) /\ Tells(t, file[t])
      BY <1>1, <2>3 DEF Keeps, Tells
    <2> QED
      BY <1>1, <1>2, <1>3, <2>2, <2>3, <2>6, <2>7, <2>8, DownloadMoves
  <1>6. \/ /\ pipe[t].q > 0 /\ pipe' = [pipe EXCEPT ![t].q = pipe[t].q - 1]
           /\ bro' = [bro EXCEPT ![t].n = bro[t].n + 1]
        \/ \E x \in {"failed", "ended"} :
             /\ pipe[t].q = 0 /\ pipe' = [pipe EXCEPT ![t].rx = FALSE]
             /\ bro' = [bro EXCEPT ![t].ph = x]
             /\ x = "ended" => ~pipe[t].err /\ ~pipe[t].tx
    BY DEF BrowserReads
  <1> QED
    BY <1>4, <1>5, <1>6

\* The offer cannot be sent: the transfer is cancelled at once.
LEMMA OfferFailsInv ==
    ASSUME TransferInv, NEW t \in Transfers, OfferFails(t)
    PROVE  TransferInv'
  <1>1. /\ rel[t].reg = "new" /\ bro' = [bro EXCEPT ![t].ph = "failed"]
        /\ rel' = [rel EXCEPT ![t] = [Cancel(NewTransfer(rel[t].dir)) EXCEPT !.reg = "out"]]
        /\ UNCHANGED <<bri, pipe, pump, file, toBridge, toRelay>>
    BY DEF OfferFails
  <1>2. /\ rel[t] \in Registered /\ bro[t] \in Requests /\ bri[t] \in Workers
        /\ pipe[t] \in Channels /\ pump[t] \in Pumps /\ file[t] \in Files
        /\ t \in Uploads => UpFine(rel[t], bro[t], bri[t], pipe[t], pump[t], file[t])
        /\ t \in Downloads => DownFine(t, rel[t], bro[t], bri[t], pipe[t], pump[t])
    BY Here
  <1>3. PICK d \in {"down", "up"} : d = rel[t].dir
    BY <1>2 DEF Registered
  <1>4. /\ NewTransfer(d) \in Registered /\ ~NewTransfer(d).term /\ NewTransfer(d).dir = d
        /\ NewTransfer(d).reg = "in" /\ NewTransfer(d).ack = "none" /\ NewTransfer(d).res = "none"
    BY DEF NewTransfer, Registered
  <1>5. Quiet(NewTransfer(d), Cancel(NewTransfer(d))) /\ Cancel(NewTransfer(d)).reg = "in"
    BY <1>4, CancelQuiet
  <1>6. Cancel(NewTransfer(d)) \in Registered
    BY <1>5 DEF Quiet
  <1>7. PICK r : r = [Cancel(NewTransfer(d)) EXCEPT !.reg = "out"]
    OBVIOUS
  <1>8. Quiet(Cancel(NewTransfer(d)), r) /\ r.reg = "out"
    <2>1. r.reg = "out"
      BY <1>6, <1>7 DEF Registered
    <2> QED
      BY <1>5, <1>6, <1>7, <2>1, OutQuiet
  <1>9. Quiet(NewTransfer(d), r)
    BY <1>5, <1>8, QuietTwice
  <1>10. r \in Registered /\ r.dir = d /\ r.ack = "none" /\ r.res # "completed"
    BY <1>4, <1>9 DEF Quiet
  <1>11. PICK b : b = [bro[t] EXCEPT !.ph = "failed"]
    OBVIOUS
  <1>12. /\ b \in Requests /\ b.ph = "failed" /\ b.n = bro[t].n /\ b.h = bro[t].h
         /\ b.req = bro[t].req
    BY <1>2, <1>11 DEF Requests
  <1>13. ASSUME t \in Uploads PROVE UpFine(r, b, bri[t], pipe[t], pump[t], file[t])
    BY <1>1, <1>2, <1>3, <1>8, <1>10, <1>12, <1>13 DEF UpFine
  <1>14. ASSUME t \in Downloads PROVE DownFine(t, r, b, bri[t], pipe[t], pump[t])
    BY <1>1, <1>2, <1>3, <1>8, <1>10, <1>12, <1>14 DEF DownFine
  <1>15. Put(rel, rel', t, r) /\ Put(bro, bro', t, b)
    BY <1>1, <1>3, <1>7, <1>11 DEF Put
  <1>16. Moves(t, r, b, bri[t], pipe[t], pump[t], file[t])
    BY <1>1, <1>2, <1>10, <1>12, <1>13, <1>14, <1>15, Stays DEF Moves
  <1>17. Keeps(t, r, b, bri[t], file[t]) /\ Tells(t, file[t])
    <2>1. bro[t].ph # "completed"
      BY <1>1, <1>2, UpOrDown, Here DEF UpFine, DownFine
    <2> QED
      BY <1>1, <1>8, <1>12, <2>1 DEF Keeps, Tells
  <1> QED
    BY <1>16, <1>17, LocalStep

-----------------------------------------------------------------------------
(* The endpoints of the Relay and the tasks of the Bridge.                 *)

\* The Bridge's task ends.
LEMMA WorkerEnds ==
    ASSUME TransferInv, NEW t \in Transfers, bri[t].ph # "idle",
           NEW i \in Workers, i.ph = "done", i.n = bri[t].n, i.off = bri[t].off,
           i.len = bri[t].len, Put(bri, bri', t, i),
           NEW p \in Channels, p.q = pipe[t].q, p.err = pipe[t].err, p.cut = pipe[t].cut,
           p.tx = pipe[t].tx, p.rx = pipe[t].rx \/ (t \in Uploads /\ ~p.rx),
           Put(pipe, pipe', t, p), UNCHANGED <<rel, bro, pump, file, toBridge>>,
           Tells(t, file[t])
    PROVE  TransferInv'
  <1>1. /\ rel[t] \in Registered /\ bro[t] \in Requests /\ bri[t] \in Workers
        /\ pipe[t] \in Channels /\ pump[t] \in Pumps /\ file[t] \in Files
        /\ t \in Uploads => UpFine(rel[t], bro[t], bri[t], pipe[t], pump[t], file[t])
        /\ t \in Downloads => DownFine(t, rel[t], bro[t], bri[t], pipe[t], pump[t])
    BY Here
  <1>2. ASSUME t \in Uploads PROVE UpFine(rel[t], bro[t], i, p, pump[t], file[t])
    BY <1>1, <1>2 DEF UpFine
  <1>3. ASSUME t \in Downloads PROVE DownFine(t, rel[t], bro[t], i, p, pump[t])
    <2>1. t \notin Uploads
      BY <1>3, UpOrDown
    <2>2. p.rx = pipe[t].rx
      BY <2>1
    <2> QED
      BY <1>1, <1>3, <2>2 DEF DownFine
  <1>4. Moves(t, rel[t], bro[t], i, p, pump[t], file[t])
    BY <1>1, <1>2, <1>3, Stays DEF Moves
  <1>5. Keeps(t, rel[t], bro[t], i, file[t])
    BY DEF Keeps
  <1> QED
    BY <1>4, <1>5, LocalStep

\* The Bridge calls the endpoint of a transfer that is over.
LEMMA EndpointRefuses ==
    ASSUME TransferInv, NEW t \in Transfers, bri[t].ph = "connect",
           bri' = [bri EXCEPT ![t].ph = "done"],
           toRelay' = Append(toRelay, [kind |-> "failed", id |-> t]),
           UNCHANGED <<rel, bro, pipe, pump, file, toBridge>>
    PROVE  TransferInv'
  <1>1. bri[t] \in Workers /\ pipe[t] \in Channels
    BY Here
  <1>2. PICK i : i = [bri[t] EXCEPT !.ph = "done"]
    OBVIOUS
  <1>3. i \in Workers /\ i.ph = "done" /\ i.n = bri[t].n /\ i.off = bri[t].off /\ i.len = bri[t].len
    BY <1>1, <1>2 DEF Workers
  <1>4. Put(bri, bri', t, i) /\ Put(pipe, pipe', t, pipe[t])
    BY <1>2, Stays DEF Put
  <1>5. Tells(t, file[t])
    BY DEF Tells
  <1> QED
    BY <1>1, <1>3, <1>4, <1>5, WorkerEnds

\* The Bridge's task sends its result and is gone.
LEMMA TaskEnds ==
    ASSUME TransferInv, NEW t \in Transfers, bri[t].ph # "idle",
           NEW k \in {"failed", "completed", "cancelled"}, Ends(t, k),
           k = "completed" => t \notin Uploads,
           NEW p \in Channels, p.q = pipe[t].q, p.err = pipe[t].err, p.cut = pipe[t].cut,
           p.tx = pipe[t].tx, p.rx = pipe[t].rx \/ (t \in Uploads /\ ~p.rx),
           Put(pipe, pipe', t, p), UNCHANGED <<rel, bro, pump, file, toBridge>>
    PROVE  TransferInv'
  <1>1. /\ bri' = [bri EXCEPT ![t].ph = "done", ![t].tok = "none"]
        /\ toRelay' = Append(toRelay, [kind |-> k, id |-> t])
    BY DEF Ends
  <1>2. bri[t] \in Workers
    BY Here
  <1>3. PICK i : i = [bri[t] EXCEPT !.ph = "done", !.tok = "none"]
    OBVIOUS
  <1>4. i \in Workers /\ i.ph = "done" /\ i.n = bri[t].n /\ i.off = bri[t].off /\ i.len = bri[t].len
    BY <1>2, <1>3 DEF Workers
  <1>5. Put(bri, bri', t, i)
    BY <1>1, <1>3 DEF Put
  <1>6. Tells(t, file[t])
    BY <1>1 DEF Tells
  <1> QED
    BY <1>4, <1>5, <1>6, WorkerEnds

\* produce ends, or the request to the Relay is given up before its response.
LEMMA ProduceEndsInv ==
    ASSUME TransferInv, NEW t \in Transfers, ProduceEnds(t) \/ ConnectFails(t)
    PROVE  TransferInv'
  <1>1. t \in Downloads <=> rel[t].dir = "down"
    BY Here
  <1>2. pipe[t] \in Channels
    BY Here
  <1>3. \E k \in {"failed", "completed", "cancelled"} :
          Ends(t, k) /\ (k = "completed" => t \in Downloads)
    BY <1>1 DEF ProduceEnds, ConnectFails
  <1>4. UNCHANGED <<rel, bro, pipe, pump, file, toBridge>> /\ bri[t].ph # "idle"
    BY DEF ProduceEnds, ConnectFails
  <1>5. Put(pipe, pipe', t, pipe[t])
    BY <1>4, Stays
  <1> QED
    BY <1>2, <1>3, <1>4, <1>5, TaskEnds, UpOrDown

\* consume is cancelled, times out or breaks off.
LEMMA ConsumeFailsInv ==
    ASSUME TransferInv, NEW t \in Transfers, ConsumeFails(t)
    PROVE  TransferInv'
  <1>1. /\ bri[t].ph = "stream" /\ rel[t].dir = "up"
        /\ pipe' = [pipe EXCEPT ![t].rx = FALSE] /\ UNCHANGED <<rel, bro, pump, file, toBridge>>
        /\ \E k \in {"failed", "completed", "cancelled"} : k # "completed" /\ Ends(t, k)
    BY DEF ConsumeFails
  <1>2. pipe[t] \in Channels /\ t \in Uploads
    BY <1>1, Here
  <1>3. PICK p : p = [pipe[t] EXCEPT !.rx = FALSE]
    OBVIOUS
  <1>4. /\ p \in Channels /\ p.q = pipe[t].q /\ p.rx = FALSE /\ p.tx = pipe[t].tx
        /\ p.err = pipe[t].err /\ p.cut = pipe[t].cut
    BY <1>2, <1>3 DEF Channels
  <1>5. Put(pipe, pipe', t, p)
    BY <1>1, <1>3 DEF Put
  <1> QED
    BY <1>1, <1>2, <1>4, <1>5, TaskEnds

\* The producer endpoint hands the channel over, or refuses.
LEMMA ProducerInv ==
    ASSUME TransferInv, NEW t \in Transfers, Producer(t)
    PROVE  TransferInv'
  <1>1. /\ bri[t].ph = "connect" /\ rel[t].dir = "down"
        /\ UNCHANGED <<bro, pump, file, toBridge>>
    BY DEF Producer
  <1>2. /\ t \in Downloads /\ rel[t] \in Registered /\ bro[t] \in Requests /\ bri[t] \in Workers
        /\ pipe[t] \in Channels /\ pump[t] \in Pumps /\ file[t] \in Files
        /\ DownFine(t, rel[t], bro[t], bri[t], pipe[t], pump[t])
    BY <1>1, Here
  <1>3. CASE Authorized(t) /\ AwaitsHandoff(t)
    <2>1. /\ rel[t].reg = "in" /\ rel[t].hand = "open"
          /\ rel' = [rel EXCEPT ![t].hand = "given", ![t].ack = "pending"]
          /\ bri' = [bri EXCEPT ![t].ph = "stream"]
          /\ pipe' = [pipe EXCEPT ![t].tx = TRUE, ![t].rx = bro[t].ph = "wait"]
          /\ toRelay' = toRelay
      BY <1>3 DEF Producer, Authorized, InReg, AwaitsHandoff
    <2>3. PICK r, i, p : /\ r = [rel[t] EXCEPT !.hand = "given", !.ack = "pending"]
                         /\ i = [bri[t] EXCEPT !.ph = "stream"]
                         /\ p = [pipe[t] EXCEPT !.tx = TRUE, !.rx = bro[t].ph = "wait"]
      OBVIOUS
    <2>4. /\ r \in Registered /\ r.dir = rel[t].dir /\ r.reg = rel[t].reg /\ r.res = rel[t].res
          /\ r.ack = "pending" /\ r.hand = "given"
      BY <1>2, <2>3 DEF Registered
    <2>5. /\ i \in Workers /\ i.ph = "stream" /\ i.n = bri[t].n /\ i.off = bri[t].off
          /\ i.len = bri[t].len
      BY <1>2, <2>3 DEF Workers
    <2>6. /\ p \in Channels /\ p.q = pipe[t].q /\ p.tx = TRUE /\ p.err = pipe[t].err
          /\ p.cut = pipe[t].cut /\ (p.rx <=> bro[t].ph = "wait")
      BY <1>2, <2>3 DEF Channels
    <2>7. DownFine(t, r, bro[t], i, p, pump[t])
      BY <1>1, <1>2, <2>1, <2>4, <2>5, <2>6 DEF DownFine
    <2>8. Put(rel, rel', t, r) /\ Put(bri, bri', t, i) /\ Put(pipe, pipe', t, p)
      BY <2>1, <2>3 DEF Put
    <2>9. Put(bro, bro', t, bro[t]) /\ Put(pump, pump', t, pump[t])
      BY <1>1, Stays, UpOrDown
    <2>10. Keeps(t, r, bro[t], i, file[t]) /\ Tells(t, file[t])
      BY <1>1, <2>1, <2>4, <2>5 DEF Keeps, Tells
    <2> QED
      BY <1>1, <1>2, <2>4, <2>5, <2>6, <2>7, <2>8, <2>9, <2>10, DownloadMoves
  <1>4. CASE ~(Authorized(t) /\ AwaitsHandoff(t))
    <2>1. /\ bri' = [bri EXCEPT ![t].ph = "done"]
          /\ toRelay' = Append(toRelay, [kind |-> "failed", id |-> t])
          /\ UNCHANGED <<rel, pipe>>
      BY <1>4 DEF Producer
    <2> QED
      BY <1>1, <2>1, EndpointRefuses
  <1> QED
    BY <1>3, <1>4

\* The pump starts.
LEMMA ProducerAckInv ==
    ASSUME TransferInv, NEW t \in Transfers, ProducerAck(t)
    PROVE  TransferInv'
  <1>1. /\ rel[t].ack = "pending" /\ rel' = [rel EXCEPT ![t].ack = "open"]
        /\ pump' = [pump EXCEPT ![t] = "read"]
        /\ UNCHANGED <<bro, bri, pipe, file, toBridge, toRelay>>
    BY DEF ProducerAck
  <1>2. /\ t \in Downloads /\ rel[t] \in Registered /\ bro[t] \in Requests /\ bri[t] \in Workers
        /\ pipe[t] \in Channels /\ pump[t] \in Pumps /\ file[t] \in Files
        /\ DownFine(t, rel[t], bro[t], bri[t], pipe[t], pump[t])
    BY <1>1, Here DEF UpFine
  <1>3. PICK r : r = [rel[t] EXCEPT !.ack = "open"]
    OBVIOUS
  <1>4. /\ r \in Registered /\ r.dir = rel[t].dir /\ r.reg = rel[t].reg /\ r.res = rel[t].res
        /\ r.ack = "open" /\ r.hand = rel[t].hand
    BY <1>2, <1>3 DEF Registered
  <1>5. "read" \in Pumps
    BY DEF Pumps
  <1>6. DownFine(t, r, bro[t], bri[t], pipe[t], "read")
    BY <1>1, <1>2, <1>4 DEF DownFine
  <1>7. Put(rel, rel', t, r) /\ Put(pump, pump', t, "read")
    BY <1>1, <1>3 DEF Put
  <1>8. /\ Put(bro, bro', t, bro[t]) /\ Put(pipe, pipe', t, pipe[t])
        /\ Put(bri, bri', t, bri[t])
    BY <1>1, Stays
  <1>9. Keeps(t, r, bro[t], bri[t], file[t]) /\ Tells(t, file[t])
    BY <1>1, <1>4 DEF Keeps, Tells
  <1> QED
    BY <1>1, <1>2, <1>4, <1>5, <1>6, <1>7, <1>8, <1>9, DownloadMoves

\* The consumer endpoint hands the channel over, or refuses.
LEMMA ConsumerInv ==
    ASSUME TransferInv, NEW t \in Transfers, Consumer(t)
    PROVE  TransferInv'
  <1>1. /\ bri[t].ph = "connect" /\ rel[t].dir = "up"
        /\ UNCHANGED <<bro, pump, file, toBridge>>
    BY DEF Consumer
  <1>2. /\ t \in Uploads /\ rel[t] \in Registered /\ bro[t] \in Requests /\ bri[t] \in Workers
        /\ pipe[t] \in Channels /\ pump[t] \in Pumps /\ file[t] \in Files
        /\ UpFine(rel[t], bro[t], bri[t], pipe[t], pump[t], file[t])
    BY <1>1, Here
  <1>3. CASE Authorized(t) /\ AwaitsHandoff(t)
    <2>1. /\ rel[t].reg = "in" /\ rel' = [rel EXCEPT ![t].hand = "given"]
          /\ bri' = [bri EXCEPT ![t].ph = "stream"]
          /\ pipe' = [pipe EXCEPT ![t].rx = TRUE,
                                  ![t].tx = bro[t].ph = "wait" \/ bro[t].puts = 0]
          /\ toRelay' = toRelay
      BY <1>3 DEF Consumer, Authorized, InReg, AwaitsHandoff
    <2>3. PICK r, i, p : /\ r = [rel[t] EXCEPT !.hand = "given"]
                         /\ i = [bri[t] EXCEPT !.ph = "stream"]
                         /\ p = [pipe[t] EXCEPT !.rx = TRUE,
                                                !.tx = bro[t].ph = "wait" \/ bro[t].puts = 0]
      OBVIOUS
    <2>4. /\ r \in Registered /\ r.dir = rel[t].dir /\ r.reg = rel[t].reg /\ r.res = rel[t].res
          /\ r.ack = rel[t].ack
      BY <1>2, <2>3 DEF Registered
    <2>5. /\ i \in Workers /\ i.ph = "stream" /\ i.n = bri[t].n
      BY <1>2, <2>3 DEF Workers
    <2>6. p \in Channels /\ p.q = pipe[t].q
      BY <1>2, <2>3 DEF Channels
    <2>7. UpFine(r, bro[t], i, p, pump[t], file[t])
      BY <1>1, <1>2, <2>1, <2>4, <2>5, <2>6 DEF UpFine
    <2>8. Put(rel, rel', t, r) /\ Put(bri, bri', t, i) /\ Put(pipe, pipe', t, p)
      BY <2>1, <2>3 DEF Put
    <2>9. Moves(t, r, bro[t], i, p, pump[t], file[t])
      BY <1>1, <1>2, <2>4, <2>5, <2>6, <2>7, <2>8, Stays, UpOrDown DEF Moves
    <2>10. Keeps(t, r, bro[t], i, file[t]) /\ Tells(t, file[t])
      BY <1>1, <2>1, <2>4, <2>5 DEF Keeps, Tells
    <2> QED
      BY <2>9, <2>10, LocalStep
  <1>4. CASE ~(Authorized(t) /\ AwaitsHandoff(t))
    <2>1. /\ bri' = [bri EXCEPT ![t].ph = "done"]
          /\ toRelay' = Append(toRelay, [kind |-> "failed", id |-> t])
          /\ UNCHANGED <<rel, pipe>>
      BY <1>4 DEF Consumer
    <2> QED
      BY <1>1, <2>1, EndpointRefuses
  <1> QED
    BY <1>3, <1>4

\* A transfer that has a pump is a download that was handed over.
LEMMA HasPump ==
    ASSUME TransferInv, NEW t \in Transfers, pump[t] \in {"read", "send"}
    PROVE  /\ t \in Downloads /\ DownFine(t, rel[t], bro[t], bri[t], pipe[t], pump[t])
           /\ rel[t].reg # "new" /\ bri[t].ph \notin {"idle", "connect"}
           /\ rel[t].ack \notin {"none", "pending"} /\ pipe[t].tx /\ bro[t].ph # "ended"
  <1>1. t \in Downloads /\ DownFine(t, rel[t], bro[t], bri[t], pipe[t], pump[t])
    BY Here DEF UpFine
  <1> QED
    BY <1>1 DEF DownFine

\* pump_body receives a chunk.
LEMMA PumpReadInv ==
    ASSUME TransferInv, NEW t \in Transfers, PumpRead(t)
    PROVE  TransferInv'
  <1>1. /\ pump[t] = "read" /\ bri[t].ph = "stream" /\ bri[t].n < bri[t].len
        /\ bri' = [bri EXCEPT ![t].n = bri[t].n + 1] /\ pump' = [pump EXCEPT ![t] = "send"]
        /\ UNCHANGED <<rel, bro, pipe, file, toBridge, toRelay>>
    BY DEF PumpRead
  <1>2. /\ rel[t] \in Registered /\ bro[t] \in Requests /\ bri[t] \in Workers
        /\ pipe[t] \in Channels /\ file[t] \in Files
        /\ bro[t].n \in 0..Chunks /\ bri[t].n \in 0..Chunks /\ bri[t].len \in 0..Chunks
        /\ pipe[t].q \in 0..Capacity
    BY Here
  <1>3. /\ t \in Downloads /\ DownFine(t, rel[t], bro[t], bri[t], pipe[t], pump[t])
        /\ pipe[t].tx /\ bro[t].ph # "ended" /\ rel[t].ack \notin {"none", "pending"}
    BY <1>1, HasPump
  <1>4. PICK n \in 0..Chunks : n = bri[t].n + 1
    <2>1. bri[t].n + 1 \in 0..Chunks
      BY <1>1, <1>2, TransferAssumption
    <2> QED
      BY <2>1
  <1>5. PICK i : i = [bri[t] EXCEPT !.n = n]
    OBVIOUS
  <1>6. /\ i \in Workers /\ i.n = n /\ i.ph = bri[t].ph /\ i.off = bri[t].off
        /\ i.len = bri[t].len
    BY <1>2, <1>5 DEF Workers
  <1>7. i.n = bro[t].n + pipe[t].q + 1 /\ i.n <= i.len
    <2>1. bri[t].n = bro[t].n + pipe[t].q
      BY <1>1, <1>3 DEF DownFine
    <2> QED
      BY <1>1, <1>2, <1>4, <1>6, <2>1
  <1>8. DownFine(t, rel[t], bro[t], i, pipe[t], "send") /\ "send" \in Pumps
    BY <1>1, <1>3, <1>6, <1>7 DEF DownFine, Pumps
  <1>9. Put(bri, bri', t, i) /\ Put(pump, pump', t, "send")
    BY <1>1, <1>4, <1>5 DEF Put
  <1>10. /\ Put(rel, rel', t, rel[t]) /\ Put(bro, bro', t, bro[t])
         /\ Put(pipe, pipe', t, pipe[t])
    BY <1>1, Stays
  <1>11. Keeps(t, rel[t], bro[t], i, file[t]) /\ Tells(t, file[t])
    BY <1>1, <1>6 DEF Keeps, Tells
  <1> QED
    BY <1>1, <1>2, <1>3, <1>6, <1>8, <1>9, <1>10, <1>11, DownloadMoves

\* pump_body puts the chunk into the channel.
LEMMA PumpSendInv ==
    ASSUME TransferInv, NEW t \in Transfers, PumpSend(t)
    PROVE  TransferInv'
  <1>1. /\ pump[t] = "send" /\ pipe[t].rx /\ pipe[t].q < Capacity
        /\ pipe' = [pipe EXCEPT ![t].q = pipe[t].q + 1] /\ pump' = [pump EXCEPT ![t] = "read"]
        /\ UNCHANGED <<rel, bro, bri, file, toBridge, toRelay>>
    BY DEF PumpSend
  <1>2. /\ rel[t] \in Registered /\ bro[t] \in Requests /\ bri[t] \in Workers
        /\ pipe[t] \in Channels /\ file[t] \in Files
        /\ bro[t].n \in 0..Chunks /\ bri[t].n \in 0..Chunks /\ bri[t].len \in 0..Chunks
        /\ pipe[t].q \in 0..Capacity
    BY Here
  <1>3. /\ t \in Downloads /\ DownFine(t, rel[t], bro[t], bri[t], pipe[t], pump[t])
        /\ pipe[t].tx /\ bro[t].ph # "ended" /\ rel[t].ack \notin {"none", "pending"}
        /\ bri[t].ph \notin {"idle", "connect"}
    BY <1>1, HasPump
  <1>4. PICK k \in 0..Capacity : k = pipe[t].q + 1
    <2>1. pipe[t].q + 1 \in 0..Capacity
      BY <1>1, <1>2, TransferAssumption
    <2> QED
      BY <2>1
  <1>5. PICK p : p = [pipe[t] EXCEPT !.q = k]
    OBVIOUS
  <1>6. /\ p \in Channels /\ p.q = k /\ p.rx = pipe[t].rx /\ p.tx = pipe[t].tx
        /\ p.err = pipe[t].err /\ p.cut = pipe[t].cut
    BY <1>2, <1>5 DEF Channels
  <1>7. bri[t].n = bro[t].n + p.q
    <2>1. bri[t].n = bro[t].n + pipe[t].q + 1
      BY <1>1, <1>3 DEF DownFine
    <2> QED
      BY <1>2, <1>4, <1>6, <2>1
  <1>8. DownFine(t, rel[t], bro[t], bri[t], p, "read") /\ "read" \in Pumps
    BY <1>1, <1>3, <1>6, <1>7 DEF DownFine, Pumps
  <1>9. Put(pipe, pipe', t, p) /\ Put(pump, pump', t, "read")
    BY <1>1, <1>4, <1>5 DEF Put
  <1>10. /\ Put(rel, rel', t, rel[t]) /\ Put(bro, bro', t, bro[t])
         /\ Put(bri, bri', t, bri[t])
    BY <1>1, Stays
  <1>11. Keeps(t, rel[t], bro[t], bri[t], file[t]) /\ Tells(t, file[t])
    BY <1>1 DEF Keeps, Tells
  <1> QED
    BY <1>1, <1>2, <1>3, <1>6, <1>8, <1>9, <1>10, <1>11, DownloadMoves

\* The pump's task lets go of the transfer.
LEMMA DrainedOut ==
    ASSUME NEW x \in Registered, NEW c, Quiet(x, c), NEW r, r = [Drained(c) EXCEPT !.reg = "out"]
    PROVE  /\ r \in Registered /\ r.dir = x.dir /\ r.reg = "out" /\ r.ack = "closed"
           /\ x.hand # "open" => r.hand # "open"
  <1>1. c \in Registered /\ c.dir = x.dir /\ (x.hand # "open" => c.hand # "open")
    BY DEF Quiet
  <1>2. PICK d : d = [c EXCEPT !.ack = "closed"]
    OBVIOUS
  <1>3. d \in Registered /\ d.dir = c.dir /\ d.ack = "closed" /\ d.hand = c.hand
    BY <1>1, <1>2 DEF Registered
  <1>4. r = [d EXCEPT !.reg = "out"]
    BY <1>2 DEF Drained
  <1>5. /\ r \in Registered /\ r.dir = d.dir /\ r.reg = "out" /\ r.ack = d.ack /\ r.hand = d.hand
    BY <1>3, <1>4 DEF Registered
  <1> QED
    BY <1>1, <1>3, <1>5

\* The pump ends with the whole slice sent, with an error, or without a reader.
LEMMA PumpEnds ==
    ASSUME TransferInv, NEW t \in Transfers, pump[t] \in {"read", "send"},
           NEW c, Quiet(rel[t], c),
           rel' = [rel EXCEPT ![t] = [Drained(c) EXCEPT !.reg = "out"]],
           NEW p \in Channels, p.q = pipe[t].q, p.rx = pipe[t].rx, ~p.tx,
           p.err \/ p.cut \/ ~p.rx \/ (bri[t].n = bri[t].len /\ bro[t].n + p.q = bri[t].len),
           Put(pipe, pipe', t, p), pump' = [pump EXCEPT ![t] = "done"],
           UNCHANGED <<bro, bri, file, toRelay>>,
           toBridge' = toBridge \/ toBridge' = Append(toBridge, [kind |-> "cancel", id |-> t])
    PROVE  TransferInv'
  <1>1. /\ rel[t] \in Registered /\ bro[t] \in Requests /\ bri[t] \in Workers
        /\ pipe[t] \in Channels /\ file[t] \in Files
    BY Here
  <1>2. /\ t \in Downloads /\ DownFine(t, rel[t], bro[t], bri[t], pipe[t], pump[t])
        /\ rel[t].reg # "new" /\ pipe[t].tx /\ bro[t].ph # "ended"
        /\ bri[t].ph \notin {"idle", "connect"}
    BY HasPump
  <1>3. PICK r : r = [Drained(c) EXCEPT !.reg = "out"]
    OBVIOUS
  <1>4. /\ r \in Registered /\ r.dir = rel[t].dir /\ r.reg = "out" /\ r.ack = "closed"
        /\ rel[t].hand # "open" => r.hand # "open"
    BY <1>1, <1>3, DrainedOut
  <1>5. bro[t].n + p.q <= bri[t].n
    BY <1>2, ReadBound
  <1>6. DownFine(t, r, bro[t], bri[t], p, "done") /\ "done" \in Pumps
    BY <1>2, <1>4, <1>5 DEF DownFine, Pumps
  <1>7. Put(rel, rel', t, r) /\ Put(pump, pump', t, "done")
    BY <1>3 DEF Put
  <1>8. Put(bro, bro', t, bro[t]) /\ Put(bri, bri', t, bri[t])
    BY Stays
  <1>9. Keeps(t, r, bro[t], bri[t], file[t]) /\ Tells(t, file[t])
    BY <1>4 DEF Keeps, Tells
  <1> QED
    BY <1>1, <1>2, <1>4, <1>6, <1>7, <1>8, <1>9, DownloadMoves

\* The end of the Bridge's body.
LEMMA PumpEofInv ==
    ASSUME TransferInv, NEW t \in Transfers, PumpEof(t)
    PROVE  TransferInv'
  <1>1. /\ pump[t] = "read" /\ bri[t].n = bri[t].len
        /\ rel' = [rel EXCEPT ![t] = [Drained(Complete(rel[t])) EXCEPT !.reg = "out"]]
        /\ pipe' = [pipe EXCEPT ![t].tx = FALSE] /\ pump' = [pump EXCEPT ![t] = "done"]
        /\ UNCHANGED <<bro, bri, file, toBridge, toRelay>>
    BY DEF PumpEof
  <1>2. pipe[t] \in Channels /\ rel[t] \in Registered
    BY Here
  <1>3. Quiet(rel[t], Complete(rel[t]))
    BY <1>2, CompleteQuiet
  <1>4. PICK p : p = [pipe[t] EXCEPT !.tx = FALSE]
    OBVIOUS
  <1>5. p \in Channels /\ p.q = pipe[t].q /\ p.rx = pipe[t].rx /\ ~p.tx
    BY <1>2, <1>4 DEF Channels
  <1>6. bri[t].n = bro[t].n + p.q
    BY <1>1, <1>5, HasPump DEF DownFine
  <1>7. Put(pipe, pipe', t, p)
    BY <1>1, <1>4 DEF Put
  <1> QED
    BY <1>1, <1>3, <1>5, <1>6, <1>7, PumpEnds

\* An error, a timeout, a signal or a closed channel.
LEMMA PumpFailsInv ==
    ASSUME TransferInv, NEW t \in Transfers, PumpFails(t) \/ PumpSinkClosed(t)
    PROVE  TransferInv'
  <1>1. /\ CancelFromPump(t) /\ UNCHANGED <<bro, bri, file, toRelay>>
        /\ \/ /\ pump[t] = "read"
              /\ pipe' = [pipe EXCEPT ![t].tx = FALSE,
                                      ![t].err = pipe[t].q < Capacity,
                                      ![t].cut = pipe[t].q = Capacity]
           \/ /\ pump[t] = "send" /\ ~pipe[t].rx
              /\ pipe' = [pipe EXCEPT ![t].tx = FALSE]
    BY DEF PumpFails, PumpSinkClosed
  <1>2. pipe[t] \in Channels /\ rel[t] \in Registered /\ pipe[t].q \in 0..Capacity
    BY Here
  <1>3. PICK c : /\ Quiet(rel[t], c)
                 /\ rel' = [rel EXCEPT ![t] = [Drained(c) EXCEPT !.reg = "out"]]
    <2>1. CASE InReg(t)
      BY <1>1, <1>2, <2>1, CancelQuiet DEF CancelFromPump
    <2>2. CASE ~InReg(t)
      BY <1>1, <1>2, <2>2, QuietSame DEF CancelFromPump
    <2> QED
      BY <2>1, <2>2
  <1>4. /\ pump' = [pump EXCEPT ![t] = "done"]
        /\ toBridge' = toBridge \/ toBridge' = Append(toBridge, [kind |-> "cancel", id |-> t])
    BY <1>1 DEF CancelFromPump
  <1>5. PICK p \in Channels :
           /\ p.q = pipe[t].q /\ p.rx = pipe[t].rx /\ ~p.tx /\ Put(pipe, pipe', t, p)
           /\ p.err \/ p.cut \/ ~p.rx
    <2>1. CASE /\ pump[t] = "read"
               /\ pipe' = [pipe EXCEPT ![t].tx = FALSE,
                                       ![t].err = pipe[t].q < Capacity,
                                       ![t].cut = pipe[t].q = Capacity]
      <3>x. PICK x \in BOOLEAN : x = (pipe[t].q < Capacity)
        <4>1. (pipe[t].q < Capacity) \in BOOLEAN
          BY <1>2, TransferAssumption
        <4> QED
          BY <4>1
      <3>y. PICK y \in BOOLEAN : y = (pipe[t].q = Capacity)
        OBVIOUS
      <3>p. PICK p : p = [pipe[t] EXCEPT !.tx = FALSE, !.err = x, !.cut = y]
        OBVIOUS
      <3>2. /\ p \in Channels /\ p.q = pipe[t].q /\ p.rx = pipe[t].rx /\ ~p.tx
            /\ p.err = x /\ p.cut = y
        BY <1>2, <3>p DEF Channels
      <3>3. x \/ y
        <4>1. pipe[t].q < Capacity \/ pipe[t].q = Capacity
          BY <1>2, TransferAssumption
        <4> QED
          BY <3>x, <3>y, <4>1
      <3>4. Put(pipe, pipe', t, p)
        BY <2>1, <3>x, <3>y, <3>p DEF Put
      <3> QED
        BY <3>2, <3>3, <3>4
    <2>2. CASE /\ pump[t] = "send" /\ ~pipe[t].rx
               /\ pipe' = [pipe EXCEPT ![t].tx = FALSE]
      <3>1. PICK p : p = [pipe[t] EXCEPT !.tx = FALSE]
        OBVIOUS
      <3>2. p \in Channels /\ p.q = pipe[t].q /\ p.rx = pipe[t].rx /\ ~p.tx
        BY <1>2, <3>1 DEF Channels
      <3>3. Put(pipe, pipe', t, p)
        BY <2>2, <3>1 DEF Put
      <3> QED
        BY <2>2, <3>2, <3>3
    <2> QED
      BY <1>1, <2>1, <2>2
  <1>6. pump[t] \in {"read", "send"}
    BY <1>1
  <1> QED
    BY <1>1, <1>3, <1>4, <1>5, <1>6, PumpEnds

\* The sweeper.
LEMMA SweepInv ==
    ASSUME TransferInv, NEW t \in Transfers, Sweep(t)
    PROVE  TransferInv'
  <1>1. /\ CancelAndRemove(t) /\ UNCHANGED <<bro, bri, pump, file, toRelay>>
        /\ pipe' = [pipe EXCEPT ![t].tx = pipe[t].tx /\ ~(rel[t].dir = "up" /\ bro[t].puts = 0)]
    BY DEF Sweep
  <1>2. /\ TransferTypes
        /\ rel[t] \in Registered /\ bro[t] \in Requests /\ bri[t] \in Workers
        /\ pipe[t] \in Channels /\ pump[t] \in Pumps /\ file[t] \in Files
        /\ t \in Uploads => UpFine(rel[t], bro[t], bri[t], pipe[t], pump[t], file[t])
        /\ t \in Downloads => DownFine(t, rel[t], bro[t], bri[t], pipe[t], pump[t])
        /\ t \in Downloads <=> rel[t].dir = "down"
    BY Here
  <1>3. PICK r \in Registered : Put(rel, rel', t, r) /\ Quiet(rel[t], r)
    BY <1>1, <1>2, CancelAndRemoveQuiet
  <1>4. toBridge' = toBridge \/ toBridge' = Append(toBridge, [kind |-> "cancel", id |-> t])
    BY <1>1, <1>2, CancelAndRemoveQuiet
  <1>5. PICK p : p = [pipe[t] EXCEPT !.tx = pipe[t].tx /\ ~(rel[t].dir = "up" /\ bro[t].puts = 0)]
    OBVIOUS
  <1>6. /\ p \in Channels /\ p.q = pipe[t].q /\ p.rx = pipe[t].rx /\ p.err = pipe[t].err
        /\ p.cut = pipe[t].cut
        /\ p.tx <=> (pipe[t].tx /\ ~(rel[t].dir = "up" /\ bro[t].puts = 0))
    BY <1>2, <1>5 DEF Channels
  <1>7. ASSUME t \in Uploads PROVE UpFine(r, bro[t], bri[t], p, pump[t], file[t])
    <2>1. UpFine(rel[t], bro[t], bri[t], p, pump[t], file[t])
      BY <1>2, <1>6, <1>7 DEF UpFine
    <2> QED
      BY <1>3, <2>1, QuietFine
  <1>8. ASSUME t \in Downloads PROVE DownFine(t, r, bro[t], bri[t], p, pump[t])
    <2>1. p.tx <=> pipe[t].tx
      BY <1>2, <1>6, <1>8
    <2>2. DownFine(t, rel[t], bro[t], bri[t], p, pump[t])
      BY <1>2, <1>6, <1>8, <2>1 DEF DownFine
    <2> QED
      BY <1>3, <2>2, QuietFine
  <1>9. Put(pipe, pipe', t, p)
    BY <1>1, <1>5 DEF Put
  <1>10. Moves(t, r, bro[t], bri[t], p, pump[t], file[t])
    BY <1>1, <1>2, <1>3, <1>6, <1>7, <1>8, <1>9, Stays DEF Moves
  <1>11. Keeps(t, r, bro[t], bri[t], file[t]) /\ Tells(t, file[t])
    BY <1>1, <1>3, <1>4 DEF Keeps, Tells, Quiet
  <1> QED
    BY <1>10, <1>11, LocalStep

\* A chunk goes into the sink of the Bridge.
LEMMA ConsumeChunkInv ==
    ASSUME TransferInv, NEW t \in Transfers, ConsumeChunk(t)
    PROVE  TransferInv'
  <1>1. /\ bri[t].ph = "stream" /\ rel[t].dir = "up" /\ pipe[t].q > 0
        /\ pipe' = [pipe EXCEPT ![t].q = pipe[t].q - 1]
        /\ bri' = [bri EXCEPT ![t].n = bri[t].n + 1]
        /\ UNCHANGED <<rel, bro, pump, file, toBridge, toRelay>>
    BY DEF ConsumeChunk
  <1>2. /\ t \in Uploads /\ bro[t] \in Requests /\ bri[t] \in Workers /\ pipe[t] \in Channels
        /\ file[t] \in Files /\ UpFine(rel[t], bro[t], bri[t], pipe[t], pump[t], file[t])
        /\ bro[t].n \in 0..Chunks /\ bri[t].n \in 0..Chunks /\ pipe[t].q \in 0..Capacity
    BY <1>1, Here
  <1>3. bro[t].n = pipe[t].q + bri[t].n
    BY <1>2 DEF UpFine
  <1>4. PICK k \in 0..Capacity, n \in 0..Chunks : k = pipe[t].q - 1 /\ n = bri[t].n + 1
    <2>1. pipe[t].q - 1 \in 0..Capacity /\ bri[t].n + 1 \in 0..Chunks
      BY <1>1, <1>2, <1>3, TransferAssumption
    <2> QED
      BY <2>1
  <1>5. PICK p, i : p = [pipe[t] EXCEPT !.q = k] /\ i = [bri[t] EXCEPT !.n = n]
    OBVIOUS
  <1>6. p \in Channels /\ p.q = k /\ p.rx = pipe[t].rx
    BY <1>2, <1>5 DEF Channels
  <1>7. i \in Workers /\ i.n = n /\ i.ph = bri[t].ph
    BY <1>2, <1>5 DEF Workers
  <1>8. bro[t].n = p.q + i.n
    BY <1>2, <1>3, <1>4, <1>6, <1>7
  <1>9. UpFine(rel[t], bro[t], i, p, pump[t], file[t])
    BY <1>1, <1>2, <1>6, <1>7, <1>8 DEF UpFine
  <1>10. Put(pipe, pipe', t, p) /\ Put(bri, bri', t, i)
    BY <1>1, <1>4, <1>5 DEF Put
  <1>11. Keeps(t, rel[t], bro[t], i, file[t]) /\ Tells(t, file[t])
    BY <1>1, <1>7 DEF Keeps, Tells
  <1>12. Put(bro, bro', t, bro[t]) /\ Put(file, file', t, file[t])
    BY <1>1, Stays
  <1> QED
    BY <1>1, <1>2, <1>6, <1>7, <1>9, <1>10, <1>11, <1>12, UploadMoves

\* The end of the body: the Bridge issues a handle for what has arrived.
LEMMA ConsumeEndsInv ==
    ASSUME TransferInv, NEW t \in Transfers, ConsumeEnds(t)
    PROVE  TransferInv'
  <1>1. /\ bri[t].ph = "stream" /\ rel[t].dir = "up" /\ pipe[t].q = 0
        /\ pipe' = [pipe EXCEPT ![t].rx = FALSE]
        /\ bri' = [bri EXCEPT ![t].ph = "done", ![t].tok = "none"]
        /\ toRelay' = Append(toRelay, [kind |-> "completed", id |-> t])
        /\ UNCHANGED <<rel, bro, pump, toBridge>>
    BY DEF ConsumeEnds, Ends
  <1>2. PICK x \in BOOLEAN :
           file' = [file EXCEPT ![t] = [n |-> bri[t].n, inline |-> x,
                                        grant |-> "valid", kept |-> TRUE]]
    BY DEF ConsumeEnds
  <1>3. /\ t \in Uploads /\ bro[t] \in Requests /\ bri[t] \in Workers /\ pipe[t] \in Channels
        /\ file[t] \in Files /\ UpFine(rel[t], bro[t], bri[t], pipe[t], pump[t], file[t])
        /\ bri[t].n \in 0..Chunks
    BY <1>1, Here
  <1>4. PICK p, i, f : /\ p = [pipe[t] EXCEPT !.rx = FALSE]
                       /\ i = [bri[t] EXCEPT !.ph = "done", !.tok = "none"]
                       /\ f = [n |-> bri[t].n, inline |-> x, grant |-> "valid", kept |-> TRUE]
    OBVIOUS
  <1>5. p \in Channels /\ p.q = pipe[t].q /\ p.rx = FALSE
    BY <1>3, <1>4 DEF Channels
  <1>6. i \in Workers /\ i.n = bri[t].n /\ i.ph = "done"
    BY <1>3, <1>4 DEF Workers
  <1>7. f \in Files /\ f.n = bri[t].n /\ f.grant = "valid"
    BY <1>3, <1>4 DEF Files
  <1>8. UpFine(rel[t], bro[t], i, p, pump[t], f)
    <2>1. rel[t].reg # "new"
      BY <1>1, <1>3 DEF UpFine
    <2> QED
      BY <1>1, <1>3, <1>5, <1>6, <1>7, <2>1 DEF UpFine
  <1>9. Put(pipe, pipe', t, p) /\ Put(bri, bri', t, i) /\ Put(file, file', t, f)
    BY <1>1, <1>2, <1>4 DEF Put
  <1>10. Keeps(t, rel[t], bro[t], i, f)
    BY <1>1, <1>6, <1>7 DEF Keeps
  <1>11. Tells(t, f)
    BY <1>1, <1>7 DEF Tells
  <1>12. Put(bro, bro', t, bro[t])
    BY <1>1, Stays
  <1> QED
    BY <1>1, <1>3, <1>5, <1>6, <1>7, <1>8, <1>9, <1>10, <1>11, <1>12, UploadMoves

\* A grant that has expired is a grant that was issued.
LEMMA GrantExpiresInv ==
    ASSUME TransferInv, NEW t \in Transfers, GrantExpires(t)
    PROVE  TransferInv'
  <1>1. /\ file[t].grant = "valid" /\ file' = [file EXCEPT ![t].grant = "expired"]
        /\ UNCHANGED <<rel, bro, bri, pipe, pump, toBridge, toRelay>>
    BY DEF GrantExpires
  <1>2. /\ rel[t] \in Registered /\ bro[t] \in Requests /\ bri[t] \in Workers
        /\ pipe[t] \in Channels /\ pump[t] \in Pumps /\ file[t] \in Files
        /\ t \in Uploads => UpFine(rel[t], bro[t], bri[t], pipe[t], pump[t], file[t])
        /\ t \in Downloads => DownFine(t, rel[t], bro[t], bri[t], pipe[t], pump[t])
    BY Here
  <1>3. PICK f : f = [file[t] EXCEPT !.grant = "expired"]
    OBVIOUS
  <1>4. f \in Files /\ f.grant = "expired" /\ f.n = file[t].n
    BY <1>2, <1>3 DEF Files
  <1>5. t \in Uploads => UpFine(rel[t], bro[t], bri[t], pipe[t], pump[t], f)
    BY <1>1, <1>2, <1>4 DEF UpFine
  <1>6. Put(file, file', t, f)
    BY <1>1, <1>3 DEF Put
  <1>7. Moves(t, rel[t], bro[t], bri[t], pipe[t], pump[t], f)
    BY <1>1, <1>2, <1>4, <1>5, <1>6, Stays DEF Moves
  <1>8. Keeps(t, rel[t], bro[t], bri[t], f) /\ Tells(t, f)
    BY <1>1, <1>4 DEF Keeps, Tells
  <1> QED
    BY <1>7, <1>8, LocalStep

-----------------------------------------------------------------------------
(* Offers and answers.                                                     *)

\* The identity of an order or an answer in a queue.
LEMMA QueuedIds ==
    ASSUME TransferTypes
    PROVE  /\ \A m \in Range(toBridge) : m \in Orders /\ m.id \in Transfers
           /\ \A m \in Range(toRelay) : m \in Answers /\ m.id \in Transfers
  <1>1. Range(toBridge) \subseteq Orders /\ Range(toRelay) \subseteq Answers
    BY DEF TransferTypes, Range
  <1> QED
    BY <1>1 DEF Orders, Answers

\* A transfer is created and offered.
LEMMA Offered ==
    ASSUME TransferInv, NEW t \in Transfers, Create(t, rel[t].dir),
           NEW b \in Requests, Put(bro, bro', t, b), b.n = bro[t].n,
           t \in Uploads => b.ph = "declared",
           t \in Downloads => b.ph = "wait" /\ b.h \in Uploads /\ bro[b.h].ph = "completed",
           UNCHANGED <<bri, pipe, pump, file, toRelay>>
    PROVE  TransferInv'
  <1>1. /\ rel[t].reg = "new" /\ rel' = [rel EXCEPT ![t] = NewTransfer(rel[t].dir)]
        /\ toBridge' = Append(toBridge, [kind |-> "offer", id |-> t])
    BY DEF Create
  <1>2. /\ TransferTypes /\ rel[t] \in Registered /\ bro[t] \in Requests
        /\ t \in Uploads => UpFine(rel[t], bro[t], bri[t], pipe[t], pump[t], file[t])
        /\ t \in Downloads => DownFine(t, rel[t], bro[t], bri[t], pipe[t], pump[t])
        /\ t \in Uploads \/ t \in Downloads
    BY Here
  <1>3. bro[t].ph = "idle" /\ bri[t].ph = "idle"
    BY <1>1, <1>2 DEF UpFine, DownFine
  <1>4. PICK d \in {"down", "up"} : d = rel[t].dir
    BY <1>2 DEF Registered
  <1>5. PICK r : r = NewTransfer(d)
    OBVIOUS
  <1>6. /\ r \in Registered /\ r.dir = d /\ r.reg = "in" /\ r.ack = "none" /\ r.res = "none"
    BY <1>5 DEF NewTransfer, Registered
  <1>7. /\ rel \in [Transfers -> Registered] /\ bro \in [Transfers -> Requests]
        /\ bri \in [Transfers -> Workers] /\ pipe \in [Transfers -> Channels]
        /\ pump \in [Transfers -> Pumps] /\ file \in [Transfers -> Files]
        /\ toBridge \in Seq(Orders) /\ toRelay \in Seq(Answers)
    BY <1>2 DEF TransferTypes
  <1>8. /\ rel' \in [Transfers -> Registered] /\ rel'[t] = r
        /\ \A u \in Transfers : u # t => rel'[u] = rel[u]
    BY <1>1, <1>4, <1>5, <1>6, <1>7
  <1>9. /\ bro' \in [Transfers -> Requests] /\ bro'[t] = b
        /\ \A u \in Transfers : u # t => bro'[u] = bro[u]
    BY <1>7 DEF Put
  <1>10. ASSUME NEW u \in Transfers, bro[u].ph = "completed"
         PROVE  bro'[u].ph = "completed"
    BY <1>3, <1>9, <1>10
  <1>11. ASSUME NEW u \in Uploads
         PROVE  UpFine(rel'[u], bro'[u], bri'[u], pipe'[u], pump'[u], file'[u])
    <2>1. UpFine(rel[u], bro[u], bri[u], pipe[u], pump[u], file[u]) /\ u \in Transfers
      BY UpOrDown DEF TransferInv
    <2>2. CASE u = t
      <3>1. UpFine(r, b, bri[t], pipe[t], pump[t], file[t])
        BY <1>1, <1>3, <1>4, <1>6, <2>1, <2>2 DEF UpFine
      <3> QED
        BY <1>8, <1>9, <2>2, <3>1
    <2> QED
      BY <1>8, <1>9, <2>1, <2>2
  <1>12. ASSUME NEW u \in Downloads
         PROVE  DownFine(u, rel'[u], bro'[u], bri'[u], pipe'[u], pump'[u])
    <2>1. DownFine(u, rel[u], bro[u], bri[u], pipe[u], pump[u]) /\ u \in Transfers
      BY UpOrDown DEF TransferInv
    <2>2. CASE u = t
      <3>1. b.h # t
        BY <1>12, <2>2, UpOrDown
      <3>2. DownFine(t, r, b, bri[t], pipe[t], pump[t])
        BY <1>1, <1>3, <1>4, <1>6, <1>12, <2>1, <2>2, <3>1 DEF DownFine
      <3> QED
        BY <1>8, <1>9, <2>2, <3>2
    <2> QED
      BY <1>8, <1>9, <2>1, <2>2
  <1>13. ASSUME NEW u \in Downloads PROVE HandleFine(u)'
    <2>1. HandleFine(u) /\ u \in Transfers /\ \A v \in Uploads : v \in Transfers
      BY UpOrDown DEF TransferInv
    <2>2. CASE u = t
      BY <1>9, <1>10, <1>13, <2>1, <2>2 DEF HandleFine
    <2>3. CASE u # t
      BY <1>9, <1>10, <2>1, <2>3 DEF HandleFine
    <2> QED
      BY <2>2, <2>3
  <1>14. PICK x \in Orders : x = [kind |-> "offer", id |-> t] /\ x.kind = "offer" /\ x.id = t
    <2>1. [kind |-> "offer", id |-> t] \in Orders
      BY DEF Orders
    <2> QED
      BY <2>1
  <1>15. toBridge' \in Seq(Orders) /\ Range(toBridge') = Range(toBridge) \cup {x}
    BY <1>1, <1>7, <1>14, RangeAppend
  <1>16. ASSUME NEW m \in Range(toBridge), m.kind = "offer"
         PROVE  m.id \in Transfers /\ m.id # t /\ OfferPending(m.id)
    BY <1>1, <1>2, <1>16, QueuedIds DEF TransferInv, OfferPending
  <1>17. OfferedOnce(toBridge')
    BY <1>1, <1>7, <1>14, <1>16, OfferAdded DEF TransferInv
  <1>18. ASSUME NEW m \in Range(toBridge'), m.kind = "offer" PROVE OfferPending(m.id)'
    <2>1. CASE m = x
      <3>1. t \in Downloads => b.h # t
        BY UpOrDown
      <3> QED
        BY <1>3, <1>6, <1>8, <1>9, <1>14, <2>1, <3>1 DEF OfferPending
    <2>2. CASE m \in Range(toBridge)
      BY <1>8, <1>9, <1>16, <1>18, <2>2 DEF OfferPending
    <2> QED
      BY <1>15, <2>1, <2>2
  <1>19. TransferTypes'
    BY <1>7, <1>8, <1>9, <1>15 DEF TransferTypes
  <1> QED
    BY <1>11, <1>12, <1>13, <1>17, <1>18, <1>19 DEF TransferInv

\* A download is created for a handle.
LEMMA StartDownloadInv ==
    ASSUME TransferInv, NEW t \in Transfers, StartDownload(t)
    PROVE  TransferInv'
  <1>1. /\ t \in Downloads /\ Create(t, "down")
        /\ UNCHANGED <<bri, pipe, pump, file, toRelay>>
    BY DEF StartDownload
  <1>2. PICK h \in Handles, q \in Ranges :
           bro' = [bro EXCEPT ![t] = [bro[t] EXCEPT !.ph = "wait", !.h = h, !.req = q]]
    BY DEF StartDownload
  <1>3. h \in Transfers /\ bro[h].ph = "completed"
    BY <1>2 DEF Handles
  <1>4. h \in Uploads
    <2>1. /\ h \in Uploads \/ h \in Downloads
          /\ h \in Downloads => DownFine(h, rel[h], bro[h], bri[h], pipe[h], pump[h])
      BY <1>3, Here
    <2> QED
      BY <1>3, <2>1 DEF DownFine
  <1>5. bro[t] \in Requests /\ rel[t].dir = "down" /\ t \notin Uploads
    BY <1>1, Here, UpOrDown
  <1>6. PICK b : b = [bro[t] EXCEPT !.ph = "wait", !.h = h, !.req = q]
    OBVIOUS
  <1>7. b \in Requests /\ b.ph = "wait" /\ b.h = h /\ b.n = bro[t].n
    BY <1>3, <1>5, <1>6 DEF Requests
  <1>8. Put(bro, bro', t, b)
    BY <1>2, <1>6 DEF Put
  <1> QED
    BY <1>1, <1>3, <1>4, <1>5, <1>7, <1>8, Offered

\* An upload is declared.
LEMMA UploadDeclareInv ==
    ASSUME TransferInv, NEW t \in Transfers, UploadDeclare(t)
    PROVE  TransferInv'
  <1>1. /\ t \in Uploads /\ Create(t, "up") /\ bro' = [bro EXCEPT ![t].ph = "declared"]
        /\ UNCHANGED <<bri, pipe, pump, file, toRelay>>
    BY DEF UploadDeclare
  <1>2. bro[t] \in Requests /\ rel[t].dir = "up" /\ t \notin Downloads
    BY <1>1, Here, UpOrDown
  <1>3. PICK b : b = [bro[t] EXCEPT !.ph = "declared"]
    OBVIOUS
  <1>4. b \in Requests /\ b.ph = "declared" /\ b.n = bro[t].n
    BY <1>2, <1>3 DEF Requests
  <1>5. Put(bro, bro', t, b)
    BY <1>1, <1>3 DEF Put
  <1> QED
    BY <1>1, <1>2, <1>4, <1>5, Offered

\* The Bridge takes an order: it starts its task, refuses, or cancels a token.
LEMMA OrderTaken ==
    ASSUME TransferInv, toBridge # <<>>, toBridge' = Tail(toBridge),
           NEW t, t = Head(toBridge).id,
           NEW i \in Workers, Put(bri, bri', t, i),
           Head(toBridge).kind = "offer" \/ i.ph = bri[t].ph,
           t \in Uploads => UpFine(rel[t], bro[t], i, pipe[t], pump[t], file[t]),
           t \in Downloads => DownFine(t, rel[t], bro[t], i, pipe[t], pump[t]),
           toRelay' = toRelay \/ toRelay' = Append(toRelay, [kind |-> "reject", id |-> t]),
           UNCHANGED <<rel, bro, pipe, pump, file>>
    PROVE  TransferInv'
  <1>1. /\ rel \in [Transfers -> Registered] /\ bro \in [Transfers -> Requests]
        /\ bri \in [Transfers -> Workers] /\ pipe \in [Transfers -> Channels]
        /\ pump \in [Transfers -> Pumps] /\ file \in [Transfers -> Files]
        /\ toBridge \in Seq(Orders) /\ toRelay \in Seq(Answers) /\ TransferTypes
    BY DEF TransferInv, TransferTypes
  <1>2. /\ Head(toBridge) \in Range(toBridge) /\ toBridge' \in Seq(Orders)
        /\ \A m \in Range(toBridge') : m \in Range(toBridge)
    BY <1>1, RangeSplit
  <1>3. t \in Transfers
    BY <1>1, <1>2, QueuedIds
  <1>4. /\ bri' \in [Transfers -> Workers] /\ bri'[t] = i
        /\ \A u \in Transfers : u # t => bri'[u] = bri[u]
    BY <1>1, <1>3 DEF Put
  <1>5. /\ toRelay' \in Seq(Answers)
        /\ \A m \in Range(toRelay') : m \in Range(toRelay) \/ m.kind = "reject"
    <2>1. CASE toRelay' = toRelay
      BY <1>1, <2>1
    <2>2. CASE toRelay' = Append(toRelay, [kind |-> "reject", id |-> t])
      <3>1. PICK x \in Answers : x = [kind |-> "reject", id |-> t] /\ x.kind = "reject"
        <4>1. [kind |-> "reject", id |-> t] \in Answers
          BY <1>3 DEF Answers
        <4> QED
          BY <4>1
      <3>2. Range(toRelay') = Range(toRelay) \cup {x} /\ toRelay' \in Seq(Answers)
        BY <1>1, <2>2, <3>1, RangeAppend
      <3> QED
        BY <3>1, <3>2
    <2> QED
      BY <2>1, <2>2
  <1>6. /\ OfferedOnce(toBridge')
        /\ Head(toBridge).kind = "offer" =>
             \A m \in Range(toBridge') : m.kind = "offer" => m.id # t
    BY <1>1, OfferTaken DEF TransferInv
  <1>7. ASSUME NEW m \in Range(toBridge'), m.kind = "offer" PROVE OfferPending(m.id)'
    <2>1. OfferPending(m.id) /\ m.id \in Transfers
      BY <1>1, <1>2, <1>7, QueuedIds DEF TransferInv
    <2>2. bri'[m.id].ph = bri[m.id].ph
      <3>1. CASE m.id = t
        BY <1>4, <1>6, <1>7, <3>1
      <3> QED
        BY <1>4, <2>1, <3>1
    <2> QED
      BY <2>1, <2>2 DEF OfferPending
  <1>8. ASSUME NEW u \in Uploads
        PROVE  UpFine(rel[u], bro[u], bri'[u], pipe[u], pump[u], file[u])
    <2>1. UpFine(rel[u], bro[u], bri[u], pipe[u], pump[u], file[u]) /\ u \in Transfers
      BY UpOrDown DEF TransferInv
    <2>2. CASE u = t
      BY <1>4, <1>8, <2>2
    <2> QED
      BY <1>4, <2>1, <2>2
  <1>9. ASSUME NEW u \in Downloads
        PROVE  DownFine(u, rel[u], bro[u], bri'[u], pipe[u], pump[u])
    <2>1. DownFine(u, rel[u], bro[u], bri[u], pipe[u], pump[u]) /\ u \in Transfers
      BY UpOrDown DEF TransferInv
    <2>2. CASE u = t
      BY <1>4, <1>9, <2>2
    <2> QED
      BY <1>4, <2>1, <2>2
  <1>10. ASSUME NEW u \in Downloads PROVE HandleFine(u)'
    BY DEF TransferInv, HandleFine
  <1>11. \A m \in Range(toRelay') :
            m.kind = "completed" /\ m.id \in Uploads => file[m.id].grant # "none"
    BY <1>5 DEF TransferInv
  <1>12. TransferTypes'
    BY <1>1, <1>2, <1>4, <1>5 DEF TransferTypes
  <1> QED
    BY <1>6, <1>7, <1>8, <1>9, <1>10, <1>11, <1>12 DEF TransferInv

\* A slice is an interval.
LEMMA Segment ==
    ASSUME NEW a \in Nat, NEW n \in Nat
    PROVE  {a + k : k \in 0..(n - 1)} = a..(a + n - 1)
  <1>1. ASSUME NEW x \in a..(a + n - 1) PROVE x \in {a + k : k \in 0..(n - 1)}
    <2>1. x - a \in 0..(n - 1) /\ x = a + (x - a)
      BY <1>1
    <2> QED
      BY <2>1
  <1>2. ASSUME NEW k \in 0..(n - 1) PROVE a + k \in a..(a + n - 1)
    BY <1>2
  <1> QED
    BY <1>1, <1>2

\* open_slice of a whole file: what the Range of the request asked for.
LEMMA SliceAsked ==
    ASSUME NEW f \in Files, f.n = Chunks, NEW q \in Ranges, OpenSlice(f, q).ok
    PROVE  /\ OpenSlice(f, q).off \in 0..Chunks /\ OpenSlice(f, q).len \in 0..Chunks
           /\ OpenSlice(f, q).ranged \in BOOLEAN
           /\ Sliced(OpenSlice(f, q).off, OpenSlice(f, q).len, q)
  <1>1. Chunks \in Nat
    BY TransferAssumption
  <1>2. PICK a \in 0..Chunks, e \in -1..Chunks : q.start = a /\ q.end = e
    <2>1. CASE q = NoRange
      BY <1>1, <2>1 DEF NoRange
    <2>2. CASE q # NoRange
      BY <2>2 DEF Ranges
    <2> QED
      BY <2>1, <2>2
  <1>3. CASE RangeHeaderOf(q, Chunks)
    <2>1. PICK z : z = (IF e = -1 \/ e > Chunks - 1 THEN Chunks - 1 ELSE e) - a + 1
      OBVIOUS
    <2>2. /\ OpenSlice(f, q).off = a /\ OpenSlice(f, q).len = z /\ OpenSlice(f, q).ranged = TRUE
          /\ a < Chunks /\ (e = -1 \/ e >= a)
      BY <1>2, <1>3, <2>1 DEF OpenSlice, ParseSingleRange, Open
    <2>3. z \in 0..Chunks
      BY <1>1, <2>1, <2>2
    <2>4. {a + k : k \in 0..(z - 1)} = a..(a + z - 1)
      BY <1>1, <2>3, Segment
    <2>5. Asked(q, Chunks) = {x \in 0..(Chunks - 1) : x >= a /\ (e = -1 \/ x <= e)}
      BY <1>2 DEF Asked, Open
    <2>6. Asked(q, Chunks) = a..(a + z - 1)
      BY <1>1, <2>1, <2>2, <2>5
    <2> QED
      BY <2>2, <2>3, <2>4, <2>6 DEF Sliced
  <1>4. CASE ~RangeHeaderOf(q, Chunks)
    <2>1. OpenSlice(f, q).off = 0 /\ OpenSlice(f, q).len = Chunks /\ OpenSlice(f, q).ranged = FALSE
      BY <1>4 DEF OpenSlice
    <2>2. a = 0 /\ (e = -1 \/ e + 1 >= Chunks)
      BY <1>2, <1>4 DEF RangeHeaderOf, Open
    <2>3. {0 + k : k \in 0..(Chunks - 1)} = 0..(0 + Chunks - 1)
      BY <1>1, Segment
    <2>4. Asked(q, Chunks) = {x \in 0..(Chunks - 1) : x >= a /\ (e = -1 \/ x <= e)}
      BY <1>2 DEF Asked, Open
    <2>5. Asked(q, Chunks) = 0..(0 + Chunks - 1)
      BY <1>1, <2>2, <2>4
    <2>6. Sliced(0, Chunks, q)
      BY <2>3, <2>5 DEF Sliced
    <2>7. 0 \in 0..Chunks /\ Chunks \in 0..Chunks
      BY <1>1
    <2> QED
      BY <2>1, <2>6, <2>7
  <1> QED
    BY <1>3, <1>4

\* The handle of a completed upload stands for the whole file.
LEMMA WholeFile ==
    ASSUME TransferInv, NEW t \in Transfers, bro[t].ph = "completed"
    PROVE  t \in Uploads /\ file[t].grant # "none" /\ file[t].n = Chunks
  <1>1. /\ t \in Uploads => UpFine(rel[t], bro[t], bri[t], pipe[t], pump[t], file[t])
        /\ t \in Downloads => DownFine(t, rel[t], bro[t], bri[t], pipe[t], pump[t])
        /\ t \in Uploads \/ t \in Downloads
    BY Here
  <1>2. t \in Uploads
    BY <1>1 DEF DownFine
  <1>3. /\ bro[t].n = Chunks /\ bro[t].n = pipe[t].q + bri[t].n
        /\ file[t].grant # "none" /\ pipe[t].q = 0 /\ file[t].n = bri[t].n
    BY <1>1, <1>2 DEF UpFine
  <1>4. bri[t].n \in 0..Chunks
    BY Here
  <1> QED
    BY <1>2, <1>3, <1>4, TransferAssumption

\* The Bridge receives an offer or a cancellation.
LEMMA BridgeReceivesInv ==
    ASSUME TransferInv, BridgeReceives
    PROVE  TransferInv'
  <1>1. /\ toBridge # <<>> /\ toBridge' = Tail(toBridge)
        /\ UNCHANGED <<rel, bro, pipe, pump, file>>
    BY DEF BridgeReceives
  <1>2. toBridge \in Seq(Orders) /\ TransferTypes
    BY DEF TransferInv, TransferTypes
  <1>3. PICK t : t = Head(toBridge).id
    OBVIOUS
  <1>4. Head(toBridge) \in Range(toBridge)
    BY <1>1, <1>2, RangeSplit
  <1>5. t \in Transfers
    BY <1>2, <1>3, <1>4, QueuedIds
  <1>6. /\ rel[t] \in Registered /\ bro[t] \in Requests /\ bri[t] \in Workers
        /\ t \in Uploads => UpFine(rel[t], bro[t], bri[t], pipe[t], pump[t], file[t])
        /\ t \in Downloads => DownFine(t, rel[t], bro[t], bri[t], pipe[t], pump[t])
        /\ t \in Uploads <=> rel[t].dir = "up"
        /\ t \in Downloads <=> rel[t].dir = "down"
        /\ t \in Uploads \/ t \in Downloads
    BY <1>5, Here
  <1>7. CASE Refuse(t)
    <2>1. Put(bri, bri', t, bri[t]) /\ toRelay' = Append(toRelay, [kind |-> "reject", id |-> t])
      BY <1>5, <1>7, Stays DEF Refuse
    <2>2. CASE Head(toBridge).kind = "offer"
      BY <1>1, <1>3, <1>6, <2>1, <2>2, OrderTaken
    <2> QED
      BY <1>1, <1>3, <1>6, <2>1, OrderTaken
  <1>8. CASE Head(toBridge).kind = "cancel"
    <2>1. /\ bri' = [bri EXCEPT ![t].tok = IF bri[t].tok = "live" THEN "cancelled" ELSE bri[t].tok]
          /\ toRelay' = toRelay
      BY <1>3, <1>8 DEF BridgeReceives
    <2>2. PICK x \in {"none", "live", "cancelled"} :
             x = (IF bri[t].tok = "live" THEN "cancelled" ELSE bri[t].tok)
      BY <1>6 DEF Workers
    <2>3. PICK i : i = [bri[t] EXCEPT !.tok = x]
      OBVIOUS
    <2>4. /\ i \in Workers /\ i.ph = bri[t].ph /\ i.n = bri[t].n /\ i.off = bri[t].off
          /\ i.len = bri[t].len
      BY <1>6, <2>3 DEF Workers
    <2>5. Put(bri, bri', t, i)
      BY <2>1, <2>2, <2>3 DEF Put
    <2>6. t \in Uploads => UpFine(rel[t], bro[t], i, pipe[t], pump[t], file[t])
      BY <1>6, <2>4 DEF UpFine
    <2>7. t \in Downloads => DownFine(t, rel[t], bro[t], i, pipe[t], pump[t])
      BY <1>6, <2>4 DEF DownFine
    <2> QED
      BY <1>1, <1>3, <2>1, <2>4, <2>5, <2>6, <2>7, OrderTaken
  <1>9. ASSUME Head(toBridge).kind = "offer" PROVE OfferPending(t)
    BY <1>3, <1>4, <1>9 DEF TransferInv
  <1>10. CASE Head(toBridge).kind = "offer" /\ t \in Uploads /\ HandleUpload(t) /\ ~Refuse(t)
    <2>1. /\ bri' = [bri EXCEPT ![t] = [bri[t] EXCEPT !.ph = "connect", !.tok = "live"]]
          /\ toRelay' = toRelay
      BY <1>10 DEF HandleUpload
    <2>2. PICK i : i = [bri[t] EXCEPT !.ph = "connect", !.tok = "live"]
      OBVIOUS
    <2>3. i \in Workers /\ i.ph = "connect" /\ i.n = bri[t].n
      BY <1>6, <2>2 DEF Workers
    <2>4. Put(bri, bri', t, i)
      BY <2>1, <2>2 DEF Put
    <2>5. UpFine(rel[t], bro[t], i, pipe[t], pump[t], file[t])
      BY <1>6, <1>9, <1>10, <2>3 DEF UpFine, OfferPending
    <2>6. t \notin Downloads
      BY <1>10, UpOrDown
    <2> QED
      BY <1>1, <1>3, <1>10, <2>1, <2>3, <2>4, <2>5, <2>6, OrderTaken
  <1>11. CASE Head(toBridge).kind = "offer" /\ t \in Downloads /\ HandleDownload(t) /\ ~Refuse(t)
    <2>1. PICK h, s : h = bro[t].h /\ s = OpenSlice(file[h], bro[t].req)
      OBVIOUS
    <2>2. /\ s.ok /\ toRelay' = toRelay
          /\ bri' = [bri EXCEPT ![t] = [bri[t] EXCEPT !.ph = "connect", !.tok = "live",
                                         !.len = s.len, !.off = s.off, !.ranged = s.ranged]]
      BY <1>11, <2>1 DEF HandleDownload
    <2>3. h \in Transfers /\ bro[h].ph = "completed"
      <3>1. h # t /\ HandleFine(t)
        BY <1>9, <1>11, <2>1 DEF TransferInv, OfferPending
      <3> QED
        BY <2>1, <3>1, UpOrDown DEF HandleFine
    <2>4. file[h] \in Files /\ file[h].n = Chunks
      BY <2>3, WholeFile, Here
    <2>5. bro[t].req \in Ranges
      BY <1>6 DEF Requests
    <2>6. /\ s.off \in 0..Chunks /\ s.len \in 0..Chunks /\ s.ranged \in BOOLEAN
          /\ Sliced(s.off, s.len, bro[t].req)
      BY <2>1, <2>2, <2>4, <2>5, SliceAsked
    <2>7. PICK i : i = [bri[t] EXCEPT !.ph = "connect", !.tok = "live",
                                      !.len = s.len, !.off = s.off, !.ranged = s.ranged]
      OBVIOUS
    <2>8. i \in Workers /\ i.ph = "connect" /\ i.n = bri[t].n /\ i.len = s.len /\ i.off = s.off
      BY <1>6, <2>6, <2>7 DEF Workers
    <2>9. Put(bri, bri', t, i)
      BY <2>2, <2>7 DEF Put
    <2>10. /\ bri[t].ph = "idle" /\ rel[t].reg # "new" /\ pump[t] = "none" /\ bri[t].n = 0
           /\ rel[t].ack = "none"
      BY <1>6, <1>9, <1>11 DEF OfferPending, DownFine
    <2>11. i.n <= i.len
      BY <2>6, <2>8, <2>10, TransferAssumption
    <2>12. DownFine(t, rel[t], bro[t], i, pipe[t], pump[t])
      BY <1>6, <1>11, <2>6, <2>8, <2>10, <2>11 DEF DownFine
    <2>13. t \notin Uploads
      BY <1>11, UpOrDown
    <2> QED
      BY <1>1, <1>3, <1>11, <2>2, <2>8, <2>9, <2>12, <2>13, OrderTaken
  <1>12. \/ Head(toBridge).kind = "cancel"
         \/ /\ Head(toBridge).kind = "offer"
            /\ IF rel[t].dir = "down" THEN HandleDownload(t) ELSE HandleUpload(t)
    BY <1>3 DEF BridgeReceives
  <1> QED
    BY <1>6, <1>7, <1>8, <1>10, <1>11, <1>12

\* The Relay takes an answer.
LEMMA AnswerTaken ==
    ASSUME TransferInv, toRelay # <<>>, toRelay' = Tail(toRelay), NEW t \in Transfers,
           NEW r \in Registered, Put(rel, rel', t, r), r.reg = "new" <=> rel[t].reg = "new",
           t \in Uploads => UpFine(r, bro[t], bri[t], pipe[t], pump[t], file[t]),
           t \in Downloads => DownFine(t, r, bro[t], bri[t], pipe[t], pump[t]),
           UNCHANGED <<bro, bri, pipe, pump, file, toBridge>>
    PROVE  TransferInv'
  <1>1. /\ rel \in [Transfers -> Registered] /\ bro \in [Transfers -> Requests]
        /\ bri \in [Transfers -> Workers] /\ pipe \in [Transfers -> Channels]
        /\ pump \in [Transfers -> Pumps] /\ file \in [Transfers -> Files]
        /\ toBridge \in Seq(Orders) /\ toRelay \in Seq(Answers) /\ TransferTypes
    BY DEF TransferInv, TransferTypes
  <1>2. toRelay' \in Seq(Answers) /\ \A m \in Range(toRelay') : m \in Range(toRelay)
    BY <1>1, RangeSplit
  <1>3. /\ rel' \in [Transfers -> Registered] /\ rel'[t] = r
        /\ \A u \in Transfers : u # t => rel'[u] = rel[u]
    BY <1>1 DEF Put
  <1>4. ASSUME NEW m \in Range(toBridge), m.kind = "offer" PROVE OfferPending(m.id)'
    <2>1. OfferPending(m.id) /\ m.id \in Transfers
      BY <1>1, <1>4, QueuedIds DEF TransferInv
    <2>2. rel'[m.id].reg # "new"
      <3>1. CASE m.id = t
        BY <1>3, <2>1, <3>1 DEF OfferPending
      <3> QED
        BY <1>3, <2>1, <3>1 DEF OfferPending
    <2> QED
      BY <2>1, <2>2 DEF OfferPending
  <1>5. ASSUME NEW u \in Uploads
        PROVE  UpFine(rel'[u], bro[u], bri[u], pipe[u], pump[u], file[u])
    <2>1. UpFine(rel[u], bro[u], bri[u], pipe[u], pump[u], file[u]) /\ u \in Transfers
      BY UpOrDown DEF TransferInv
    <2>2. CASE u = t
      BY <1>3, <1>5, <2>2
    <2> QED
      BY <1>3, <2>1, <2>2
  <1>6. ASSUME NEW u \in Downloads
        PROVE  DownFine(u, rel'[u], bro[u], bri[u], pipe[u], pump[u])
    <2>1. DownFine(u, rel[u], bro[u], bri[u], pipe[u], pump[u]) /\ u \in Transfers
      BY UpOrDown DEF TransferInv
    <2>2. CASE u = t
      BY <1>3, <1>6, <2>2
    <2> QED
      BY <1>3, <2>1, <2>2
  <1>7. ASSUME NEW u \in Downloads PROVE HandleFine(u)'
    BY DEF TransferInv, HandleFine
  <1>8. \A m \in Range(toRelay') :
           m.kind = "completed" /\ m.id \in Uploads => file[m.id].grant # "none"
    BY <1>2 DEF TransferInv
  <1>9. TransferTypes'
    BY <1>1, <1>2, <1>3 DEF TransferTypes
  <1>10. OfferedOnce(toBridge)
    BY DEF TransferInv
  <1> QED
    BY <1>4, <1>5, <1>6, <1>7, <1>8, <1>9, <1>10 DEF TransferInv

\* A refusal cancels the transfer, a result completes it.
LEMMA RelayReceivesInv ==
    ASSUME TransferInv, RelayReceives
    PROVE  TransferInv'
  <1>1. /\ toRelay # <<>> /\ toRelay' = Tail(toRelay)
        /\ UNCHANGED <<bro, bri, pipe, pump, file, toBridge>>
    BY DEF RelayReceives
  <1>2. toRelay \in Seq(Answers) /\ TransferTypes
    BY DEF TransferInv, TransferTypes
  <1>3. PICK m : m = Head(toRelay)
    OBVIOUS
  <1>4. m \in Range(toRelay)
    BY <1>1, <1>2, <1>3, RangeSplit
  <1>5. PICK t \in Transfers : t = m.id
    BY <1>2, <1>4, QueuedIds
  <1>6. m.kind \in {"reject", "failed", "completed", "cancelled"}
    <2>1. m \in Answers
      BY <1>2, <1>4, QueuedIds
    <2> QED
      BY <2>1 DEF Answers
  <1>7. /\ rel[t] \in Registered
        /\ t \in Uploads => UpFine(rel[t], bro[t], bri[t], pipe[t], pump[t], file[t])
        /\ t \in Downloads => DownFine(t, rel[t], bro[t], bri[t], pipe[t], pump[t])
    BY Here
  <1>8. \/ ~InReg(t) /\ rel' = rel
        \/ m.kind = "reject" /\ rel' = [rel EXCEPT ![t] = Cancel(rel[t])]
        \/ /\ m.kind # "reject"
           /\ rel' = [rel EXCEPT ![t] = WithResult(rel[t], m.kind)]
    BY <1>3, <1>5 DEF RelayReceives
  <1>9. CASE rel' = rel
    BY <1>1, <1>7, <1>9, Stays, AnswerTaken
  <1>10. CASE m.kind = "reject" /\ rel' = [rel EXCEPT ![t] = Cancel(rel[t])]
    <2>1. PICK r : r = Cancel(rel[t])
      OBVIOUS
    <2>2. Quiet(rel[t], r) /\ r.reg = rel[t].reg
      BY <1>7, <2>1, CancelQuiet
    <2>3. r \in Registered
      BY <2>2 DEF Quiet
    <2>4. Put(rel, rel', t, r)
      BY <1>10, <2>1 DEF Put
    <2>5. /\ t \in Uploads => UpFine(r, bro[t], bri[t], pipe[t], pump[t], file[t])
          /\ t \in Downloads => DownFine(t, r, bro[t], bri[t], pipe[t], pump[t])
      BY <1>7, <2>2, QuietFine
    <2> QED
      BY <1>1, <2>2, <2>3, <2>4, <2>5, AnswerTaken
  <1>11. CASE m.kind # "reject" /\ rel' = [rel EXCEPT ![t] = WithResult(rel[t], m.kind)]
    <2>1. PICK c : c = Complete(rel[t])
      OBVIOUS
    <2>2. Quiet(rel[t], c) /\ c.reg = rel[t].reg /\ c.res = rel[t].res
      BY <1>7, <2>1, CompleteQuiet
    <2>3. c \in Registered
      BY <2>2 DEF Quiet
    <2>4. PICK x \in {"none", "completed", "failed", "cancelled"} :
             x = (IF c.res = "none" THEN m.kind ELSE c.res)
      BY <1>6, <1>11, <2>3 DEF Registered
    <2>5. PICK r : r = [c EXCEPT !.res = x]
      OBVIOUS
    <2>6. /\ r \in Registered /\ r.dir = c.dir /\ r.reg = c.reg /\ r.res = x /\ r.ack = c.ack
          /\ r.hand = c.hand
      BY <2>3, <2>5 DEF Registered
    <2>7. Put(rel, rel', t, r)
      BY <1>11, <2>1, <2>4, <2>5 DEF Put, WithResult
    <2>8. ASSUME t \in Uploads PROVE UpFine(r, bro[t], bri[t], pipe[t], pump[t], file[t])
      <3>1. UpFine(c, bro[t], bri[t], pipe[t], pump[t], file[t])
        BY <1>7, <2>2, <2>8, QuietFine
      <3>2. m.kind = "completed" => file[t].grant # "none"
        BY <1>4, <1>5, <2>8 DEF TransferInv
      <3> QED
        BY <2>4, <2>6, <3>1, <3>2 DEF UpFine
    <2>9. ASSUME t \in Downloads PROVE DownFine(t, r, bro[t], bri[t], pipe[t], pump[t])
      <3>1. DownFine(t, c, bro[t], bri[t], pipe[t], pump[t])
        BY <1>7, <2>2, <2>9, QuietFine
      <3> QED
        BY <2>6, <3>1 DEF DownFine
    <2> QED
      BY <1>1, <2>2, <2>6, <2>7, <2>8, <2>9, AnswerTaken
  <1> QED
    BY <1>8, <1>9, <1>10, <1>11

-----------------------------------------------------------------------------
(* What befalls all transfers at once.                                     *)

\* Messages are lost, the Bridge forgets its tasks and its grants.
LEMMA AllAtOnce ==
    ASSUME TransferInv, UNCHANGED <<rel, bro, pump>>,
           bri' \in [Transfers -> Workers], pipe' \in [Transfers -> Channels],
           file' \in [Transfers -> Files],
           toBridge' = <<>> \/ (toBridge' = toBridge /\ bri' = bri),
           toRelay' \in Seq(Answers), Range(toRelay') \subseteq Range(toRelay),
           \A t \in Transfers : file[t].grant # "none" => file'[t].grant # "none",
           \A t \in Uploads : UpFine(rel[t], bro[t], bri'[t], pipe'[t], pump[t], file'[t]),
           \A t \in Downloads : DownFine(t, rel[t], bro[t], bri'[t], pipe'[t], pump[t])
    PROVE  TransferInv'
  <1>1. TransferTypes'
    <2>1. <<>> \in Seq(Orders)
      OBVIOUS
    <2> QED
      BY <2>1 DEF TransferInv, TransferTypes
  <1>2. \A u \in Downloads : HandleFine(u)'
    BY DEF TransferInv, HandleFine
  <1>3. (\A m \in Range(toBridge') : m.kind = "offer" => OfferPending(m.id)')
        /\ OfferedOnce(toBridge')
    <2>1. CASE toBridge' = <<>>
      BY <2>1, RangeEmpty DEF OfferedOnce
    <2>2. CASE toBridge' = toBridge /\ bri' = bri
      BY <2>2 DEF TransferInv, OfferPending
    <2> QED
      BY <2>1, <2>2
  <1>4. \A m \in Range(toRelay') :
           m.kind = "completed" /\ m.id \in Uploads => file'[m.id].grant # "none"
    BY UpOrDown DEF TransferInv
  <1> QED
    BY <1>1, <1>2, <1>3, <1>4 DEF TransferInv

\* The uploads whose grants have expired are removed.
LEMMA SweepUploadsInv ==
    ASSUME TransferInv, SweepUploads
    PROVE  TransferInv'
  <1>1. /\ file' = [t \in Transfers |->
                      IF file[t].grant = "expired" THEN [file[t] EXCEPT !.kept = FALSE]
                      ELSE file[t]]
        /\ UNCHANGED <<rel, bro, bri, pipe, pump, toBridge, toRelay>>
    BY DEF SweepUploads
  <1>2. /\ bri \in [Transfers -> Workers] /\ pipe \in [Transfers -> Channels]
        /\ file \in [Transfers -> Files] /\ toRelay \in Seq(Answers)
    BY DEF TransferInv, TransferTypes
  <1>3. ASSUME NEW t \in Transfers
        PROVE  file'[t] \in Files /\ file'[t].grant = file[t].grant /\ file'[t].n = file[t].n
    <2>1. file[t] \in Files
      BY <1>2
    <2>2. CASE file[t].grant = "expired"
      <3>1. file'[t] = [file[t] EXCEPT !.kept = FALSE]
        BY <1>1, <2>2
      <3> QED
        BY <2>1, <3>1 DEF Files
    <2> QED
      BY <1>1, <2>1, <2>2
  <1>4. file' \in [Transfers -> Files]
    BY <1>1, <1>3
  <1>5. ASSUME NEW t \in Uploads
        PROVE  UpFine(rel[t], bro[t], bri[t], pipe[t], pump[t], file'[t])
    <2>1. UpFine(rel[t], bro[t], bri[t], pipe[t], pump[t], file[t]) /\ t \in Transfers
      BY UpOrDown DEF TransferInv
    <2> QED
      BY <1>3, <2>1 DEF UpFine
  <1>6. \A t \in Downloads : DownFine(t, rel[t], bro[t], bri[t], pipe[t], pump[t])
    BY DEF TransferInv
  <1> QED
    BY <1>1, <1>2, <1>3, <1>4, <1>5, <1>6, AllAtOnce

\* The connection drops.
LEMMA LinkDropsInv ==
    ASSUME TransferInv, LinkDrops
    PROVE  TransferInv'
  <1>1. toBridge' = <<>> /\ UNCHANGED <<rel, bro, bri, pipe, pump, file>>
    BY DEF LinkDrops
  <1>2. PICK k \in 0..Len(toRelay) : toRelay' = SubSeq(toRelay, k + 1, Len(toRelay))
    BY DEF LinkDrops
  <1>3. /\ bri \in [Transfers -> Workers] /\ pipe \in [Transfers -> Channels]
        /\ file \in [Transfers -> Files] /\ toRelay \in Seq(Answers)
    BY DEF TransferInv, TransferTypes
  <1>4. toRelay' \in Seq(Answers) /\ Range(toRelay') \subseteq Range(toRelay)
    <2>1. Len(toRelay) \in Nat /\ k \in Nat /\ k <= Len(toRelay)
      BY <1>3
    <2>2. \A j \in (k + 1)..Len(toRelay) : j \in 1..Len(toRelay) /\ toRelay[j] \in Answers
      BY <1>3, <2>1
    <2>3. /\ toRelay' \in Seq(Answers)
          /\ Len(toRelay') = Len(toRelay) - k
          /\ \A j \in 1..(Len(toRelay) - k) : toRelay'[j] = toRelay[k + j]
      BY <1>2, <1>3, <2>1, <2>2
    <2>4. \A j \in 1..(Len(toRelay) - k) : k + j \in 1..Len(toRelay)
      BY <2>1
    <2>5. ASSUME NEW x \in Range(toRelay') PROVE x \in Range(toRelay)
      <3>1. PICK j \in 1..(Len(toRelay) - k) : x = toRelay'[j]
        BY <2>3 DEF Range
      <3>2. x = toRelay[k + j] /\ k + j \in DOMAIN toRelay
        BY <1>3, <2>3, <2>4, <3>1
      <3> QED
        BY <3>2 DEF Range
    <2> QED
      BY <2>3, <2>5
  <1>5. /\ \A t \in Uploads : UpFine(rel[t], bro[t], bri[t], pipe[t], pump[t], file[t])
        /\ \A t \in Downloads : DownFine(t, rel[t], bro[t], bri[t], pipe[t], pump[t])
    BY DEF TransferInv
  <1> QED
    BY <1>1, <1>3, <1>4, <1>5, AllAtOnce

\* The Bridge restarts.
LEMMA BridgeRestartsInv ==
    ASSUME TransferInv, BridgeRestarts
    PROVE  TransferInv'
  <1>1. /\ toBridge' = <<>> /\ toRelay' = <<>> /\ UNCHANGED <<rel, bro, pump>>
        /\ bri' = [t \in Transfers |->
                     IF Active(t) THEN [bri[t] EXCEPT !.ph = "done", !.tok = "none"] ELSE bri[t]]
        /\ pipe' = [t \in Transfers |->
                      IF Active(t) /\ rel[t].dir = "up" THEN [pipe[t] EXCEPT !.rx = FALSE]
                      ELSE pipe[t]]
        /\ file' = [t \in Transfers |->
                      IF file[t].grant = "valid" THEN [file[t] EXCEPT !.grant = "expired"]
                      ELSE file[t]]
    BY DEF BridgeRestarts
  <1>2. ASSUME NEW t \in Transfers
        PROVE  /\ bri'[t] \in Workers
               /\ bri'[t].ph = bri[t].ph \/ (bri[t].ph # "idle" /\ bri'[t].ph = "done")
               /\ bri'[t].n = bri[t].n /\ bri'[t].off = bri[t].off /\ bri'[t].len = bri[t].len
    <2>1. bri[t] \in Workers
      BY Here
    <2>2. CASE Active(t)
      <3>1. bri'[t] = [bri[t] EXCEPT !.ph = "done", !.tok = "none"] /\ bri[t].ph # "idle"
        BY <1>1, <2>2 DEF Active
      <3> QED
        BY <2>1, <3>1 DEF Workers
    <2> QED
      BY <1>1, <2>1, <2>2
  <1>3. ASSUME NEW t \in Transfers
        PROVE  /\ pipe'[t] \in Channels /\ pipe'[t].q = pipe[t].q
               /\ t \in Uploads => (pipe'[t].rx = pipe[t].rx \/ ~pipe'[t].rx)
               /\ t \in Downloads => pipe'[t] = pipe[t]
    <2>1. pipe[t] \in Channels /\ (t \in Downloads => rel[t].dir # "up")
      <3>1. t \in Downloads => t \notin Uploads
        BY UpOrDown
      <3> QED
        BY <3>1, Here
    <2>2. CASE Active(t) /\ rel[t].dir = "up"
      <3>1. pipe'[t] = [pipe[t] EXCEPT !.rx = FALSE]
        BY <1>1, <2>2
      <3> QED
        BY <2>1, <2>2, <3>1 DEF Channels
    <2> QED
      BY <1>1, <2>1, <2>2
  <1>4. ASSUME NEW t \in Transfers
        PROVE  /\ file'[t] \in Files /\ file'[t].n = file[t].n
               /\ file'[t].grant # "none" <=> file[t].grant # "none"
    <2>1. file[t] \in Files
      BY Here
    <2>2. CASE file[t].grant = "valid"
      <3>1. file'[t] = [file[t] EXCEPT !.grant = "expired"]
        BY <1>1, <2>2
      <3> QED
        BY <2>1, <2>2, <3>1 DEF Files
    <2> QED
      BY <1>1, <2>1, <2>2
  <1>5. /\ bri' \in [Transfers -> Workers] /\ pipe' \in [Transfers -> Channels]
        /\ file' \in [Transfers -> Files]
    BY <1>1, <1>2, <1>3, <1>4
  <1>6. toRelay' \in Seq(Answers) /\ Range(toRelay') \subseteq Range(toRelay)
    <2>1. <<>> \in Seq(Answers)
      OBVIOUS
    <2> QED
      BY <1>1, <2>1, RangeEmpty
  <1>7. ASSUME NEW t \in Uploads
        PROVE  UpFine(rel[t], bro[t], bri'[t], pipe'[t], pump[t], file'[t])
    <2>1. UpFine(rel[t], bro[t], bri[t], pipe[t], pump[t], file[t]) /\ t \in Transfers
      BY UpOrDown DEF TransferInv
    <2> QED
      BY <1>2, <1>3, <1>4, <2>1 DEF UpFine
  <1>8. ASSUME NEW t \in Downloads
        PROVE  DownFine(t, rel[t], bro[t], bri'[t], pipe'[t], pump[t])
    <2>1. DownFine(t, rel[t], bro[t], bri[t], pipe[t], pump[t]) /\ t \in Transfers
      BY UpOrDown DEF TransferInv
    <2> QED
      BY <1>2, <1>3, <2>1 DEF DownFine
  <1> QED
    BY <1>1, <1>4, <1>5, <1>6, <1>7, <1>8, AllAtOnce

-----------------------------------------------------------------------------
(* The invariant.                                                          *)

\* Nothing has happened yet.
LEMMA TransferStart ==
    ASSUME TransferInit
    PROVE  TransferInv
  <1>1. /\ rel = [t \in Transfers |-> Unused(t)]
        /\ bro = [t \in Transfers |->
                    [ph |-> "idle", req |-> NoRange, h |-> t, n |-> 0, puts |-> 0]]
        /\ bri = [t \in Transfers |->
                    [ph |-> "idle", tok |-> "none", n |-> 0, off |-> 0, len |-> 0,
                     ranged |-> FALSE]]
        /\ pipe = [t \in Transfers |->
                     [q |-> 0, err |-> FALSE, tx |-> TRUE, rx |-> TRUE, cut |-> FALSE]]
        /\ pump = [t \in Transfers |-> "none"]
        /\ file = [t \in Transfers |->
                     [n |-> 0, inline |-> TRUE, grant |-> "none", kept |-> FALSE]]
        /\ toBridge = <<>> /\ toRelay = <<>>
    BY DEF TransferInit
  <1>2. 0 \in 0..Chunks /\ 0 \in 0..Capacity /\ 0 \in 0..MaxPuts /\ NoRange \in Ranges
    BY TransferAssumption DEF Ranges
  <1>3. ASSUME NEW t \in Transfers
        PROVE  /\ rel[t] \in Registered /\ rel[t].reg = "new" /\ rel[t].ack = "none"
               /\ rel[t].res = "none"
               /\ rel[t].dir = IF t \in Uploads THEN "up" ELSE "down"
    <2>1. PICK d \in {"down", "up"} : d = IF t \in Uploads THEN "up" ELSE "down"
      OBVIOUS
    <2>2. PICK x : x = NewTransfer(d)
      OBVIOUS
    <2>3. x \in Registered /\ x.dir = d /\ x.ack = "none" /\ x.res = "none"
      BY <2>2 DEF NewTransfer, Registered
    <2>4. rel[t] = [x EXCEPT !.reg = "new"]
      BY <1>1, <2>1, <2>2 DEF Unused
    <2>5. /\ rel[t] \in Registered /\ rel[t].reg = "new" /\ rel[t].dir = x.dir
          /\ rel[t].ack = x.ack /\ rel[t].res = x.res
      BY <2>3, <2>4 DEF Registered
    <2> QED
      BY <2>1, <2>3, <2>5
  <1>4. ASSUME NEW t \in Transfers
        PROVE  /\ bro[t] \in Requests /\ bro[t].ph = "idle" /\ bro[t].h = t /\ bro[t].n = 0
    <2>1. bro[t] = [ph |-> "idle", req |-> NoRange, h |-> t, n |-> 0, puts |-> 0]
      BY <1>1
    <2> QED
      BY <1>2, <2>1 DEF Requests
  <1>5. ASSUME NEW t \in Transfers
        PROVE  bri[t] \in Workers /\ bri[t].ph = "idle" /\ bri[t].n = 0 /\ bri[t].len = 0
    <2>1. bri[t] = [ph |-> "idle", tok |-> "none", n |-> 0, off |-> 0, len |-> 0, ranged |-> FALSE]
      BY <1>1
    <2> QED
      BY <1>2, <2>1 DEF Workers
  <1>6. ASSUME NEW t \in Transfers
        PROVE  pipe[t] \in Channels /\ pipe[t].q = 0 /\ pipe[t].tx = TRUE /\ pipe[t].rx = TRUE
    <2>1. pipe[t] = [q |-> 0, err |-> FALSE, tx |-> TRUE, rx |-> TRUE, cut |-> FALSE]
      BY <1>1
    <2> QED
      BY <1>2, <2>1 DEF Channels
  <1>7. ASSUME NEW t \in Transfers
        PROVE  pump[t] \in Pumps /\ pump[t] = "none" /\ file[t] \in Files /\ file[t].grant = "none"
    <2>1. pump[t] = "none" /\ file[t] = [n |-> 0, inline |-> TRUE, grant |-> "none", kept |-> FALSE]
      BY <1>1
    <2> QED
      BY <1>2, <2>1 DEF Pumps, Files
  <1>8. TransferTypes
    <2>1. toBridge \in Seq(Orders) /\ toRelay \in Seq(Answers)
      BY <1>1
    <2> QED
      BY <1>1, <1>3, <1>4, <1>5, <1>6, <1>7, <2>1 DEF TransferTypes
  <1>9. ASSUME NEW t \in Uploads
        PROVE  UpFine(rel[t], bro[t], bri[t], pipe[t], pump[t], file[t])
    <2>1. t \in Transfers
      BY UpOrDown
    <2>2. bro[t].n = pipe[t].q + bri[t].n
      <3>1. bro[t].n = 0 /\ pipe[t].q = 0 /\ bri[t].n = 0
        BY <1>4, <1>5, <1>6, <2>1
      <3> QED
        BY <3>1
    <2> QED
      BY <1>3, <1>4, <1>5, <1>6, <1>7, <1>9, <2>1, <2>2 DEF UpFine
  <1>10. ASSUME NEW t \in Downloads
         PROVE  DownFine(t, rel[t], bro[t], bri[t], pipe[t], pump[t]) /\ HandleFine(t)
    <2>1. t \in Transfers /\ t \notin Uploads
      BY UpOrDown
    <2>2. bri[t].n = bro[t].n + pipe[t].q /\ bri[t].n <= bri[t].len
      <3>1. bro[t].n = 0 /\ pipe[t].q = 0 /\ bri[t].n = 0 /\ bri[t].len = 0
        BY <1>4, <1>5, <1>6, <2>1
      <3> QED
        BY <3>1
    <2>3. DownFine(t, rel[t], bro[t], bri[t], pipe[t], pump[t])
      BY <1>3, <1>4, <1>5, <1>6, <1>7, <2>1, <2>2 DEF DownFine
    <2> QED
      BY <1>4, <2>1, <2>3 DEF HandleFine
  <1>11. Range(toBridge) = {} /\ Range(toRelay) = {} /\ OfferedOnce(toBridge)
    BY <1>1, RangeEmpty DEF OfferedOnce
  <1> QED
    BY <1>8, <1>9, <1>10, <1>11 DEF TransferInv

\* Every step keeps the invariant.
LEMMA TransferStep ==
    ASSUME TransferInv, [TransferNext]_transferVars
    PROVE  TransferInv'
  <1>1. CASE UNCHANGED transferVars
    <2>1. UNCHANGED <<rel, bro, bri, pipe, pump, file, toBridge, toRelay>>
      BY <1>1 DEF transferVars
    <2> QED
      BY <2>1 DEF TransferInv, TransferTypes, HandleFine, OfferPending
  <1>2. ASSUME NEW t \in Transfers,
               \/ StartDownload(t) \/ OfferFails(t) \/ BrowserReads(t) \/ BrowserLeaves(t)
               \/ UploadDeclare(t) \/ UploadStream(t) \/ UploadChunk(t)
               \/ PumpRead(t) \/ GrantExpires(t)
        PROVE  TransferInv'
    BY <1>2, StartDownloadInv, OfferFailsInv, BrowserReadsInv, BrowserLeavesInv,
       UploadDeclareInv, UploadStreamInv, UploadChunkInv, PumpReadInv, GrantExpiresInv
  <1>3. ASSUME NEW t \in Transfers,
               \/ RendezvousCancelled(t) \/ RendezvousDone(t) \/ RendezvousTimeout(t)
               \/ UploadEof(t) \/ UploadBreaks(t) \/ UploadCancelled(t) \/ UploadResult(t)
               \/ Producer(t) \/ ProducerAck(t) \/ Consumer(t)
        PROVE  TransferInv'
    BY <1>3, RendezvousFailsInv, RendezvousDoneInv, UploadEofInv, UploadBreaksInv,
       UploadResultInv, ProducerInv, ProducerAckInv, ConsumerInv
  <1>4. ASSUME NEW t \in Transfers,
               \/ PumpSend(t) \/ PumpEof(t) \/ PumpFails(t) \/ PumpSinkClosed(t)
               \/ Sweep(t) \/ ProduceEnds(t) \/ ConnectFails(t)
               \/ ConsumeChunk(t) \/ ConsumeEnds(t) \/ ConsumeFails(t)
        PROVE  TransferInv'
    BY <1>4, PumpSendInv, PumpEofInv, PumpFailsInv, SweepInv, ProduceEndsInv,
       ConsumeChunkInv, ConsumeEndsInv, ConsumeFailsInv
  <1>5. CASE RelayReceives \/ BridgeReceives \/ SweepUploads \/ LinkDrops \/ BridgeRestarts
    BY <1>5, RelayReceivesInv, BridgeReceivesInv, SweepUploadsInv, LinkDropsInv,
       BridgeRestartsInv
  <1> QED
    BY <1>1, <1>2, <1>3, <1>4, <1>5 DEF TransferNext, Steps

\* The chunks of every transfer are accounted for at every moment: sent, in the
\* channel, in the pump's hand or received; a handle is issued for an upload of
\* which nothing is on its way; the pump of a download starts once.
THEOREM TransferInvariant == TransferSpec => []TransferInv
  <1>1. TransferInit => TransferInv
    BY TransferStart
  <1>2. TransferInv /\ [TransferNext]_transferVars => TransferInv'
    BY TransferStep
  <1> QED
    BY <1>1, <1>2, PTL DEF TransferSpec

\* The types of the data plane, the bound of the channel, and that no request
\* is answered before its transfer was created (create, CHANNEL_BUFFER_CHUNKS).
THEOREM TransferTypesHold == TransferSpec => []TransferTypeOK
  <1>1. TransferInv => TransferTypeOK
    <2> SUFFICES ASSUME TransferInv PROVE TransferTypeOK
      OBVIOUS
    <2>1. TransferTypes
      BY DEF TransferInv
    <2>2. ASSUME NEW t \in Transfers PROVE rel[t].reg = "new" <=> bro[t].ph = "idle"
      BY Here DEF UpFine, DownFine
    <2> QED
      BY <2>1, <2>2 DEF TransferTypes, TransferTypeOK, Registered, Requests, Workers, Channels,
         Pumps, Files
  <1> QED
    BY <1>1, TransferInvariant, PTL

\* An upload that was reported complete is whole at the Bridge, and a download
\* that ended without an error and was not cut delivered what was asked for,
\* for files, channels and numbers of transfers of any size (upload_stream,
\* start_download, pump_body, consume, open_slice).
THEOREM FilesArriveWhole == TransferSpec => []WholeOrError
  <1>1. TransferInv => WholeOrError
    <2> SUFFICES ASSUME TransferInv, NEW t \in Transfers
                 PROVE  /\ bro[t].ph = "completed" => file[t].n = Chunks
                        /\ bro[t].ph = "ended" /\ ~pipe[t].cut =>
                             {bri[t].off + i : i \in 0..(bro[t].n - 1)}
                               = Asked(bro[t].req, file[bro[t].h].n)
      BY DEF WholeOrError
    <2>1. bro[t].ph = "completed" => file[t].n = Chunks
      BY WholeFile
    <2>2. ASSUME bro[t].ph = "ended", ~pipe[t].cut
          PROVE  {bri[t].off + i : i \in 0..(bro[t].n - 1)}
                   = Asked(bro[t].req, file[bro[t].h].n)
      <3>1. t \in Downloads /\ DownFine(t, rel[t], bro[t], bri[t], pipe[t], pump[t])
        <4>1. /\ t \in Uploads => UpFine(rel[t], bro[t], bri[t], pipe[t], pump[t], file[t])
              /\ t \in Downloads => DownFine(t, rel[t], bro[t], bri[t], pipe[t], pump[t])
              /\ t \in Uploads \/ t \in Downloads
          BY Here
        <4> QED
          BY <2>2, <4>1 DEF UpFine
      <3>2. bro[t].n = bri[t].len /\ Sliced(bri[t].off, bri[t].len, bro[t].req) /\ bro[t].h # t
        BY <2>2, <3>1 DEF DownFine
      <3>3. bro[t].h \in Transfers /\ bro[bro[t].h].ph = "completed"
        BY <3>1, <3>2, UpOrDown DEF TransferInv, HandleFine
      <3>4. file[bro[t].h].n = Chunks
        BY <3>3, WholeFile
      <3> QED
        BY <3>2, <3>4 DEF Sliced
    <2> QED
      BY <2>1, <2>2
  <1> QED
    BY <1>1, TransferInvariant, PTL
=============================================================================
