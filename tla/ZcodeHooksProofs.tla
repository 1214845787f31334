-------------------------- MODULE ZcodeHooksProofs --------------------------
(***************************************************************************)
(* TLAPS proofs about ZcodeHooks: one decision per invoke, a Browser is    *)
(* told COMPLETED only of what the native runtime got, and no record and   *)
(* no card outlives its connection.                                        *)
(***************************************************************************)
EXTENDS ZcodeHooks, TLAPS

\* Nothing is known of an invoke before its connection is accepted.
Fresh(i) ==
    srv[i] = "idle" =>
        /\ reg[i] = "none" /\ chan[i] = "empty"
        /\ sock[i].reply = "none" /\ decided[i] = <<>>

\* A waiting record has no answer, and a server task that will close it.
Undecided(i) ==
    reg[i] = "Waiting" =>
        /\ chan[i] = "empty" /\ decided[i] = <<>>
        /\ srv[i] \in {"publish", "select", "gone", "timeout"}

\* The channel holds the decision, and the record stays Decided until the
\* server task has delivered it or given up.
Chosen(i) ==
    /\ chan[i] \in Answers =>
          decided[i] = <<chan[i]>> /\ (srv[i] # "done" => reg[i] = "Decided")
    /\ reg[i] = "Decided" => chan[i] \in Answers /\ srv[i] # "done"
    /\ srv[i] \in {"write", "ack"} => chan[i] # "empty"
    /\ Len(decided[i]) <= 1

\* The reply is written once, and says what the channel holds.
Written(i) ==
    /\ sock[i].reply # "none" => srv[i] \in {"ack", "done"}
    /\ srv[i] = "ack" =>
          sock[i].reply = IF chan[i] = "dropped" THEN "cancelled" ELSE chan[i]
    /\ sock[i].reply \in Answers => decided[i] = <<sock[i].reply>>

\* The helper acknowledges what it has given to the native runtime.
Handed(i) ==
    /\ hp[i] = "output" \/ sock[i].ack =>
          sock[i].reply # "none" /\ out[i] = NativeOutput(i)
    /\ sock[i].ack => hp[i] = "done"
    /\ out[i] \in Answers => decided[i] = <<out[i]>>

\* A delivery is confirmed by the helper's acknowledgement of an answer.
Confirmed(i) ==
    /\ deliv[i] = "delivered" => sock[i].ack /\ sock[i].reply \in Answers
    /\ cmd.ph = "deliver" /\ cmd.i = i => decided[i] = <<cmd.d>>
    /\ \A t \in told : t.i = i => sock[i].ack /\ out[i] = t.d

Decision(i) ==
    /\ Fresh(i)
    /\ Undecided(i)
    /\ Chosen(i)
    /\ Written(i)
    /\ Handed(i)
    /\ Confirmed(i)

\* No Browser shows the card of i, nor will when the stream that is being
\* established goes live.
Clean(i) ==
    /\ stream[Session(i)] = "live" => ~card[i]
    /\ held[i] # "added"
    /\ stream[Session(i)] = "taken" /\ held[i] = "none" => ~snap[i]

\* Events are buffered only while a stream is being established, and without
\* a stream there are no cards.
Buffered(i) ==
    /\ stream[Session(i)] \in {"none", "live"} => held[i] = "none"
    /\ stream[Session(i)] = "none" => ~card[i]

\* A record is closed under its server task only by a cancel, which drops
\* the decision channel, or by a late answer.
ClosedEarly(i) ==
    /\ reg[i] = "Local" /\ srv[i] # "done" => chan[i] = "dropped" \/ i \in orphaned
    /\ reg[i] = "Returned" => srv[i] = "done"
    /\ chan[i] = "dropped" /\ srv[i] = "publish" => i \in orphaned

\* Once an invoke is over its card is clean.
Over(i) == srv[i] = "done" \/ chan[i] = "dropped"
OverIsClean(i) == Over(i) => Clean(i) \/ i \in orphaned

Shown(i) ==
    /\ Buffered(i)
    /\ ClosedEarly(i)
    /\ OverIsClean(i)

ZcodeInv ==
    /\ TypeOK
    /\ \A i \in Invokes : Decision(i)
    /\ \A i \in Invokes : Shown(i)


-----------------------------------------------------------------------------
(* What a step leaves alone. *)

\* The state an invoke has apart from its card; a record past its deadline
\* that is closed may be dropped, and cmd and told may speak of others.
Same(j) ==
    /\ reg'[j] = reg[j] \/ (reg[j] \in Terminal /\ reg'[j] = "none")
    /\ chan'[j] = chan[j] /\ deliv'[j] = deliv[j] /\ srv'[j] = srv[j]
    /\ sock'[j] = sock[j] /\ hp'[j] = hp[j] /\ out'[j] = out[j]
    /\ decided'[j] = decided[j]
    /\ cmd'.ph = "deliver" /\ cmd'.i = j => cmd' = cmd
    /\ \A t \in told' : t.i = j => t \in told

\* The state of its card.
SameCard(j) ==
    /\ card'[j] = card[j] /\ held'[j] = held[j] /\ snap'[j] = snap[j]
    /\ stream'[Session(j)] = stream[Session(j)]
    /\ orphaned \subseteq orphaned'

\* An invoke that a step leaves alone keeps its decision.
LEMMA DecisionStays ==
    ASSUME NEW j \in Invokes, Decision(j), Same(j)
    PROVE  Decision(j)'
  <1> USE DEF Decision, Same
  <1>1. Fresh(j)'
    BY DEF Fresh, Terminal
  <1>2. Undecided(j)'
    BY DEF Undecided
  <1>3. Chosen(j)'
    BY DEF Chosen, Terminal
  <1>4. Written(j)'
    BY DEF Written
  <1>5. Handed(j)'
    BY DEF Handed, NativeOutput
  <1>6. Confirmed(j)'
    BY DEF Confirmed
  <1> QED
    BY <1>1, <1>2, <1>3, <1>4, <1>5, <1>6

\* An invoke that a step leaves alone keeps its card.
LEMMA ShownStays ==
    ASSUME NEW j \in Invokes, Shown(j), Same(j), SameCard(j)
    PROVE  Shown(j)'
  BY DEF Shown, Same, SameCard, Buffered, ClosedEarly, OverIsClean, Over, Clean

\* What a step does that is about one invoke.
LEMMA OnlyOne ==
    ASSUME ZcodeInv, NEW i \in Invokes, TypeOK', Decision(i)', Shown(i)',
           \A j \in Invokes : j # i => Same(j) /\ SameCard(j)
    PROVE  ZcodeInv'
  BY DecisionStays, ShownStays DEF ZcodeInv

\* Every invoke has a session, and the idle command is a command.
LEMMA Domains ==
    /\ \A i \in Invokes : Session(i) \in Sessions
    /\ NoCmd \in Commands
    /\ NoCmd.ph = "idle"
  BY ZcodeAssumption DEF Sessions, NoCmd, Commands, Invokes, Answers

\* What publish does to the card of i, and of every other invoke.
LEMMA EmitEffect ==
    ASSUME TypeOK, NEW i \in Invokes, NEW e \in {"added", "removed"}, Emit(i, e)
    PROVE  /\ card' \in [Invokes -> BOOLEAN]
           /\ held' \in [Invokes -> {"none", "added", "removed"}]
           /\ stream' = stream /\ snap' = snap
           /\ \A j \in Invokes : j # i => card'[j] = card[j] /\ held'[j] = held[j]
           /\ card'[i] = IF stream[Session(i)] = "live" THEN e = "added" ELSE card[i]
           /\ held'[i] = IF stream[Session(i)] \in {"buffering", "taken"} THEN e ELSE held[i]
  <1>1. /\ card' \in [Invokes -> BOOLEAN]
        /\ \A j \in Invokes : j # i => card'[j] = card[j]
        /\ card'[i] = IF stream[Session(i)] = "live" THEN e = "added" ELSE card[i]
    BY DEF Emit, TypeOK
  <1>2. /\ held' \in [Invokes -> {"none", "added", "removed"}]
        /\ \A j \in Invokes : j # i => held'[j] = held[j]
        /\ held'[i] = IF stream[Session(i)] \in {"buffering", "taken"} THEN e ELSE held[i]
    BY DEF Emit, TypeOK
  <1>3. stream' = stream /\ snap' = snap
    BY DEF Emit
  <1> QED
    BY <1>1, <1>2, <1>3

\* A removed card is clean.
LEMMA RemovedIsClean ==
    ASSUME TypeOK, NEW i \in Invokes, Buffered(i), PublishAttentionRemoved(i)
    PROVE  Clean(i)' /\ Buffered(i)'
  <1>1. stream[Session(i)] \in {"none", "live", "buffering", "taken"}
    BY Domains DEF TypeOK
  <1> QED
    BY <1>1, EmitEffect DEF PublishAttentionRemoved, Clean, Buffered

\* The helper's end opens or closes.
LEMMA HelperEnd ==
    ASSUME TypeOK, NEW i \in Invokes, NEW h \in BOOLEAN,
           sock' = [sock EXCEPT ![i].helper = h]
    PROVE  /\ sock' \in [Invokes -> Connections]
           /\ \A j \in Invokes : j # i => sock'[j] = sock[j]
           /\ sock'[i].reply = sock[i].reply
           /\ sock'[i].ack = sock[i].ack
  <1>1. sock[i] \in Connections
    BY DEF TypeOK
  <1>2. /\ [sock[i] EXCEPT !.helper = h] \in Connections
        /\ [sock[i] EXCEPT !.helper = h].reply = sock[i].reply
        /\ [sock[i] EXCEPT !.helper = h].ack = sock[i].ack
    BY <1>1 DEF Connections
  <1>3. /\ sock'[i] = [sock[i] EXCEPT !.helper = h]
        /\ \A j \in Invokes : j # i => sock'[j] = sock[j]
        /\ sock' = [sock EXCEPT ![i] = [sock[i] EXCEPT !.helper = h]]
    BY DEF TypeOK
  <1> QED
    BY <1>2, <1>3 DEF TypeOK

\* The helper acknowledges and leaves.
LEMMA AckWritten ==
    ASSUME TypeOK, NEW i \in Invokes,
           sock' = [sock EXCEPT ![i].ack = TRUE, ![i].helper = FALSE]
    PROVE  /\ sock' \in [Invokes -> Connections]
           /\ \A j \in Invokes : j # i => sock'[j] = sock[j]
           /\ sock'[i].reply = sock[i].reply
           /\ sock'[i].ack
  <1>1. sock[i] \in Connections
    BY DEF TypeOK
  <1>2. /\ [sock[i] EXCEPT !.ack = TRUE, !.helper = FALSE] \in Connections
        /\ [sock[i] EXCEPT !.ack = TRUE, !.helper = FALSE].reply = sock[i].reply
        /\ [sock[i] EXCEPT !.ack = TRUE, !.helper = FALSE].ack
    BY <1>1 DEF Connections
  <1>3. /\ sock'[i] = [sock[i] EXCEPT !.ack = TRUE, !.helper = FALSE]
        /\ \A j \in Invokes : j # i => sock'[j] = sock[j]
        /\ sock' = [sock EXCEPT ![i] = [sock[i] EXCEPT !.ack = TRUE, !.helper = FALSE]]
    BY DEF TypeOK
  <1> QED
    BY <1>2, <1>3 DEF TypeOK

\* The server writes a reply.
LEMMA ReplyWritten ==
    ASSUME TypeOK, NEW i \in Invokes, NEW r \in {"none"} \cup Replies,
           sock' = [sock EXCEPT ![i].reply = r]
    PROVE  /\ sock' \in [Invokes -> Connections]
           /\ \A j \in Invokes : j # i => sock'[j] = sock[j]
           /\ sock'[i].reply = r
           /\ sock'[i].ack = sock[i].ack
  <1>1. sock[i] \in Connections
    BY DEF TypeOK
  <1>2. /\ [sock[i] EXCEPT !.reply = r] \in Connections
        /\ [sock[i] EXCEPT !.reply = r].reply = r
        /\ [sock[i] EXCEPT !.reply = r].ack = sock[i].ack
    BY <1>1 DEF Connections
  <1>3. /\ sock'[i] = [sock[i] EXCEPT !.reply = r]
        /\ \A j \in Invokes : j # i => sock'[j] = sock[j]
        /\ sock' = [sock EXCEPT ![i] = [sock[i] EXCEPT !.reply = r]]
    BY DEF TypeOK
  <1> QED
    BY <1>2, <1>3 DEF TypeOK

-----------------------------------------------------------------------------
(* The initial state, and the steps of the helper. *)

\* Nothing has happened yet.
LEMMA InitInv == Init => ZcodeInv
  <1> SUFFICES ASSUME Init PROVE ZcodeInv
    OBVIOUS
  <1>1. <<>> \in Seq(Answers) /\ Len(<<>>) = 0
    OBVIOUS
  <1>2. decided \in [Invokes -> Seq(Answers)]
    BY <1>1 DEF Init
  <1>3. answers \in 0..MaxAnswers /\ restarts \in 0..MaxRestarts /\ starts \in 0..MaxStarts
    BY ZcodeAssumption DEF Init
  <1>4. sock \in [Invokes -> Connections]
    BY DEF Init, Connections
  <1>5. TypeOK
    BY <1>2, <1>3, <1>4, Domains DEF Init, TypeOK
  <1>6. ASSUME NEW i \in Invokes PROVE Decision(i)
    BY <1>1, Domains
    DEF Init, Decision, Fresh, Undecided, Chosen, Written, Handed, Confirmed, Answers
  <1>7. ASSUME NEW i \in Invokes PROVE Shown(i)
    BY Domains DEF Init, Shown, Buffered, ClosedEarly, OverIsClean, Over
  <1> QED
    BY <1>5, <1>6, <1>7 DEF ZcodeInv

\* The helper connects.
LEMMA HelperCallsInv ==
    ASSUME ZcodeInv, NEW i \in Invokes, HelperCalls(i)
    PROVE  ZcodeInv'
  <1> USE DEF HelperCalls, registry, view, history, bounds
  <1>0. TypeOK /\ Decision(i) /\ Shown(i)
    BY DEF ZcodeInv
  <1>1. /\ sock'[i].reply = sock[i].reply /\ sock'[i].ack = sock[i].ack
        /\ sock' \in [Invokes -> Connections]
        /\ \A j \in Invokes : j # i => sock'[j] = sock[j]
    BY <1>0, HelperEnd
  <1>2. TypeOK'
    BY <1>0, <1>1 DEF TypeOK
  <1>3. \A j \in Invokes : j # i => Same(j) /\ SameCard(j)
    BY <1>0, <1>1 DEF TypeOK, Same, SameCard
  <1>4. Decision(i)'
    BY <1>0, <1>1
    DEF TypeOK, Decision, Fresh, Undecided, Chosen, Written, Handed, Confirmed, NativeOutput
  <1>5. Shown(i)'
    BY <1>0 DEF Shown, Buffered, ClosedEarly, OverIsClean, Over, Clean
  <1> QED
    BY <1>2, <1>3, <1>4, <1>5, OnlyOne

\* The native runtime gets the reply.
LEMMA OutputsInv ==
    ASSUME ZcodeInv, NEW i \in Invokes, HookOutputs(i) \/ McpOutputs(i)
    PROVE  ZcodeInv'
  <1> USE DEF HookOutputs, McpOutputs, registry, view, history, bounds
  <1>0. TypeOK /\ Decision(i) /\ Shown(i)
    BY DEF ZcodeInv
  <1>1. sock[i].reply # "none" /\ hp[i] \in {"waiting", "cancelled"}
    OBVIOUS
  <1>2. PICK h \in {"output", "done"}, o \in {"native", NativeOutput(i)} :
          /\ hp' = [hp EXCEPT ![i] = h] /\ out' = [out EXCEPT ![i] = o]
          /\ h = "output" => o = NativeOutput(i)
    OBVIOUS
  <1>3. /\ UNCHANGED <<registry, srv, view, cmd, history>>
        /\ sock' = sock \/ sock' = [sock EXCEPT ![i].helper = FALSE]
    OBVIOUS
  <1> HIDE DEF HookOutputs, McpOutputs
  <1>4. /\ sock'[i].reply = sock[i].reply /\ sock'[i].ack = sock[i].ack
        /\ sock' \in [Invokes -> Connections]
        /\ \A j \in Invokes : j # i => sock'[j] = sock[j]
    BY <1>0, <1>3, HelperEnd DEF TypeOK
  <1>5. o \in {"none", "native"} \cup Answers
    BY DEF NativeOutput
  <1>6. /\ hp' \in [Invokes -> {"idle", "waiting", "cancelled", "output", "done"}]
        /\ out' \in [Invokes -> {"none", "native"} \cup Answers]
        /\ hp'[i] = h /\ out'[i] = o
        /\ \A j \in Invokes : j # i => hp'[j] = hp[j] /\ out'[j] = out[j]
    BY <1>0, <1>2, <1>5 DEF TypeOK
  <1>7. TypeOK'
    BY <1>0, <1>3, <1>4, <1>6 DEF TypeOK
  <1>8. \A j \in Invokes : j # i => Same(j) /\ SameCard(j)
    BY <1>3, <1>4, <1>6 DEF Same, SameCard
  <1>9. ~sock[i].ack /\ NativeOutput(i)' = NativeOutput(i)
    BY <1>0, <1>1, <1>4 DEF Decision, Handed, NativeOutput
  <1>10. Fresh(i)' /\ Undecided(i)' /\ Chosen(i)' /\ Written(i)'
    BY <1>0, <1>3, <1>4 DEF Decision, Fresh, Undecided, Chosen, Written
  <1>11. Handed(i)'
    BY <1>0, <1>1, <1>2, <1>3, <1>4, <1>6, <1>9
    DEF Decision, Handed, Written, NativeOutput, Answers
  <1>12. Confirmed(i)'
    BY <1>0, <1>3, <1>4, <1>9 DEF Decision, Confirmed
  <1>13. Shown(i)'
    BY <1>0, <1>3 DEF Shown, Buffered, ClosedEarly, OverIsClean, Over, Clean
  <1> QED
    BY <1>7, <1>8, <1>10, <1>11, <1>12, <1>13, OnlyOne DEF Decision

\* The helper acknowledges, or leaves.
LEMMA HelperEndsInv ==
    ASSUME ZcodeInv, NEW i \in Invokes, HelperAcks(i) \/ HelperLeaves(i)
    PROVE  ZcodeInv'
  <1> USE DEF HelperAcks, HelperLeaves, registry, view, history, bounds
  <1>0. TypeOK /\ Decision(i) /\ Shown(i)
    BY DEF ZcodeInv
  <1>1. /\ hp[i] \in {"waiting", "cancelled", "output"} /\ hp' = [hp EXCEPT ![i] = "done"]
        /\ out' = [out EXCEPT ![i] = IF @ = "none" THEN "native" ELSE @]
        /\ \/ sock' = [sock EXCEPT ![i].helper = FALSE]
           \/ hp[i] = "output" /\ sock' = [sock EXCEPT ![i].ack = TRUE, ![i].helper = FALSE]
        /\ UNCHANGED <<registry, srv, view, cmd, history>>
    <2>1. CASE HelperLeaves(i)
      BY <2>1
    <2>2. CASE HelperAcks(i)
      <3>1. out[i] # "none"
        BY <1>0, <2>2 DEF Decision, Handed, NativeOutput, Answers
      <3>2. out = [out EXCEPT ![i] = IF @ = "none" THEN "native" ELSE @]
        BY <1>0, <3>1 DEF TypeOK
      <3> QED
        BY <2>2, <3>2
    <2> QED
      BY <2>1, <2>2
  <1> HIDE DEF HelperAcks, HelperLeaves
  <1>2. ~sock[i].ack
    BY <1>0, <1>1 DEF Decision, Handed
  <1>3. /\ sock'[i].reply = sock[i].reply
        /\ sock'[i].ack => hp[i] = "output"
        /\ sock' \in [Invokes -> Connections]
        /\ \A j \in Invokes : j # i => sock'[j] = sock[j]
    BY <1>0, <1>1, <1>2, HelperEnd, AckWritten
  <1>4. /\ hp' \in [Invokes -> {"idle", "waiting", "cancelled", "output", "done"}]
        /\ out' \in [Invokes -> {"none", "native"} \cup Answers]
        /\ hp'[i] = "done"
        /\ out'[i] = IF out[i] = "none" THEN "native" ELSE out[i]
        /\ \A j \in Invokes : j # i => hp'[j] = hp[j] /\ out'[j] = out[j]
    BY <1>0, <1>1 DEF TypeOK
  <1>5. TypeOK'
    BY <1>0, <1>1, <1>3, <1>4 DEF TypeOK
  <1>6. \A j \in Invokes : j # i => Same(j) /\ SameCard(j)
    BY <1>1, <1>3, <1>4 DEF Same, SameCard
  <1>7. Fresh(i)' /\ Undecided(i)' /\ Chosen(i)' /\ Written(i)'
    BY <1>0, <1>1, <1>3 DEF Decision, Fresh, Undecided, Chosen, Written
  <1>8. Handed(i)'
    BY <1>0, <1>1, <1>2, <1>3, <1>4 DEF Decision, Handed, NativeOutput, Answers
  <1>9. Confirmed(i)'
    BY <1>0, <1>1, <1>2, <1>3, <1>4 DEF Decision, Confirmed
  <1>10. Shown(i)'
    BY <1>0, <1>1 DEF Shown, Buffered, ClosedEarly, OverIsClean, Over, Clean
  <1> QED
    BY <1>5, <1>6, <1>7, <1>8, <1>9, <1>10, OnlyOne DEF Decision

-----------------------------------------------------------------------------
(* The streams. *)

\* A stream is established anew: events are buffered from now on.
LEMMA StreamStartsInv ==
    ASSUME ZcodeInv, NEW s \in Sessions, StreamStarts(s)
    PROVE  ZcodeInv'
  <1> USE DEF StreamStarts, registry
  <1>0. TypeOK
    BY DEF ZcodeInv
  <1>1. starts' \in 0..MaxStarts
    BY <1>0, ZcodeAssumption DEF TypeOK
  <1>2. TypeOK'
    BY <1>0, <1>1 DEF TypeOK
  <1>3. ASSUME NEW j \in Invokes PROVE Same(j)
    BY DEF Same
  <1>4. ASSUME NEW j \in Invokes PROVE Shown(j)'
    <2>1. stream'[Session(j)] = stream[Session(j)] \/ stream'[Session(j)] = "buffering"
      BY <1>0, Domains DEF TypeOK
    <2> QED
      BY <2>1 DEF ZcodeInv, Shown, Buffered, ClosedEarly, OverIsClean, Over, Clean
  <1> QED
    BY <1>2, <1>3, <1>4, DecisionStays DEF ZcodeInv

\* The snapshot shows what is waiting; of an invoke that is over nothing is.
LEMMA RuntimeSnapshotInv ==
    ASSUME ZcodeInv, NEW s \in Sessions, RuntimeSnapshot(s)
    PROVE  ZcodeInv'
  <1> USE DEF RuntimeSnapshot, registry, history, bounds
  <1>0. TypeOK
    BY DEF ZcodeInv
  <1>1. TypeOK'
    <2>1. [j \in Invokes |-> IF Session(j) = s THEN j \in WaitingFor(s) ELSE snap[j]]
            \in [Invokes -> BOOLEAN]
      <3>1. ASSUME NEW j \in Invokes
            PROVE  (IF Session(j) = s THEN j \in WaitingFor(s) ELSE snap[j]) \in BOOLEAN
        <4>1. snap[j] \in BOOLEAN
          BY <1>0 DEF TypeOK
        <4>2. (j \in WaitingFor(s)) \in BOOLEAN
          OBVIOUS
        <4> QED
          BY <4>1, <4>2, Zenon
      <3> QED
        BY <3>1, Zenon
    <2>2. snap' \in [Invokes -> BOOLEAN]
      BY <2>1
    <2>3. stream' \in [Sessions -> {"none", "live", "buffering", "taken"}]
      BY <1>0 DEF TypeOK
    <2> QED
      BY <1>0, <2>2, <2>3 DEF TypeOK
  <1>2. ASSUME NEW j \in Invokes PROVE Same(j)
    BY DEF Same
  <1>3. ASSUME NEW j \in Invokes PROVE Shown(j)'
    <2>0. Shown(j) /\ Decision(j)
      BY DEF ZcodeInv
    <2>1. CASE Session(j) # s
      <3>1. SameCard(j)
        BY <1>0, <2>1, Domains DEF TypeOK, SameCard
      <3> QED
        BY <1>2, <2>0, <3>1, ShownStays
    <2>2. CASE Session(j) = s
      <3>1. stream[s] = "buffering" /\ stream'[s] = "taken"
        BY <1>0 DEF TypeOK
      <3>2. snap'[j] = (reg[j] = "Waiting")
        BY <2>2 DEF WaitingFor
      <3>3. Over(j) => ~snap'[j]
        BY <2>0, <3>2 DEF Decision, Undecided, Over
      <3> QED
        BY <2>0, <2>2, <3>1, <3>3
        DEF Shown, Buffered, ClosedEarly, OverIsClean, Over, Clean
    <2> QED
      BY <2>1, <2>2
  <1> QED
    BY <1>1, <1>2, <1>3, DecisionStays DEF ZcodeInv

\* The snapshot is sent, and what was buffered after it.
LEMMA SnapshotSentInv ==
    ASSUME ZcodeInv, NEW s \in Sessions, SnapshotSent(s)
    PROVE  ZcodeInv'
  <1> USE DEF SnapshotSent, registry, history, bounds
  <1>0. TypeOK
    BY DEF ZcodeInv
  <1>1. TypeOK'
    <2>1. card' \in [Invokes -> BOOLEAN]
      BY <1>0 DEF TypeOK
    <2>2. snap' \in [Invokes -> BOOLEAN]
      BY <1>0 DEF TypeOK
    <2>3. held' \in [Invokes -> {"none", "added", "removed"}]
      BY <1>0 DEF TypeOK
    <2>4. stream' \in [Sessions -> {"none", "live", "buffering", "taken"}]
      BY <1>0 DEF TypeOK
    <2> QED
      BY <1>0, <2>1, <2>2, <2>3, <2>4 DEF TypeOK
  <1>2. ASSUME NEW j \in Invokes PROVE Same(j)
    BY DEF Same
  <1>3. ASSUME NEW j \in Invokes PROVE Shown(j)'
    <2>0. Shown(j)
      BY DEF ZcodeInv
    <2>1. CASE Session(j) # s
      <3>1. SameCard(j)
        BY <1>0, <2>1, Domains DEF TypeOK, SameCard
      <3> QED
        BY <1>2, <2>0, <3>1, ShownStays
    <2>2. CASE Session(j) = s
      <3>1. stream[s] = "taken" /\ stream'[s] = "live" /\ held'[j] = "none"
        BY <1>0, <2>2 DEF TypeOK
      <3>2. card'[j] = IF held[j] = "none" THEN snap[j] ELSE held[j] = "added"
        BY <2>2
      <3> QED
        BY <2>0, <2>2, <3>1, <3>2
        DEF Shown, Buffered, ClosedEarly, OverIsClean, Over, Clean
    <2> QED
      BY <2>1, <2>2
  <1> QED
    BY <1>1, <1>2, <1>3, DecisionStays DEF ZcodeInv

-----------------------------------------------------------------------------
(* The socket server. *)

\* A connection is accepted and its record registered; others past their
\* deadline may be dropped.
LEMMA AcceptInv ==
    ASSUME ZcodeInv, NEW i \in Invokes, Accept(i)
    PROVE  ZcodeInv'
  <1> USE DEF Accept, view, history, bounds
  <1>0. TypeOK /\ Decision(i) /\ Shown(i)
    BY DEF ZcodeInv
  <1>1. /\ reg' \in [Invokes -> {"none", "Waiting", "Decided"} \cup Terminal]
        /\ reg'[i] = "Waiting"
        /\ \A j \in Invokes : j # i =>
              reg'[j] = reg[j] \/ (reg[j] \in Terminal /\ reg'[j] = "none")
    BY <1>0 DEF TypeOK, Registered
  <1>2. /\ srv' \in [Invokes -> {"idle", "publish", "select", "write", "gone",
                                 "timeout", "ack", "done"}]
        /\ srv'[i] = "publish"
        /\ \A j \in Invokes : j # i => srv'[j] = srv[j]
    BY <1>0 DEF TypeOK
  <1>3. \A j \in Invokes : srv'[j] = "idle" => reg'[j] = "none"
    BY <1>0, <1>1, <1>2 DEF TypeOK
  <1>4. TypeOK'
    BY <1>0, <1>1, <1>2, <1>3 DEF TypeOK
  <1>5. \A j \in Invokes : j # i => Same(j) /\ SameCard(j)
    BY <1>1, <1>2 DEF Same, SameCard
  <1>6. Decision(i)'
    BY <1>0, <1>1, <1>2
    DEF Decision, Fresh, Undecided, Chosen, Written, Handed, Confirmed, NativeOutput, Answers
  <1>7. Shown(i)'
    BY <1>0, <1>1, <1>2
    DEF Decision, Fresh, Shown, Buffered, ClosedEarly, OverIsClean, Over, Clean
  <1> QED
    BY <1>4, <1>5, <1>6, <1>7, OnlyOne

\* The card is published.
LEMMA PublishInv ==
    ASSUME ZcodeInv, NEW i \in Invokes, Publish(i)
    PROVE  ZcodeInv'
  <1> USE DEF Publish, registry, history, bounds
  <1>0. TypeOK /\ Decision(i) /\ Shown(i)
    BY DEF ZcodeInv
  <1>1. /\ srv' \in [Invokes -> {"idle", "publish", "select", "write", "gone",
                                 "timeout", "ack", "done"}]
        /\ srv'[i] = "select"
        /\ \A j \in Invokes : j # i => srv'[j] = srv[j]
    BY <1>0 DEF TypeOK
  <1>2. /\ card' \in [Invokes -> BOOLEAN]
        /\ held' \in [Invokes -> {"none", "added", "removed"}]
        /\ stream' = stream /\ snap' = snap
        /\ \A j \in Invokes : j # i => card'[j] = card[j] /\ held'[j] = held[j]
        /\ held'[i] = IF stream[Session(i)] \in {"buffering", "taken"}
                      THEN "added" ELSE held[i]
        /\ stream[Session(i)] = "none" => card'[i] = card[i]
    BY <1>0, EmitEffect DEF PublishAttentionAdded
  <1>3. TypeOK'
    BY <1>0, <1>1, <1>2 DEF TypeOK
  <1>4. \A j \in Invokes : j # i => Same(j) /\ SameCard(j)
    BY <1>1, <1>2 DEF Same, SameCard
  <1>5. Decision(i)'
    BY <1>0, <1>1
    DEF Decision, Fresh, Undecided, Chosen, Written, Handed, Confirmed, NativeOutput
  <1>6. Shown(i)'
    BY <1>0, <1>1, <1>2 DEF Shown, Buffered, ClosedEarly, OverIsClean, Over
  <1> QED
    BY <1>3, <1>4, <1>5, <1>6, OnlyOne

\* The deadline passes: nothing but the clock changes.
LEMMA DeadlinePassesInv ==
    ASSUME ZcodeInv, NEW i \in Invokes, DeadlinePasses(i)
    PROVE  ZcodeInv'
  <1> USE DEF DeadlinePasses, view, history, bounds
  <1>1. TypeOK'
    BY DEF ZcodeInv, TypeOK
  <1>2. ASSUME NEW j \in Invokes PROVE Same(j) /\ SameCard(j)
    BY DEF Same, SameCard
  <1> QED
    BY <1>1, <1>2, DecisionStays, ShownStays DEF ZcodeInv

\* One of the three arms of the select wins.
LEMMA SelectInv ==
    ASSUME ZcodeInv, NEW i \in Invokes,
           SelectDecision(i) \/ SelectGone(i) \/ SelectTimeout(i)
    PROVE  ZcodeInv'
  <1> USE DEF SelectDecision, SelectGone, SelectTimeout, registry, view, history, bounds
  <1>0. TypeOK /\ Decision(i) /\ Shown(i)
    BY DEF ZcodeInv
  <1>1. PICK a \in {"write", "gone", "timeout"} :
          /\ srv' = [srv EXCEPT ![i] = a] /\ (a = "write" => chan[i] # "empty")
    OBVIOUS
  <1>2. /\ srv[i] = "select"
        /\ UNCHANGED <<registry, sock, hp, out, view, cmd, history>>
    OBVIOUS
  <1> HIDE DEF SelectDecision, SelectGone, SelectTimeout
  <1>3. /\ srv' \in [Invokes -> {"idle", "publish", "select", "write", "gone",
                                 "timeout", "ack", "done"}]
        /\ srv'[i] = a
        /\ \A j \in Invokes : j # i => srv'[j] = srv[j]
    BY <1>0, <1>1 DEF TypeOK
  <1>4. TypeOK'
    BY <1>0, <1>2, <1>3 DEF TypeOK
  <1>5. \A j \in Invokes : j # i => Same(j) /\ SameCard(j)
    BY <1>2, <1>3 DEF Same, SameCard
  <1>6. Fresh(i)' /\ Undecided(i)' /\ Chosen(i)'
    BY <1>0, <1>1, <1>2, <1>3 DEF Decision, Fresh, Undecided, Chosen
  <1>7. Written(i)' /\ Handed(i)' /\ Confirmed(i)'
    BY <1>0, <1>2, <1>3 DEF Decision, Written, Handed, Confirmed, NativeOutput
  <1>8. Shown(i)'
    BY <1>0, <1>2, <1>3 DEF Shown, Buffered, ClosedEarly, OverIsClean, Over, Clean
  <1> QED
    BY <1>4, <1>5, <1>6, <1>7, <1>8, OnlyOne DEF Decision

\* complete_delivery ends the task: the record is closed and the card
\* removed, unless a cancel has done so.
LEMMA CompleteDeliveryInv ==
    ASSUME ZcodeInv, NEW i \in Invokes, NEW o \in {"delivered", "unconfirmed"},
           srv[i] \in {"write", "ack"}, CompleteDelivery(i, o),
           o = "delivered" => srv[i] = "ack" /\ sock[i].ack,
           UNCHANGED <<dl, chan, sock, hp, out, cmd, history>>
    PROVE  ZcodeInv'
  <1> USE DEF history, bounds
  <1>0. TypeOK /\ Decision(i) /\ Shown(i)
    BY DEF ZcodeInv
  <1>1. /\ srv' \in [Invokes -> {"idle", "publish", "select", "write", "gone",
                                 "timeout", "ack", "done"}]
        /\ srv'[i] = "done"
        /\ \A j \in Invokes : j # i => srv'[j] = srv[j]
    BY <1>0 DEF TypeOK, CompleteDelivery
  <1>2. CASE reg[i] = "Decided"
    <2>1. PICK r \in {"Returned", "Local"} : reg' = [reg EXCEPT ![i] = r]
      <3>1. reg' = [reg EXCEPT ![i] = IF o = "delivered" THEN "Returned" ELSE "Local"]
        BY <1>2 DEF CompleteDelivery
      <3> QED
        BY <3>1
    <2>2. /\ reg' \in [Invokes -> {"none", "Waiting", "Decided"} \cup Terminal]
          /\ reg'[i] = r
          /\ \A j \in Invokes : j # i => reg'[j] = reg[j]
      BY <1>0, <2>1 DEF TypeOK, Terminal
    <2>3. /\ deliv' \in [Invokes -> {"open", "delivered", "unconfirmed"}]
          /\ deliv'[i] = o
          /\ \A j \in Invokes : j # i => deliv'[j] = deliv[j]
      <3>1. deliv' = [deliv EXCEPT ![i] = o]
        BY <1>2 DEF CompleteDelivery
      <3> QED
        BY <1>0, <3>1 DEF TypeOK
    <2>4. PublishAttentionRemoved(i)
      BY <1>2 DEF CompleteDelivery
    <2>5. /\ card' \in [Invokes -> BOOLEAN]
          /\ held' \in [Invokes -> {"none", "added", "removed"}]
          /\ stream' = stream /\ snap' = snap
          /\ \A j \in Invokes : j # i => card'[j] = card[j] /\ held'[j] = held[j]
      BY <1>0, <2>4, EmitEffect DEF PublishAttentionRemoved
    <2>6. Clean(i)' /\ Buffered(i)'
      BY <1>0, <2>4, RemovedIsClean DEF Shown
    <2>7. TypeOK'
      BY <1>0, <1>1, <2>2, <2>3, <2>5 DEF TypeOK
    <2>8. \A j \in Invokes : j # i => Same(j) /\ SameCard(j)
      BY <1>1, <2>2, <2>3, <2>5 DEF Same, SameCard
    <2>9. Fresh(i)' /\ Undecided(i)' /\ Chosen(i)' /\ Written(i)' /\ Handed(i)'
      BY <1>0, <1>1, <2>2
      DEF Decision, Fresh, Undecided, Chosen, Written, Handed, NativeOutput
    <2>10. o = "delivered" => sock[i].ack /\ sock[i].reply \in Answers
      BY <1>0, <1>2 DEF Decision, Chosen, Written, Answers
    <2>11. Confirmed(i)'
      BY <1>0, <2>3, <2>10 DEF Decision, Confirmed
    <2>12. Shown(i)'
      BY <1>1, <2>6 DEF Shown, ClosedEarly, OverIsClean
    <2> QED
      BY <2>7, <2>8, <2>9, <2>11, <2>12, OnlyOne DEF Decision
  <1>3. CASE reg[i] # "Decided"
    <2>1. UNCHANGED <<reg, deliv, card, stream, held, snap>>
      BY <1>3 DEF CompleteDelivery, view
    <2>2. chan[i] = "dropped" /\ reg[i] # "Waiting"
      BY <1>0, <1>3 DEF TypeOK, Decision, Chosen, Undecided
    <2>3. TypeOK'
      BY <1>0, <1>1, <2>1 DEF TypeOK
    <2>4. \A j \in Invokes : j # i => Same(j) /\ SameCard(j)
      BY <1>1, <2>1 DEF Same, SameCard
    <2>5. Decision(i)'
      BY <1>0, <1>1, <1>3, <2>1, <2>2
      DEF Decision, Fresh, Undecided, Chosen, Written, Handed, Confirmed, NativeOutput
    <2>6. Shown(i)'
      BY <1>0, <1>1, <2>1, <2>2
      DEF Shown, Buffered, ClosedEarly, OverIsClean, Over, Clean
    <2> QED
      BY <2>3, <2>4, <2>5, <2>6, OnlyOne
  <1> QED
    BY <1>2, <1>3

\* The reply is written, or the helper has left.
LEMMA WriteReplyInv ==
    ASSUME ZcodeInv, NEW i \in Invokes, WriteReply(i)
    PROVE  ZcodeInv'
  <1>0. TypeOK /\ Decision(i) /\ Shown(i)
    BY DEF ZcodeInv
  <1>1. CASE ~sock[i].helper
    BY <1>1, CompleteDeliveryInv DEF WriteReply
  <1>2. CASE sock[i].helper
    <2> DEFINE r == IF chan[i] = "dropped" THEN "cancelled" ELSE chan[i]
    <2>1. /\ srv[i] = "write" /\ srv' = [srv EXCEPT ![i] = "ack"]
          /\ sock' = [sock EXCEPT ![i].reply = r]
          /\ UNCHANGED <<reg, dl, chan, deliv, hp, out, card, stream, held, snap, cmd,
                         decided, told, orphaned, answers, restarts, starts>>
      BY <1>2 DEF WriteReply, view, history, bounds
    <2>2. /\ r \in {"none"} \cup Replies /\ r # "none"
          /\ r \in Answers => decided[i] = <<r>>
      BY <1>0, <2>1 DEF TypeOK, Decision, Chosen, Replies, Answers
    <2>3. r = IF chan'[i] = "dropped" THEN "cancelled" ELSE chan'[i]
      BY <2>1
    <2> HIDE DEF r
    <2>4. /\ sock' \in [Invokes -> Connections]
          /\ \A j \in Invokes : j # i => sock'[j] = sock[j]
          /\ sock'[i].reply = r /\ sock'[i].ack = sock[i].ack
      BY <1>0, <2>1, <2>2, ReplyWritten
    <2>5. /\ srv' \in [Invokes -> {"idle", "publish", "select", "write", "gone",
                                   "timeout", "ack", "done"}]
          /\ srv'[i] = "ack"
          /\ \A j \in Invokes : j # i => srv'[j] = srv[j]
      BY <1>0, <2>1 DEF TypeOK
    <2>6. TypeOK'
      BY <1>0, <2>1, <2>4, <2>5 DEF TypeOK
    <2>7. \A j \in Invokes : j # i => Same(j) /\ SameCard(j)
      BY <2>1, <2>4, <2>5 DEF Same, SameCard
    <2>8. sock[i].reply = "none" /\ ~sock[i].ack /\ hp[i] # "output"
      BY <1>0, <2>1 DEF Decision, Written, Handed
    <2>9. Fresh(i)' /\ Undecided(i)' /\ Chosen(i)' /\ Written(i)'
      BY <1>0, <2>1, <2>2, <2>3, <2>4, <2>5
      DEF Decision, Fresh, Undecided, Chosen, Written
    <2>10. Handed(i)' /\ Confirmed(i)'
      BY <1>0, <2>1, <2>4, <2>8, <1>0
      DEF TypeOK, Connections, Decision, Handed, Confirmed
    <2>11. Shown(i)'
      BY <1>0, <2>1, <2>5 DEF Shown, Buffered, ClosedEarly, OverIsClean, Over, Clean
    <2> QED
      BY <2>6, <2>7, <2>9, <2>10, <2>11, OnlyOne DEF Decision
  <1> QED
    BY <1>1, <1>2

\* The acknowledgement has come, or the wait for it is over.
LEMMA WaitAckInv ==
    ASSUME ZcodeInv, NEW i \in Invokes, WaitAck(i)
    PROVE  ZcodeInv'
  BY CompleteDeliveryInv DEF WaitAck

\* The task gives up: the record is closed and the card removed, unless a
\* cancel or a late answer has closed it.
LEMMA SettleInv ==
    ASSUME ZcodeInv, NEW i \in Invokes, Settle(i)
    PROVE  ZcodeInv'
  <1> USE DEF Settle, bounds
  <1>0. TypeOK /\ Decision(i) /\ Shown(i)
    BY DEF ZcodeInv
  <1>1. /\ srv' \in [Invokes -> {"idle", "publish", "select", "write", "gone",
                                 "timeout", "ack", "done"}]
        /\ srv'[i] = "done" /\ srv[i] \in {"gone", "timeout"}
        /\ \A j \in Invokes : j # i => srv'[j] = srv[j]
    BY <1>0 DEF TypeOK
  <1>2. PICK r \in {"expired", sock[i].reply} : sock' = [sock EXCEPT ![i].reply = r]
    <2>1. sock' = [sock EXCEPT ![i].reply = IF sock[i].helper THEN "expired" ELSE sock[i].reply]
      BY <1>0 DEF TypeOK
    <2> QED
      BY <2>1
  <1>3. UNCHANGED <<dl, chan, deliv, hp, out, cmd, decided, told, answers, restarts, starts>>
    OBVIOUS
  <1>4. /\ orphaned \subseteq orphaned' /\ orphaned' \subseteq Invokes
        /\ reg[i] = "none" \/ (srv[i] = "gone" /\ reg[i] = "Expired") => i \in orphaned'
    BY <1>0 DEF TypeOK
  <1>5. \/ /\ PublishAttentionRemoved(i)
           /\ \E q \in {"Local", "Expired"} : reg' = [reg EXCEPT ![i] = q]
        \/ /\ UNCHANGED <<reg, card, stream, held, snap>>
           /\ \/ reg[i] \in {"none", "Returned", "Local"}
              \/ reg[i] = "Expired" /\ srv[i] = "gone"
    BY <1>0 DEF TypeOK, Terminal, Settles, FinalizeDecidedAfterRace, view
  <1> HIDE DEF Settle
  <1>6. sock[i].reply = "none" /\ ~sock[i].ack /\ hp[i] # "output"
    BY <1>0, <1>1 DEF Decision, Written, Handed
  <1>7. /\ sock' \in [Invokes -> Connections]
        /\ \A j \in Invokes : j # i => sock'[j] = sock[j]
        /\ sock'[i].reply = r /\ sock'[i].ack = sock[i].ack
    BY <1>0, <1>2, <1>6, ReplyWritten DEF Replies
  <1>8. /\ reg' \in [Invokes -> {"none", "Waiting", "Decided"} \cup Terminal]
        /\ reg'[i] \notin {"Waiting", "Decided"}
        /\ \A j \in Invokes : j # i => reg'[j] = reg[j]
    <2>1. CASE \E q \in {"Local", "Expired"} : reg' = [reg EXCEPT ![i] = q]
      BY <1>0, <2>1 DEF TypeOK, Terminal
    <2> QED
      BY <1>0, <1>5, <2>1 DEF TypeOK
  <1>9. /\ card' \in [Invokes -> BOOLEAN]
        /\ held' \in [Invokes -> {"none", "added", "removed"}]
        /\ stream' = stream /\ snap' = snap
        /\ \A j \in Invokes : j # i => card'[j] = card[j] /\ held'[j] = held[j]
    BY <1>0, <1>5, EmitEffect DEF PublishAttentionRemoved, TypeOK
  <1>10. TypeOK'
    BY <1>0, <1>1, <1>3, <1>4, <1>7, <1>8, <1>9 DEF TypeOK
  <1>11. \A j \in Invokes : j # i => Same(j) /\ SameCard(j)
    BY <1>1, <1>3, <1>4, <1>7, <1>8, <1>9 DEF Same, SameCard
  <1>12. Fresh(i)' /\ Undecided(i)' /\ Chosen(i)' /\ Written(i)'
    BY <1>0, <1>1, <1>3, <1>6, <1>7, <1>8
    DEF Decision, Fresh, Undecided, Chosen, Written, Answers
  <1>13. Handed(i)' /\ Confirmed(i)'
    BY <1>0, <1>3, <1>6, <1>7 DEF TypeOK, Connections, Decision, Handed, Confirmed
  <1>14. Buffered(i)' /\ (Clean(i)' \/ i \in orphaned')
    <2>1. CASE PublishAttentionRemoved(i)
      BY <1>0, <2>1, RemovedIsClean DEF Shown
    <2>2. CASE /\ UNCHANGED <<reg, card, stream, held, snap>>
               /\ \/ reg[i] \in {"none", "Returned", "Local"}
                  \/ reg[i] = "Expired" /\ srv[i] = "gone"
      <3>1. Clean(i) \/ i \in orphaned'
        BY <1>0, <1>1, <1>4, <2>2 DEF Shown, ClosedEarly, OverIsClean, Over
      <3> QED
        BY <1>0, <2>2, <3>1 DEF Shown, Buffered, Clean
    <2> QED
      BY <1>5, <2>1, <2>2
  <1>15. Shown(i)'
    BY <1>1, <1>14 DEF Shown, ClosedEarly, OverIsClean
  <1> QED
    BY <1>10, <1>11, <1>12, <1>13, <1>15, OnlyOne DEF Decision

\* The MCP host cancels a call: a waiting record is closed and the channel
\* dropped, and the card removed.
LEMMA CancelInv ==
    ASSUME ZcodeInv, NEW i \in Invokes, Cancel(i)
    PROVE  ZcodeInv'
  <1> USE DEF Cancel, bounds
  <1>0. TypeOK /\ Decision(i) /\ Shown(i)
    BY DEF ZcodeInv
  <1>1. /\ hp' \in [Invokes -> {"idle", "waiting", "cancelled", "output", "done"}]
        /\ hp[i] = "waiting" /\ hp'[i] = "cancelled"
        /\ \A j \in Invokes : j # i => hp'[j] = hp[j]
    BY <1>0 DEF TypeOK
  <1>2. UNCHANGED <<dl, deliv, srv, sock, out, cmd, decided, told,
                    answers, restarts, starts>>
    OBVIOUS
  <1>3. /\ orphaned \subseteq orphaned' /\ orphaned' \subseteq Invokes
        /\ reg[i] = "Waiting" /\ srv[i] = "publish" => i \in orphaned'
    BY <1>0 DEF TypeOK
  <1>4. \/ PublishAttentionRemoved(i)
        \/ UNCHANGED <<card, stream, held, snap>> /\ reg[i] = "none"
    BY DEF view
  <1>5. \/ /\ reg[i] = "Waiting" /\ reg' = [reg EXCEPT ![i] = "Local"]
           /\ chan' = [chan EXCEPT ![i] = "dropped"]
        \/ reg[i] # "Waiting" /\ UNCHANGED <<reg, chan>>
    OBVIOUS
  <1> HIDE DEF Cancel
  <1>6. /\ reg' \in [Invokes -> {"none", "Waiting", "Decided"} \cup Terminal]
        /\ chan' \in [Invokes -> {"empty", "dropped"} \cup Answers]
        /\ \A j \in Invokes : j # i => reg'[j] = reg[j] /\ chan'[j] = chan[j]
        /\ \/ reg[i] = "Waiting" /\ reg'[i] = "Local" /\ chan'[i] = "dropped"
           \/ reg[i] # "Waiting" /\ reg'[i] = reg[i] /\ chan'[i] = chan[i]
    BY <1>0, <1>5 DEF TypeOK, Terminal
  <1>7. /\ card' \in [Invokes -> BOOLEAN]
        /\ held' \in [Invokes -> {"none", "added", "removed"}]
        /\ stream' = stream /\ snap' = snap
        /\ \A j \in Invokes : j # i => card'[j] = card[j] /\ held'[j] = held[j]
    BY <1>0, <1>4, EmitEffect DEF PublishAttentionRemoved, TypeOK
  <1>8. \A j \in Invokes : srv'[j] = "idle" => reg'[j] = "none"
    BY <1>0, <1>2, <1>6 DEF TypeOK
  <1>9. TypeOK'
    BY <1>0, <1>1, <1>2, <1>3, <1>6, <1>7, <1>8 DEF TypeOK
  <1>10. \A j \in Invokes : j # i => Same(j) /\ SameCard(j)
    BY <1>1, <1>2, <1>3, <1>6, <1>7 DEF Same, SameCard
  <1>11. Fresh(i)' /\ Undecided(i)' /\ Chosen(i)'
    BY <1>0, <1>2, <1>6 DEF Decision, Fresh, Undecided, Chosen, Answers
  <1>12. Written(i)'
    BY <1>0, <1>2, <1>6 DEF Decision, Written, Undecided
  <1>13. Handed(i)' /\ Confirmed(i)'
    BY <1>0, <1>1, <1>2 DEF Decision, Handed, Confirmed, NativeOutput
  <1>14. Buffered(i)' /\ (Over(i)' => Clean(i)' \/ i \in orphaned')
    <2>1. CASE PublishAttentionRemoved(i)
      BY <1>0, <2>1, RemovedIsClean DEF Shown
    <2>2. CASE UNCHANGED <<card, stream, held, snap>> /\ reg[i] = "none"
      BY <1>0, <1>2, <1>3, <1>6, <2>2 DEF Shown, Buffered, OverIsClean, Over, Clean
    <2> QED
      BY <1>4, <2>1, <2>2
  <1>15. Shown(i)'
    BY <1>0, <1>2, <1>3, <1>6, <1>14 DEF Shown, ClosedEarly, OverIsClean
  <1> QED
    BY <1>9, <1>10, <1>11, <1>12, <1>13, <1>15, OnlyOne DEF Decision

-----------------------------------------------------------------------------
(* A Browser's answer, and the restart of the Bridge. *)

\* A command finds a record.
LEMMA MatchInv ==
    ASSUME ZcodeInv, NEW i \in Invokes, NEW d \in Answers, Match(i, d)
    PROVE  ZcodeInv'
  <1> USE DEF Match, registry, view
  <1>1. cmd' \in Commands /\ answers' \in 0..MaxAnswers
    BY ZcodeAssumption DEF ZcodeInv, TypeOK, Commands
  <1>2. TypeOK'
    BY <1>1 DEF ZcodeInv, TypeOK
  <1>3. ASSUME NEW j \in Invokes PROVE Same(j) /\ SameCard(j)
    BY DEF Same, SameCard
  <1> QED
    BY <1>2, <1>3, DecisionStays, ShownStays DEF ZcodeInv

\* resolve accepts the answer, or closes a record it finds too late.
LEMMA ResolveInv ==
    ASSUME ZcodeInv, Resolve
    PROVE  ZcodeInv'
  <1>0. TypeOK /\ cmd \in Commands /\ cmd.i \in Invokes /\ cmd.d \in Answers
    BY DEF ZcodeInv, TypeOK, Commands
  <1>1. PICK i \in Invokes : i = cmd.i
    BY <1>0
  <1>2. PICK d \in Answers : d = cmd.d
    BY <1>0
  <1>3. Decision(i) /\ Shown(i)
    BY DEF ZcodeInv
  <1>4. UNCHANGED <<dl, deliv, srv, sock, hp, out, card, stream, held, snap, told,
                    answers, restarts, starts>>
    BY DEF Resolve, view, bounds
  <1>5. CASE Resolvable(i) /\ srv[i] \in {"publish", "select"}
    <2>1. /\ reg' = [reg EXCEPT ![i] = "Decided"] /\ chan' = [chan EXCEPT ![i] = d]
          /\ cmd' = [cmd EXCEPT !.ph = "deliver"] /\ orphaned' = orphaned
          /\ decided' = [decided EXCEPT ![i] = Append(decided[i], d)]
      BY <1>0, <1>1, <1>2, <1>5 DEF Resolve, TypeOK
    <2>2. reg[i] = "Waiting" /\ decided[i] = <<>> /\ chan[i] = "empty"
      BY <1>3, <1>5 DEF Resolvable, Decision, Undecided
    <2>3. Append(decided[i], d) = <<d>> /\ <<d>> \in Seq(Answers) /\ Len(<<d>>) = 1
      BY <2>2
    <2>4. /\ reg' \in [Invokes -> {"none", "Waiting", "Decided"} \cup Terminal]
          /\ reg'[i] = "Decided"
          /\ \A j \in Invokes : j # i => reg'[j] = reg[j]
      BY <1>0, <2>1 DEF TypeOK
    <2>5. /\ chan' \in [Invokes -> {"empty", "dropped"} \cup Answers]
          /\ chan'[i] = d
          /\ \A j \in Invokes : j # i => chan'[j] = chan[j]
      BY <1>0, <2>1 DEF TypeOK
    <2>6. /\ decided' \in [Invokes -> Seq(Answers)]
          /\ decided'[i] = <<d>>
          /\ \A j \in Invokes : j # i => decided'[j] = decided[j]
      BY <1>0, <2>1, <2>3 DEF TypeOK
    <2>7. cmd' \in Commands /\ cmd'.i = i /\ cmd'.d = d
      BY <1>0, <1>1, <1>2, <2>1 DEF Commands
    <2>8. \A j \in Invokes : srv'[j] = "idle" => reg'[j] = "none"
      BY <1>0, <1>4, <1>5, <2>4 DEF TypeOK
    <2>9. TypeOK'
      BY <1>0, <1>4, <2>1, <2>4, <2>5, <2>6, <2>7, <2>8 DEF TypeOK
    <2>10. \A j \in Invokes : j # i => Same(j) /\ SameCard(j)
      BY <1>4, <2>1, <2>4, <2>5, <2>6, <2>7 DEF Same, SameCard
    <2>11. sock[i].reply = "none" /\ ~sock[i].ack /\ hp[i] # "output" /\ out[i] \notin Answers
      <3>1. sock[i].reply = "none" /\ ~sock[i].ack /\ hp[i] # "output"
        BY <1>0, <1>3, <1>5 DEF TypeOK, Connections, Decision, Written, Handed
      <3>2. out[i] \in Answers => decided[i] = <<out[i]>>
        BY <1>3 DEF Decision, Handed
      <3>3. out[i] \in Answers => Len(decided[i]) = 1
        BY <3>2
      <3> QED
        BY <2>2, <3>1, <3>3
    <2>12. Fresh(i)' /\ Undecided(i)' /\ Chosen(i)'
      BY <1>4, <1>5, <2>3, <2>4, <2>5, <2>6 DEF Fresh, Undecided, Chosen
    <2>13. Written(i)'
      BY <1>4, <1>5, <2>11 DEF Written, Answers
    <2>14. Handed(i)' /\ Confirmed(i)'
      BY <1>3, <1>4, <2>6, <2>7, <2>11 DEF Decision, Handed, Confirmed
    <2>15. Shown(i)'
      BY <1>3, <1>4, <1>5, <2>1, <2>4, <2>5
      DEF Shown, Buffered, ClosedEarly, OverIsClean, Over, Clean, Answers
    <2> QED
      BY <2>9, <2>10, <2>12, <2>13, <2>14, <2>15, OnlyOne DEF Decision
  <1>6. CASE ~(Resolvable(i) /\ srv[i] \in {"publish", "select"})
    <2>1. /\ reg' = [reg EXCEPT ![i] =
                      IF @ # "Waiting" THEN @ ELSE IF dl[i] THEN "Expired" ELSE "Local"]
          /\ orphaned' = IF reg[i] = "Waiting" /\ ~dl[i] THEN orphaned \cup {i} ELSE orphaned
          /\ cmd' = NoCmd /\ UNCHANGED <<chan, decided>>
      BY <1>1, <1>6 DEF Resolve
    <2>2. /\ reg' \in [Invokes -> {"none", "Waiting", "Decided"} \cup Terminal]
          /\ \A j \in Invokes : j # i => reg'[j] = reg[j]
          /\ \/ reg'[i] = reg[i] /\ reg[i] # "Waiting"
             \/ reg[i] = "Waiting" /\ reg'[i] = "Expired"
             \/ reg[i] = "Waiting" /\ reg'[i] = "Local" /\ i \in orphaned'
      BY <1>0, <2>1 DEF TypeOK, Terminal
    <2>3. orphaned \subseteq orphaned' /\ orphaned' \subseteq Invokes
      BY <1>0, <2>1 DEF TypeOK
    <2>4. \A j \in Invokes : srv'[j] = "idle" => reg'[j] = "none"
      BY <1>0, <1>3, <1>4, <2>2 DEF TypeOK
    <2>5. TypeOK'
      BY <1>0, <1>4, <2>1, <2>2, <2>3, <2>4, Domains DEF TypeOK
    <2>6. \A j \in Invokes : j # i => Same(j) /\ SameCard(j)
      BY <1>4, <2>1, <2>2, <2>3, Domains DEF Same, SameCard
    <2>7. Decision(i)'
      BY <1>3, <1>4, <2>1, <2>2, Domains
      DEF Decision, Fresh, Undecided, Chosen, Written, Handed, Confirmed, NativeOutput
    <2>8. Shown(i)'
      BY <1>3, <1>4, <2>1, <2>2, <2>3
      DEF Shown, Buffered, ClosedEarly, OverIsClean, Over, Clean
    <2> QED
      BY <2>5, <2>6, <2>7, <2>8, OnlyOne
  <1> QED
    BY <1>5, <1>6

\* The Browser is told COMPLETED of a delivery that was confirmed.
LEMMA AwaitDeliveryInv ==
    ASSUME ZcodeInv, AwaitDelivery
    PROVE  ZcodeInv'
  <1> USE DEF AwaitDelivery, registry, view, bounds
  <1>0. TypeOK /\ cmd.i \in Invokes /\ cmd.d \in Answers
    BY DEF ZcodeInv, TypeOK, Commands
  <1>1. PICK i \in Invokes : i = cmd.i
    BY <1>0
  <1>2. PICK d \in Answers : d = cmd.d
    BY <1>0
  <1>3. Decision(i) /\ Shown(i)
    BY DEF ZcodeInv
  <1>4. /\ cmd' = NoCmd
        /\ \/ told' = told
           \/ told' = told \cup {[i |-> i, d |-> d]} /\ deliv[i] = "delivered"
    BY <1>1, <1>2
  <1>5. told' \subseteq [i : Invokes, d : Answers]
    BY <1>0, <1>4 DEF TypeOK
  <1>6. TypeOK'
    BY <1>0, <1>4, <1>5, Domains DEF TypeOK
  <1>7. \A j \in Invokes : j # i => Same(j) /\ SameCard(j)
    BY <1>4, Domains DEF Same, SameCard
  <1>8. deliv[i] = "delivered" => sock[i].ack /\ out[i] = d
    <2> SUFFICES ASSUME deliv[i] = "delivered" PROVE sock[i].ack /\ out[i] = d
      OBVIOUS
    <2>1. sock[i].ack /\ sock[i].reply \in Answers
      BY <1>3 DEF Decision, Confirmed
    <2>2. out[i] = sock[i].reply /\ decided[i] = <<sock[i].reply>>
      BY <1>3, <2>1 DEF Decision, Handed, NativeOutput, Written
    <2>3. decided[i] = <<d>>
      BY <1>1, <1>2, <1>3 DEF Decision, Confirmed
    <2>4. sock[i].reply = d
      BY <2>2, <2>3
    <2> QED
      BY <2>1, <2>2, <2>4
  <1>9. \A t \in told' : t.i = i => sock[i].ack /\ out[i] = t.d
    BY <1>3, <1>4, <1>8 DEF Decision, Confirmed
  <1>10. Confirmed(i)'
    BY <1>3, <1>4, <1>9, Domains DEF Decision, Confirmed
  <1>11. Fresh(i)' /\ Undecided(i)' /\ Chosen(i)' /\ Written(i)' /\ Handed(i)'
    BY <1>3 DEF Decision, Fresh, Undecided, Chosen, Written, Handed, NativeOutput
  <1>12. Shown(i)'
    BY <1>3 DEF Shown, Buffered, ClosedEarly, OverIsClean, Over, Clean
  <1> QED
    BY <1>6, <1>7, <1>10, <1>11, <1>12, OnlyOne DEF Decision

\* The Bridge restarts: no record and no card is left.
LEMMA RestartInv ==
    ASSUME ZcodeInv, BridgeRestarts
    PROVE  ZcodeInv'
  <1> USE DEF BridgeRestarts
  <1>0. TypeOK
    BY DEF ZcodeInv
  <1>1. /\ reg' \in [Invokes -> {"none", "Waiting", "Decided"} \cup Terminal]
        /\ restarts' \in 0..MaxRestarts
    BY <1>0, ZcodeAssumption DEF TypeOK
  <1>2. srv' \in [Invokes -> {"idle", "publish", "select", "write", "gone",
                              "timeout", "ack", "done"}]
    BY <1>0 DEF TypeOK
  <1>3. /\ stream' \in [Sessions -> {"none", "live", "buffering", "taken"}]
        /\ card' \in [Invokes -> BOOLEAN] /\ snap' \in [Invokes -> BOOLEAN]
        /\ held' \in [Invokes -> {"none", "added", "removed"}]
    OBVIOUS
  <1>4. TypeOK'
    BY <1>0, <1>1, <1>2, <1>3, Domains DEF TypeOK
  <1>5. ASSUME NEW i \in Invokes PROVE Decision(i)'
    <2>1. reg'[i] = "none" /\ srv'[i] = IF srv[i] = "idle" THEN "idle" ELSE "done"
      OBVIOUS
    <2>2. Decision(i)
      BY DEF ZcodeInv
    <2> QED
      BY <2>1, <2>2, Domains
      DEF Decision, Fresh, Undecided, Chosen, Written, Handed, Confirmed, NativeOutput, Answers
  <1>6. ASSUME NEW i \in Invokes PROVE Shown(i)'
    <2>1. stream'[Session(i)] = "none" /\ held'[i] = "none" /\ reg'[i] = "none"
          /\ (srv'[i] = "publish" => FALSE)
      BY Domains
    <2> QED
      BY <2>1 DEF Shown, Buffered, ClosedEarly, OverIsClean, Clean
  <1> QED
    BY <1>4, <1>5, <1>6 DEF ZcodeInv

-----------------------------------------------------------------------------
(* The theorems. *)

\* Every step keeps the invariant.
LEMMA StepInv == ZcodeInv /\ [Next]_vars => ZcodeInv'
  <1> SUFFICES ASSUME ZcodeInv, [Next]_vars PROVE ZcodeInv'
    OBVIOUS
  <1>1. CASE UNCHANGED vars
    <2> USE <1>1 DEF vars, registry, view, history, bounds
    <2>1. TypeOK'
      BY DEF ZcodeInv, TypeOK
    <2>2. ASSUME NEW j \in Invokes PROVE Same(j) /\ SameCard(j)
      BY DEF Same, SameCard
    <2> QED
      BY <2>1, <2>2, DecisionStays, ShownStays DEF ZcodeInv
  <1>2. ASSUME NEW i \in Invokes,
               \/ HelperCalls(i) \/ HookOutputs(i) \/ McpOutputs(i) \/ HelperAcks(i)
               \/ HelperLeaves(i) \/ Cancel(i) \/ DeadlinePasses(i)
        PROVE  ZcodeInv'
    BY <1>2, HelperCallsInv, OutputsInv, HelperEndsInv, CancelInv, DeadlinePassesInv
  <1>3. ASSUME NEW i \in Invokes, ServerSteps(i)
        PROVE  ZcodeInv'
    BY <1>3, AcceptInv, PublishInv, SelectInv, WriteReplyInv, WaitAckInv, SettleInv
    DEF ServerSteps
  <1>4. ASSUME NEW i \in Invokes, NEW d \in Answers, Match(i, d)
        PROVE  ZcodeInv'
    BY <1>4, MatchInv
  <1>5. ASSUME NEW s \in Sessions, StreamStarts(s) \/ RuntimeSnapshot(s) \/ SnapshotSent(s)
        PROVE  ZcodeInv'
    BY <1>5, StreamStartsInv, RuntimeSnapshotInv, SnapshotSentInv
  <1>6. CASE Resolve \/ AwaitDelivery \/ BridgeRestarts
    BY <1>6, ResolveInv, AwaitDeliveryInv, RestartInv
  <1> QED
    BY <1>1, <1>2, <1>3, <1>4, <1>5, <1>6 DEF Next

\* The inductive invariant holds in every behaviour, for any number of
\* invokes, answers, restarts and streams.
THEOREM ZcodeInvariant == Spec => []ZcodeInv
  BY InitInv, StepInv, PTL DEF Spec

\* One answer per invoke is accepted, and the native runtime is given that
\* one or none: a timeout, a cancellation and a restart never approve
\* (resolve, settle_without_decision, run_hook).
THEOREM DecisionsAreSingle == Spec => []OneDecision
  <1>1. ZcodeInv => OneDecision
    BY DEF ZcodeInv, Decision, Chosen, Handed, OneDecision
  <1> QED
    BY <1>1, ZcodeInvariant, PTL

\* COMPLETED is said only of an answer the native runtime got
\* (wait_delivery_ack, complete_delivery, take_delivery).
THEOREM ZcodeCompletedMeansOutput == Spec => []CompletedWasOutput
  <1>1. ZcodeInv => CompletedWasOutput
    BY DEF ZcodeInv, TypeOK, Decision, Confirmed, CompletedWasOutput
  <1> QED
    BY <1>1, ZcodeInvariant, PTL

\* When the server is done with an invoke its record is closed and its card
\* gone, apart from the races the model names (settle_without_decision,
\* complete_delivery, establish_session_stream).
THEOREM NoCardIsLeft == Spec => []NothingLeftBehind
  <1>1. ZcodeInv => NothingLeftBehind
    <2> SUFFICES ASSUME ZcodeInv, NEW i \in Invokes, srv[i] = "done"
                 PROVE  /\ reg[i] \notin {"Waiting", "Decided"}
                        /\ card[i] => \/ i \in orphaned
                                      \/ stream[Session(i)] \in {"buffering", "taken"}
      BY DEF NothingLeftBehind
    <2>1. reg[i] \notin {"Waiting", "Decided"}
      BY DEF ZcodeInv, Decision, Undecided, Chosen
    <2>2. Clean(i) \/ i \in orphaned
      BY DEF ZcodeInv, Shown, OverIsClean, Over
    <2>3. stream[Session(i)] \in {"none", "live", "buffering", "taken"}
      BY Domains DEF ZcodeInv, TypeOK
    <2> QED
      BY <2>1, <2>2, <2>3 DEF ZcodeInv, Shown, Buffered, Clean
  <1> QED
    BY <1>1, ZcodeInvariant, PTL
=============================================================================
