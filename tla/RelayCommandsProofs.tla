------------------------ MODULE RelayCommandsProofs ------------------------
(***************************************************************************)
(* TLAPS proofs about RelayCommands: a request id reaches the Bridge at    *)
(* most once, and what browsers are told of receipts agrees with the       *)
(* Bridge.                                                                 *)
(***************************************************************************)
EXTENDS RelayCommands, SequenceTheorems, TLAPS

-----------------------------------------------------------------------------
(* Queues as the sets of their elements.                                   *)

\* Nothing is in the empty sequence.
LEMMA RangeEmpty == Range(<<>>) = {}
  BY DEF Range

\* An appended element is added to the elements of a queue.
LEMMA RangeAppend ==
    ASSUME NEW S, NEW q \in Seq(S), NEW x \in S
    PROVE  Range(Append(q, x)) = Range(q) \cup {x}
  <1>1. <<x>> \in Seq(S) /\ Range(<<x>>) = {x}
    BY DEF Range
  <1>2. Append(q, x) = q \o <<x>>
    BY AppendIsConcat
  <1>3. Range(q \o <<x>>) = Range(q) \cup Range(<<x>>)
    BY <1>1, RangeConcatenation
  <1> QED
    BY <1>1, <1>2, <1>3

\* A queue is its head and its tail.
LEMMA RangeSplit ==
    ASSUME NEW S, NEW q \in Seq(S), q # <<>>
    PROVE  Range(q) = {Head(q)} \cup Range(Tail(q))
  <1>1. Head(q) \in S /\ Tail(q) \in Seq(S) /\ q = <<Head(q)>> \o Tail(q)
    OBVIOUS
  <1>2. <<Head(q)>> \in Seq(S) /\ Range(<<Head(q)>>) = {Head(q)}
    BY <1>1 DEF Range
  <1>3. \A a, b \in Seq(S) : Range(a \o b) = Range(a) \cup Range(b)
    BY RangeConcatenation
  <1> QED
    BY <1>1, <1>2, <1>3

\* A prefix brings nothing new.
LEMMA RangePrefix ==
    ASSUME NEW S, NEW q \in Seq(S), NEW n \in 0 .. Len(q)
    PROVE  SubSeq(q, 1, n) \in Seq(S) /\ Range(SubSeq(q, 1, n)) \subseteq Range(q)
  <1>1. /\ SubSeq(q, 1, n) \in Seq(S) /\ Len(q) \in Nat
        /\ DOMAIN SubSeq(q, 1, n) = 1 .. n /\ DOMAIN q = 1 .. Len(q)
        /\ \A i \in 1 .. n : SubSeq(q, 1, n)[i] = q[i]
    OBVIOUS
  <1> QED
    BY <1>1 DEF Range

-----------------------------------------------------------------------------

Verdicts == {"COMPLETED", "REJECTED"}

\* The browser task that inserted the receipt of r and has not yet answered
\* or handed the command over.
Owner(b, r) ==
    /\ submit[b].at \in {"inserted", "registered", "failed", "taken"}
    /\ submit[b].rid = r

\* The right to forward a request belongs to whoever inserted its row.
OneOwner ==
    \A r \in Requests :
        /\ forwarded[r] \in {0, 1}
        /\ ~HasRow(r) => forwarded[r] = 0
        /\ \A b \in Browsers : Owner(b, r) =>
              /\ HasRow(r) /\ forwarded[r] = 0
              /\ \A o \in Browsers : Owner(o, r) => o = b

\* The Bridge knows only requests that were forwarded.
OnlyForwarded ==
    \A r \in Requests :
        \/ bridge[r] # "none"
        \/ \E s \in Sessions : r \in Range(toBridge[s])
        => forwarded[r] = 1

\* A receipt frame anywhere between the Bridge and the receipt table.
Carried(f) ==
    \/ f \in Range(outbound)
    \/ \E s \in Sessions : f \in Range(fromBridge[s]) \/ saving[s] = f

\* The Bridge has settled the request the way the frame says.
TrueFrame(f) == f.status \in Verdicts => bridge[f.rid] = f.status
FramesAreTrue == \A f \in Frame : Carried(f) => TrueFrame(f)

\* A status in the receipt table, or told as the content of it.
Stated(r, s) ==
    \/ receipt[r].status = s
    \/ \E m \in told : m.recorded /\ m.rid = r /\ m.status = s

\* The row exists, and nobody has forwarded the request or ever will.
NeverForwarded(r) ==
    HasRow(r) /\ forwarded[r] = 0 /\ \A b \in Browsers : ~Owner(b, r)

TrueStatement(r, s) ==
    bridge[r] = s \/ (s = "REJECTED" /\ NeverForwarded(r))
StatedIsTrue ==
    \A r \in Requests, s \in Verdicts : Stated(r, s) => TrueStatement(r, s)

RelayInv ==
    /\ TypeOK
    /\ OneOwner
    /\ OnlyForwarded
    /\ FramesAreTrue
    /\ StatedIsTrue

-----------------------------------------------------------------------------
(* Facts about the operators. *)

\* What the type invariant says of a browser task that is at work.
LEMMA TaskFields ==
    ASSUME TypeOK, NEW b \in Browsers, submit[b].at # "idle"
    PROVE  /\ submit[b] # Idle /\ submit[b] \in Tasks
           /\ submit[b].rid \in Requests /\ submit[b].digest \in Digests
  <1>1. submit[b] # Idle
    BY DEF Idle
  <1>2. submit[b] \in Tasks
    BY <1>1 DEF TypeOK
  <1> QED
    BY <1>1, <1>2 DEF Tasks

\* Moving a browser task to another step keeps its request.
LEMMA TaskMoves ==
    ASSUME TypeOK, NEW b \in Browsers, submit[b].at # "idle",
           NEW a \in {"online", "inserted", "registered", "failed", "taken"},
           submit' = [submit EXCEPT ![b].at = a]
    PROVE  /\ submit'[b].at = a /\ submit'[b].rid = submit[b].rid
           /\ \A o \in Browsers : o # b => submit'[o] = submit[o]
           /\ submit' \in [Browsers -> Tasks \cup {Idle}]
  <1>1. submit[b] \in Tasks
    BY TaskFields
  <1>2. /\ submit' = [submit EXCEPT ![b] = [submit[b] EXCEPT !.at = a]]
        /\ submit'[b] = [submit[b] EXCEPT !.at = a]
        /\ \A o \in Browsers : o # b => submit'[o] = submit[o]
    BY DEF TypeOK
  <1>3. /\ [submit[b] EXCEPT !.at = a] \in Tasks
        /\ [submit[b] EXCEPT !.at = a].at = a
        /\ [submit[b] EXCEPT !.at = a].rid = submit[b].rid
    BY <1>1 DEF Tasks
  <1> QED
    BY <1>2, <1>3 DEF TypeOK

\* Ending a browser task.
LEMMA TaskEnds ==
    ASSUME TypeOK, NEW b \in Browsers, submit' = [submit EXCEPT ![b] = Idle]
    PROVE  /\ submit'[b] = Idle
           /\ \A o \in Browsers : o # b => submit'[o] = submit[o]
           /\ submit' \in [Browsers -> Tasks \cup {Idle}]
  BY DEF TypeOK

\* A stored row is never the absent one.
LEMMA RowsAreThere == \A w \in Rows : w # NoRow
  BY DEF Rows, NoRow, Status, FromBridge, Final

\* update_receipt keeps every row; at most one status changes.
LEMMA UpdateKeeps ==
    ASSUME TypeOK, NEW r \in Requests, NEW s \in Status, UpdateReceipt(r, s)
    PROVE  /\ receipt' \in [Requests -> Rows \cup {NoRow}]
           /\ \A q \in Requests :
                 /\ HasRow(q)' <=> HasRow(q)
                 /\ \/ receipt'[q].status = receipt[q].status
                    \/ q = r /\ receipt'[q].status = s
  <1>1. CASE UNCHANGED receipt
    BY <1>1 DEF TypeOK, HasRow
  <1>2. CASE HasRow(r) /\ receipt' = [receipt EXCEPT ![r].status = s]
    <2>1. receipt[r] \in Rows
      BY <1>2 DEF TypeOK, HasRow
    <2>2. receipt'[r] \in Rows /\ receipt'[r].status = s
      BY <1>2, <2>1 DEF TypeOK, Rows
    <2>3. \A q \in Requests : q # r => receipt'[q] = receipt[q]
      BY <1>2 DEF TypeOK
    <2>4. receipt' \in [Requests -> Rows \cup {NoRow}]
      BY <1>2, <2>2, <2>3 DEF TypeOK
    <2> QED
      BY <1>2, <2>2, <2>3, <2>4, RowsAreThere DEF HasRow
  <1> QED
    BY <1>1, <1>2 DEF UpdateReceipt

\* A message to a browser has its type.
LEMMA ToldType ==
    ASSUME NEW b \in Browsers, NEW r \in Requests, NEW s \in Status,
           NEW rec \in BOOLEAN
    PROVE  /\ Told(b, r, s, rec) \in Message
           /\ Told(b, r, s, rec).rid = r /\ Told(b, r, s, rec).status = s
           /\ Told(b, r, s, rec).recorded = rec
  BY DEF Told, Message

\* What waiting browsers are told is a message with that status.
LEMMA ResultsType ==
    ASSUME TypeOK, NEW R \in SUBSET Requests, NEW s \in Status
    PROVE  \A m \in ResultsOf(R, s) :
               m \in Message /\ m.recorded /\ m.rid \in R /\ m.status = s
  <1> TAKE m \in ResultsOf(R, s)
  <1>1. PICK r \in R : pending[r] # Nobody /\ m = Told(pending[r], r, s, TRUE)
    BY DEF ResultsOf
  <1>2. pending[r] \in Browsers /\ r \in Requests
    BY <1>1 DEF TypeOK
  <1> QED
    BY <1>1, <1>2, ToldType

\* A connection number other than 0 is one of a session.
LEMMA SettlerIsSession == \A s \in Settlers : s # 0 => s \in Sessions
  BY RelayBounds DEF Settlers, Sessions

\* A frame that is being saved is a frame.
LEMMA SavingType ==
    ASSUME TypeOK, NEW s \in Sessions, saving[s] # NoFrame
    PROVE  saving[s] \in Frame /\ saving[s].rid \in Requests
           /\ saving[s].status \in Status
  BY DEF TypeOK, Frame, Status

\* The statuses the Relay itself gives.
LEMMA OwnStatuses ==
    {"REJECTED", "OUTCOME_UNKNOWN", "RECEIVED"} \subseteq Status
  BY DEF Status, FromBridge, Final

-----------------------------------------------------------------------------
(* Type correctness. *)

\* Every variable starts with its type.
LEMMA InitType == Init => TypeOK
  <1> SUFFICES ASSUME Init PROVE TypeOK
    OBVIOUS
  <1>1. \A S : <<>> \in Seq(S)
    OBVIOUS
  <1>2. /\ toBridge \in [Sessions -> Seq(Requests)]
        /\ fromBridge \in [Sessions -> Seq(Frame)]
        /\ outbound \in Seq(Frame)
    BY <1>1 DEF Init
  <1>3. registered \in Settlers /\ client \in Settlers
    BY RelayBounds DEF Init, Settlers
  <1> QED
    BY <1>2, <1>3 DEF Init, TypeOK

\* A browser's command is taken, or refused without a receipt.
LEMMA SubmitType ==
    ASSUME TypeOK, NEW b \in Browsers, NEW r \in Requests, NEW d \in Digests,
           Within(Submit(b, r, d))
    PROVE  TypeOK'
  <1> USE DEF Within, Submit
  <1>1. Told(b, r, "REJECTED", FALSE) \in Message
    BY ToldType, OwnStatuses
  <1>2. [at |-> "online", rid |-> r, digest |-> d] \in Tasks
    BY DEF Tasks
  <1>3. submit' \in [Browsers -> Tasks \cup {Idle}] /\ told' \subseteq Message
    BY <1>1, <1>2 DEF TypeOK
  <1>4. submits' \in Nat
    BY DEF TypeOK
  <1> QED
    BY <1>3, <1>4 DEF TypeOK, connections, frames, bridgeSide

\* insert_receipt, or the answer from the row that is there.
LEMMA InsertType ==
    ASSUME TypeOK, NEW b \in Browsers, Within(InsertReceipt(b))
    PROVE  TypeOK'
  <1> USE DEF Within, InsertReceipt
  <1> DEFINE r == submit[b].rid
  <1>1. submit[b].at # "idle" /\ r \in Requests /\ submit[b].digest \in Digests
    BY TaskFields
  <1>2. submit' \in [Browsers -> Tasks \cup {Idle}]
    BY <1>1, TaskMoves, TaskEnds
  <1>3. [digest |-> submit[b].digest, status |-> "RECEIVED"] \in Rows
    BY <1>1, OwnStatuses DEF Rows
  <1>4. receipt' \in [Requests -> Rows \cup {NoRow}]
    BY <1>1, <1>3 DEF TypeOK
  <1>5. told' \subseteq Message
    <2>1. CASE UNCHANGED told
      BY <2>1 DEF TypeOK
    <2>2. CASE HasRow(r) /\ told' = told \cup
                  {IF receipt[r].digest = submit[b].digest
                   THEN Told(b, r, receipt[r].status, TRUE)
                   ELSE Told(b, r, "REJECTED", FALSE)}
      <3>1. receipt[r].status \in Status
        BY <1>1, <2>2 DEF TypeOK, HasRow, Rows
      <3>2. /\ Told(b, r, receipt[r].status, TRUE) \in Message
            /\ Told(b, r, "REJECTED", FALSE) \in Message
        BY <1>1, <3>1, ToldType, OwnStatuses
      <3> QED
        BY <2>2, <3>2 DEF TypeOK
    <2> QED
      BY <2>1, <2>2
  <1> QED
    BY <1>2, <1>4, <1>5
    DEF TypeOK, connections, frames, bridgeSide, counters

\* register_command and take_command.
LEMMA PendingType ==
    ASSUME TypeOK, NEW b \in Browsers,
           Within(RegisterCommand(b)) \/ Within(TakeCommand(b))
    PROVE  TypeOK'
  <1> USE DEF Within, RegisterCommand, TakeCommand
  <1>1. submit[b].at # "idle" /\ submit[b].rid \in Requests
    BY TaskFields
  <1>2. submit' \in [Browsers -> Tasks \cup {Idle}]
    BY <1>1, TaskMoves
  <1>3. pending' \in [Requests -> Browsers \cup {Nobody}]
    BY <1>1 DEF TypeOK
  <1> QED
    BY <1>2, <1>3
    DEF TypeOK, connections, frames, bridgeSide, counters

\* send_to_bridge.
LEMMA ForwardType ==
    ASSUME TypeOK, NEW b \in Browsers, Within(Forward(b))
    PROVE  TypeOK'
  <1> USE DEF Within, Forward
  <1>1. submit[b].at # "idle" /\ submit[b].rid \in Requests
    BY TaskFields
  <1>2. submit' \in [Browsers -> Tasks \cup {Idle}]
    BY <1>1, TaskMoves, TaskEnds
  <1>3. toBridge' \in [Sessions -> Seq(Requests)]
    <2>1. CASE UNCHANGED toBridge
      BY <2>1 DEF TypeOK
    <2>2. CASE registered # 0 /\ toBridge' = [toBridge EXCEPT ![registered] =
                                                Append(@, submit[b].rid)]
      <3>1. registered \in Sessions
        BY <2>2, SettlerIsSession DEF TypeOK
      <3>2. Append(toBridge[registered], submit[b].rid) \in Seq(Requests)
        BY <1>1, <3>1 DEF TypeOK
      <3> QED
        BY <2>2, <3>2 DEF TypeOK
    <2> QED
      BY <2>1, <2>2
  <1>4. forwarded' \in [Requests -> Nat]
    <2>1. \/ UNCHANGED forwarded
          \/ forwarded' = [forwarded EXCEPT ![submit[b].rid] = @ + 1]
      OBVIOUS
    <2> HIDE DEF Within, Forward
    <2> QED
      BY <1>1, <2>1 DEF TypeOK
  <1> QED
    BY <1>2, <1>3, <1>4 DEF TypeOK, connections, bridgeSide, counters

\* A command that could not be forwarded is rejected.
LEMMA RejectType ==
    ASSUME TypeOK, NEW b \in Browsers, Within(RejectForward(b))
    PROVE  TypeOK'
  <1> USE DEF Within, RejectForward
  <1>1. submit[b].at # "idle" /\ submit[b].rid \in Requests
    BY TaskFields
  <1>2. submit' \in [Browsers -> Tasks \cup {Idle}]
    BY TaskEnds
  <1>3. receipt' \in [Requests -> Rows \cup {NoRow}]
    BY <1>1, OwnStatuses, UpdateKeeps
  <1>4. told' \subseteq Message
    <2>1. Told(b, submit[b].rid, "REJECTED", TRUE) \in Message
      BY <1>1, ToldType, OwnStatuses
    <2> QED
      BY <2>1 DEF TypeOK
  <1> QED
    BY <1>2, <1>3, <1>4
    DEF TypeOK, connections, frames, bridgeSide, counters

\* A Bridge connects, or a session task moves on.
LEMMA SessionType ==
    ASSUME TypeOK, NEW s \in Sessions,
           Within(Connect(s)) \/ Within(SessionEnds(s)) \/ Within(SessionGone(s))
    PROVE  TypeOK'
  <1>1. session' \in [Sessions -> {"unused", "open", "closing", "removed", "gone"}]
    BY DEF TypeOK, Within, Connect, SessionEnds, SessionGone
  <1>2. s \in Settlers
    BY RelayBounds DEF Sessions, Settlers
  <1>3. /\ registered' \in Settlers /\ client' \in Settlers
        /\ closing' \subseteq Sessions
    BY <1>2, SettlerIsSession
    DEF TypeOK, Within, Connect, SessionEnds, SessionGone, bridgeSide
  <1>4. UNCHANGED <<pending, receipt, submit, saving, cleanup, toBridge,
                    fromBridge, told, outbound, bridge, unheard, forwarded, shutdown,
                    submits, crashes, bounds>>
    BY DEF Within, Connect, SessionEnds, SessionGone, frames, bridgeSide, counters
  <1> QED
    BY <1>1, <1>3, <1>4 DEF TypeOK

\* The session task reads a receipt frame.
LEMMA ReadType ==
    ASSUME TypeOK, NEW s \in Sessions, Within(ReadFrame(s))
    PROVE  TypeOK'
  <1> USE DEF Within, ReadFrame
  <1> DEFINE f == Head(fromBridge[s])
  <1>1. f \in Frame /\ Tail(fromBridge[s]) \in Seq(Frame)
    BY DEF TypeOK
  <1>2. f.rid \in Requests /\ f.status \in Status
    BY <1>1 DEF Frame, Status
  <1>3. /\ told' = told \cup ResultsOf({f.rid}, f.status)
        /\ saving' = [saving EXCEPT ![s] = f]
        /\ fromBridge' = [fromBridge EXCEPT ![s] = Tail(fromBridge[s])]
        /\ pending' \in {pending, [pending EXCEPT ![f.rid] = Nobody]}
    OBVIOUS
  <1>4. UNCHANGED <<session, closing, registered, receipt, submit, cleanup,
                    toBridge, client, outbound, bridge, unheard, forwarded, shutdown,
                    submits, crashes, bounds>>
    BY DEF connections, bridgeSide, counters
  <1> HIDE DEF Within, ReadFrame, f
  <1>5. told' \subseteq Message
    BY <1>2, <1>3, ResultsType DEF TypeOK
  <1>6. pending' \in [Requests -> Browsers \cup {Nobody}]
    BY <1>2, <1>3 DEF TypeOK
  <1>7. /\ saving' \in [Sessions -> Frame \cup {NoFrame}]
        /\ fromBridge' \in [Sessions -> Seq(Frame)]
    BY <1>1, <1>3 DEF TypeOK
  <1> QED
    BY <1>4, <1>5, <1>6, <1>7 DEF TypeOK

\* The session task stores it.
LEMMA SaveType ==
    ASSUME TypeOK, NEW s \in Sessions, Within(SaveFrame(s))
    PROVE  TypeOK'
  <1>1. receipt' \in [Requests -> Rows \cup {NoRow}]
    BY SavingType, UpdateKeeps DEF Within, SaveFrame
  <1>2. saving' \in [Sessions -> Frame \cup {NoFrame}]
    BY DEF TypeOK, Within, SaveFrame
  <1> QED
    BY <1>1, <1>2
    DEF TypeOK, Within, SaveFrame, connections, frames, bridgeSide, counters

\* remove_bridge and begin_shutdown end all pending commands.
LEMMA EndPendingType ==
    ASSUME TypeOK,
           Within(BeginShutdown) \/ \E s \in Sessions : Within(RemoveBridge(s))
    PROVE  TypeOK'
  <1>1. /\ told' = told \cup ResultsOf(Unfinished, "OUTCOME_UNKNOWN")
        /\ \E s \in Settlers : cleanup' = [cleanup EXCEPT ![s] = Unfinished]
        /\ pending' = [r \in Requests |-> Nobody]
    BY RelayBounds
    DEF Within, BeginShutdown, RemoveBridge, Forget, Settlers, Sessions
  <1>2. Unfinished \in SUBSET Requests
    BY DEF Unfinished
  <1>3. told' \subseteq Message
    BY <1>1, <1>2, ResultsType, OwnStatuses DEF TypeOK
  <1>4. /\ cleanup' \in [Settlers -> SUBSET Requests]
        /\ pending' \in [Requests -> Browsers \cup {Nobody}]
    BY <1>1, <1>2 DEF TypeOK
  <1>5. session' \in [Sessions -> {"unused", "open", "closing", "removed", "gone"}]
    BY DEF TypeOK, Within, BeginShutdown, RemoveBridge, connections
  <1>6. registered' \in {registered, 0} /\ shutdown' \in {shutdown, TRUE}
    BY DEF Within, BeginShutdown, RemoveBridge, connections
  <1>7. registered' \in Settlers
    BY <1>6, RelayBounds DEF TypeOK, Settlers
  <1>8. shutdown' \in BOOLEAN
    BY <1>6 DEF TypeOK
  <1>9. UNCHANGED <<closing, receipt, submit, saving, toBridge, fromBridge,
                    client, outbound, bridge, unheard, forwarded, submits, crashes,
                    bounds>>
    BY DEF Within, BeginShutdown, RemoveBridge, connections, frames,
       bridgeSide, counters
  <1> QED
    BY <1>3, <1>4, <1>5, <1>7, <1>8, <1>9 DEF TypeOK

\* The receipts of commands that a lost connection or shutdown has ended.
LEMMA CleanupType ==
    ASSUME TypeOK, NEW s \in Settlers, Within(SaveCleanup(s))
    PROVE  TypeOK'
  <1>1. PICK r \in cleanup[s] : /\ UpdateReceipt(r, "OUTCOME_UNKNOWN")
                                /\ cleanup' = [cleanup EXCEPT ![s] = @ \ {r}]
    BY DEF Within, SaveCleanup
  <1>2. r \in Requests
    BY DEF TypeOK
  <1>3. receipt' \in [Requests -> Rows \cup {NoRow}]
    BY <1>1, <1>2, UpdateKeeps, OwnStatuses
  <1>4. cleanup' \in [Settlers -> SUBSET Requests]
    BY <1>1 DEF TypeOK
  <1> QED
    BY <1>3, <1>4
    DEF TypeOK, Within, SaveCleanup, connections, frames, bridgeSide, counters

\* The Relay process dies.
LEMMA CrashType ==
    ASSUME TypeOK, Within(Crash)
    PROVE  TypeOK'
  <1> USE DEF Within, Crash
  <1>1. \A S : <<>> \in Seq(S)
    OBVIOUS
  <1>2. /\ fromBridge' \in [Sessions -> Seq(Frame)]
        /\ saving' \in [Sessions -> Frame \cup {NoFrame}]
        /\ submit' \in [Browsers -> Tasks \cup {Idle}]
        /\ cleanup' \in [Settlers -> SUBSET Requests]
        /\ pending' \in [Requests -> Browsers \cup {Nobody}]
    BY <1>1 DEF Forget
  <1>3. session' \in [Sessions -> {"unused", "open", "closing", "removed", "gone"}]
    OBVIOUS
  <1>4. registered' \in Settlers /\ crashes' \in Nat
    BY RelayBounds DEF TypeOK, Settlers
  <1> QED
    BY <1>2, <1>3, <1>4 DEF TypeOK, bridgeSide

\* The Bridge's side: it loses the connection, accepts, settles and sends.
LEMMA DisconnectType ==
    ASSUME TypeOK, Within(Disconnect)
    PROVE  TypeOK'
  <1>1. client \in Sessions
    BY SettlerIsSession DEF TypeOK, Within, Disconnect
  <1>2. PICK n \in 0 .. Len(fromBridge[client]) :
            fromBridge' = [fromBridge EXCEPT ![client] =
                              SubSeq(fromBridge[client], 1, n)]
    BY DEF Within, Disconnect
  <1>3. fromBridge[client] \in Seq(Frame)
    BY <1>1 DEF TypeOK
  <1>4. SubSeq(fromBridge[client], 1, n) \in Seq(Frame)
    BY <1>3, RangePrefix
  <1>5. fromBridge' \in [Sessions -> Seq(Frame)]
    BY <1>2, <1>4 DEF TypeOK
  <1>6. toBridge' \in [Sessions -> Seq(Requests)]
    <2>1. <<>> \in Seq(Requests)
      OBVIOUS
    <2>2. toBridge' = [toBridge EXCEPT ![client] = <<>>]
      BY DEF Within, Disconnect
    <2> QED
      BY <2>1, <2>2 DEF TypeOK
  <1>7. client' \in Settlers
    BY RelayBounds DEF Within, Disconnect, Settlers
  <1> QED
    BY <1>5, <1>6, <1>7 DEF TypeOK, Within, Disconnect, connections, counters

\* A receipt enters the queue, or is dropped.
LEMMA ReportType ==
    ASSUME TypeOK, NEW r \in Requests, NEW s \in FromBridge, Report(r, s)
    PROVE  outbound' \in Seq(Frame) /\ unheard' \subseteq Requests
  <1>1. PICK f \in Frame : f = [rid |-> r, status |-> s]
    BY DEF Frame
  <1>2. unheard' \subseteq Requests
    BY DEF Report, TypeOK
  <1>3. outbound' = outbound \/ outbound' = Append(outbound, f)
    BY <1>1 DEF Report
  <1>4. outbound \in Seq(Frame)
    BY DEF TypeOK
  <1>5. Append(outbound, f) \in Seq(Frame)
    BY <1>4
  <1> QED
    BY <1>2, <1>3, <1>4, <1>5

\* The Bridge takes a command, settles one, or sends a receipt.
LEMMA BridgeType ==
    ASSUME TypeOK, Within(BridgeStep)
    PROVE  TypeOK'
  <1>1. CASE BridgeAccepts
    <2>1. client \in Sessions
      BY <1>1, SettlerIsSession DEF TypeOK, BridgeAccepts
    <2>2. /\ Head(toBridge[client]) \in Requests
          /\ Tail(toBridge[client]) \in Seq(Requests)
      BY <1>1, <2>1 DEF TypeOK, BridgeAccepts
    <2>3. PICK s \in {"ACCEPTED_BY_BRIDGE", "REJECTED"} :
             /\ bridge' = [bridge EXCEPT ![Head(toBridge[client])] = s]
             /\ Report(Head(toBridge[client]), s)
      BY <1>1 DEF BridgeAccepts
    <2>4. s \in FromBridge
      BY DEF FromBridge, Final
    <2>5. bridge' \in [Requests -> FromBridge \cup {"none"}]
      BY <2>2, <2>3, <2>4 DEF TypeOK
    <2>6. outbound' \in Seq(Frame) /\ unheard' \subseteq Requests
      BY <2>2, <2>3, <2>4, ReportType
    <2>7. toBridge' \in [Sessions -> Seq(Requests)]
      BY <1>1, <2>2 DEF TypeOK, BridgeAccepts
    <2> QED
      BY <1>1, <2>5, <2>6, <2>7
      DEF TypeOK, Within, BridgeAccepts, connections, counters
  <1>2. CASE \E r \in Requests : BridgeSettles(r)
    <2>1. PICK r \in Requests, s \in FromBridge :
             /\ bridge' = [bridge EXCEPT ![r] = s]
             /\ Report(r, s)
      BY <1>2 DEF BridgeSettles, FromBridge
    <2>2. bridge' \in [Requests -> FromBridge \cup {"none"}]
      BY <2>1 DEF TypeOK
    <2>3. outbound' \in Seq(Frame) /\ unheard' \subseteq Requests
      BY <2>1, ReportType
    <2> QED
      BY <1>2, <2>2, <2>3
      DEF TypeOK, Within, BridgeSettles, connections, frames, counters
  <1>3. CASE BridgeSends
    <2>1. client \in Sessions
      BY <1>3, SettlerIsSession DEF TypeOK, BridgeSends
    <2>2. Head(outbound) \in Frame /\ outbound' \in Seq(Frame)
      BY <1>3 DEF TypeOK, BridgeSends
    <2>3. Append(fromBridge[client], Head(outbound)) \in Seq(Frame)
      BY <2>1, <2>2 DEF TypeOK
    <2>4. fromBridge' \in [Sessions -> Seq(Frame)]
      BY <1>3, <2>3 DEF TypeOK, BridgeSends
    <2> QED
      BY <1>3, <2>2, <2>4 DEF TypeOK, Within, BridgeSends, connections, counters
  <1> QED
    BY <1>1, <1>2, <1>3 DEF Within, BridgeStep

\* Every step of the Relay and its environment keeps the types.
LEMMA NextType == TypeOK /\ [Next]_vars => TypeOK'
  <1> SUFFICES ASSUME TypeOK, [Next]_vars PROVE TypeOK'
    OBVIOUS
  <1>1. ASSUME NEW b \in bounds.browsers, NEW r \in Requests,
               NEW d \in bounds.digests, Within(Submit(b, r, d))
        PROVE  TypeOK'
    <2>1. b \in Browsers /\ d \in Digests
      BY RelayBounds DEF TypeOK
    <2> QED
      BY <1>1, <2>1, SubmitType
  <1>2. ASSUME NEW b \in Browsers, Within(BrowserStep(b)) PROVE TypeOK'
    BY <1>2, InsertType, PendingType, ForwardType, RejectType
    DEF BrowserStep, Within
  <1>3. ASSUME NEW s \in Sessions, Within(Connect(s)) \/ Within(SessionStep(s))
        PROVE  TypeOK'
    BY <1>3, SessionType, ReadType, SaveType, EndPendingType
    DEF SessionStep, Within
  <1>4. ASSUME NEW s \in Settlers, Within(SaveCleanup(s)) PROVE TypeOK'
    BY <1>4, CleanupType
  <1>5. CASE Within(BeginShutdown)
    BY <1>5, EndPendingType
  <1>6. CASE Within(Crash)
    BY <1>6, CrashType
  <1>7. CASE Within(BridgeStep)
    BY <1>7, BridgeType
  <1>8. CASE Within(Disconnect)
    BY <1>8, DisconnectType
  <1>9. CASE UNCHANGED vars
    BY <1>9 DEF vars, TypeOK
  <1> QED
    BY <1>1, <1>2, <1>3, <1>4, <1>5, <1>6, <1>7, <1>8, <1>9 DEF Next

-----------------------------------------------------------------------------
(* The invariant. *)

\* In the initial state nothing is owned, carried or stated.
LEMMA InitRelay == Init => RelayInv
  <1> SUFFICES ASSUME Init PROVE RelayInv
    OBVIOUS
  <1>1. TypeOK
    BY InitType
  <1>2. OneOwner
    BY DEF Init, OneOwner, Owner, Idle
  <1>3. OnlyForwarded
    BY RangeEmpty DEF Init, OnlyForwarded
  <1>4. FramesAreTrue
    <2>1. \A f \in Frame : f # NoFrame
      BY DEF Frame, NoFrame, FromBridge, Final
    <2> QED
      BY <2>1, RangeEmpty DEF Init, FramesAreTrue, Carried
  <1>5. StatedIsTrue
    BY DEF Init, StatedIsTrue, Stated, NoRow, Verdicts
  <1> QED
    BY <1>1, <1>2, <1>3, <1>4, <1>5 DEF RelayInv

\* A step after which what is carried and stated is what was, or is true, and
\* which takes back no verdict of the Bridge and no loss of a request.
LEMMA StaysTrue ==
    ASSUME RelayInv,
           \A f \in Frame : Carried(f)' => Carried(f) \/ TrueFrame(f)',
           \A r \in Requests : bridge[r] \in Verdicts => bridge'[r] = bridge[r],
           \A r \in Requests, s \in Verdicts :
               Stated(r, s)' => Stated(r, s) \/ TrueStatement(r, s)',
           \A r \in Requests : NeverForwarded(r) => NeverForwarded(r)'
    PROVE  FramesAreTrue' /\ StatedIsTrue'
  <1>1. \A f \in Frame : TrueFrame(f) => TrueFrame(f)'
    BY DEF TrueFrame, Frame
  <1>2. \A r \in Requests, s \in Verdicts :
            TrueStatement(r, s) => TrueStatement(r, s)'
    BY DEF TrueStatement
  <1>3. FramesAreTrue'
    BY <1>1 DEF RelayInv, FramesAreTrue
  <1>4. StatedIsTrue'
    BY <1>2 DEF RelayInv, StatedIsTrue
  <1> QED
    BY <1>3, <1>4

\* Rows, owners and forwarding stay: so does everything said of them.
LEMMA OwnersStay ==
    ASSUME RelayInv,
           \A r \in Requests : HasRow(r)' <=> HasRow(r),
           \A b \in Browsers, r \in Requests : Owner(b, r)' <=> Owner(b, r),
           UNCHANGED forwarded
    PROVE  /\ OneOwner'
           /\ \A r \in Requests : NeverForwarded(r) => NeverForwarded(r)'
  BY DEF RelayInv, OneOwner, NeverForwarded

\* Neither the Bridge nor the command frames move.
LEMMA ForwardedStays ==
    ASSUME RelayInv, UNCHANGED <<bridge, forwarded>>,
           \A s \in Sessions : Range(toBridge'[s]) \subseteq Range(toBridge[s])
    PROVE  OnlyForwarded'
  BY DEF RelayInv, OnlyForwarded

\* A step that changes neither owners, rows, forwarding, commands, the Bridge
\* nor frames, and adds at most statements that are no verdicts.
LEMMA QuietStep ==
    ASSUME RelayInv, TypeOK',
           \A r \in Requests : HasRow(r)' <=> HasRow(r),
           \A b \in Browsers, r \in Requests : Owner(b, r)' <=> Owner(b, r),
           UNCHANGED <<forwarded, bridge>>,
           \A s \in Sessions : Range(toBridge'[s]) \subseteq Range(toBridge[s]),
           \A f \in Frame : Carried(f)' => Carried(f),
           \A r \in Requests, s \in Verdicts :
               Stated(r, s)' => Stated(r, s) \/ bridge[r] = s
    PROVE  RelayInv'
  <1>1. OneOwner' /\ \A r \in Requests : NeverForwarded(r) => NeverForwarded(r)'
    BY OwnersStay
  <1>2. OnlyForwarded'
    BY ForwardedStays
  <1>3. \A r \in Requests, s \in Verdicts :
            Stated(r, s)' => Stated(r, s) \/ TrueStatement(r, s)'
    BY DEF TrueStatement
  <1>4. FramesAreTrue' /\ StatedIsTrue'
    BY <1>1, <1>3, StaysTrue
  <1> QED
    BY <1>1, <1>2, <1>4 DEF RelayInv

\* A command is taken, not yet inserted; a refusal without a row states
\* nothing.
LEMMA SubmitRelay ==
    ASSUME RelayInv, NEW b \in Browsers, NEW r \in Requests, NEW d \in Digests,
           Within(Submit(b, r, d))
    PROVE  RelayInv'
  <1> USE DEF Within, Submit
  <1>1. TypeOK /\ TypeOK'
    BY SubmitType DEF RelayInv
  <1>2. UNCHANGED <<receipt, saving, toBridge, fromBridge, outbound, bridge,
                    forwarded>>
    BY DEF frames, bridgeSide
  <1>3. \A o \in Browsers, q \in Requests : Owner(o, q)' <=> Owner(o, q)
    <2>1. \A o \in Browsers : o # b => submit'[o] = submit[o]
      BY <1>1 DEF TypeOK
    <2>2. \/ submit'[b] = submit[b]
          \/ submit'[b] = [at |-> "online", rid |-> r, digest |-> d]
      BY <1>1 DEF TypeOK
    <2>3. submit[b].at = "idle" /\ submit'[b].at \in {"idle", "online"}
      BY <2>2 DEF Idle
    <2> QED
      BY <2>1, <2>3 DEF Owner
  <1>4. \A m \in told' : m \in told \/ ~m.recorded
    BY DEF Told
  <1> HIDE DEF Within, Submit
  <1>5. \A q \in Requests, s \in Verdicts : Stated(q, s)' => Stated(q, s)
    BY <1>2, <1>4 DEF Stated
  <1>6. \A f \in Frame : Carried(f)' => Carried(f)
    BY <1>2 DEF Carried
  <1> QED
    BY <1>1, <1>2, <1>3, <1>5, <1>6, QuietStep DEF HasRow

\* insert_receipt: a new row and its owner, or an answer from the row.
LEMMA InsertRelay ==
    ASSUME RelayInv, NEW b \in Browsers, Within(InsertReceipt(b))
    PROVE  RelayInv'
  <1>1. TypeOK /\ TypeOK'
    BY InsertType DEF RelayInv
  <1>2. PICK r \in Requests : r = submit[b].rid /\ submit[b].at = "online"
    BY <1>1, TaskFields DEF Within, InsertReceipt
  <1>3. UNCHANGED <<saving, toBridge, fromBridge, outbound, bridge, forwarded>>
    BY DEF Within, InsertReceipt, frames, bridgeSide
  <1>4. \A f \in Frame : Carried(f)' => Carried(f)
    BY <1>3 DEF Carried
  <1>5. CASE HasRow(r)
    <2>1. /\ told' = told \cup
                {IF receipt[r].digest = submit[b].digest
                 THEN Told(b, r, receipt[r].status, TRUE)
                 ELSE Told(b, r, "REJECTED", FALSE)}
          /\ submit' = [submit EXCEPT ![b] = Idle] /\ UNCHANGED receipt
      BY <1>2, <1>5 DEF Within, InsertReceipt
    <2>2. \A m \in told' : \/ m \in told \/ ~m.recorded
                           \/ m.rid = r /\ m.status = receipt[r].status
      BY <2>1 DEF Told
    <2>3. \A q \in Requests, s \in Verdicts : Stated(q, s)' => Stated(q, s)
      BY <2>1, <2>2 DEF Stated
    <2>4. \A o \in Browsers, q \in Requests : Owner(o, q)' <=> Owner(o, q)
      BY <1>1, <1>2, <2>1, TaskEnds DEF Owner, Idle
    <2> QED
      BY <1>1, <1>3, <1>4, <2>1, <2>3, <2>4, QuietStep DEF HasRow
  <1>6. CASE ~HasRow(r)
    <2>1. /\ receipt' = [receipt EXCEPT ![r] =
                            [digest |-> submit[b].digest, status |-> "RECEIVED"]]
          /\ submit' = [submit EXCEPT ![b].at = "inserted"] /\ UNCHANGED told
      BY <1>2, <1>6 DEF Within, InsertReceipt
    <2>2. /\ receipt'[r].status = "RECEIVED" /\ HasRow(r)'
          /\ \A q \in Requests : q # r => receipt'[q] = receipt[q]
      BY <1>1, <1>2, <2>1 DEF TypeOK, HasRow, NoRow
    <2>3. /\ submit'[b].at = "inserted" /\ submit'[b].rid = r
          /\ \A o \in Browsers : o # b => submit'[o] = submit[o]
      BY <1>1, <1>2, <2>1, TaskMoves
    <2>4. \A o \in Browsers : ~Owner(o, r)
      BY <1>2, <1>6 DEF RelayInv, OneOwner
    <2>5. forwarded[r] = 0
      BY <1>2, <1>6 DEF RelayInv, OneOwner
    <2>6. \A o \in Browsers, q \in Requests :
              Owner(o, q)' <=> (Owner(o, q) \/ (o = b /\ q = r))
      BY <1>2, <2>3 DEF Owner
    <2>7. OneOwner'
      BY <1>3, <2>2, <2>4, <2>5, <2>6 DEF RelayInv, OneOwner, HasRow
    <2>8. OnlyForwarded'
      BY <1>3, ForwardedStays
    <2>9. \A q \in Requests : NeverForwarded(q) => NeverForwarded(q)'
      BY <1>3, <1>6, <2>2, <2>6 DEF NeverForwarded, HasRow
    <2>10. \A q \in Requests, s \in Verdicts : Stated(q, s)' => Stated(q, s)
      BY <2>1, <2>2 DEF Stated, Verdicts
    <2>11. FramesAreTrue' /\ StatedIsTrue'
      BY <1>3, <1>4, <2>9, <2>10, StaysTrue
    <2> QED
      BY <1>1, <2>7, <2>8, <2>11 DEF RelayInv
  <1> QED
    BY <1>5, <1>6

\* The owner moves on with its request.
LEMMA OwnerMoves ==
    ASSUME RelayInv, TypeOK', NEW b \in Browsers,
           submit[b].at \in {"inserted", "registered", "failed"},
           NEW a \in {"registered", "failed", "taken"},
           submit' = [submit EXCEPT ![b].at = a],
           UNCHANGED <<receipt, saving, toBridge, fromBridge, outbound, bridge,
                       forwarded, told>>
    PROVE  RelayInv'
  <1>1. TypeOK /\ submit[b].at # "idle"
        /\ a \in {"online", "inserted", "registered", "failed", "taken"}
    BY DEF RelayInv
  <1>2. \A o \in Browsers, q \in Requests : Owner(o, q)' <=> Owner(o, q)
    BY <1>1, TaskMoves DEF Owner
  <1>3. \A q \in Requests, s \in Verdicts : Stated(q, s)' => Stated(q, s)
    BY DEF Stated
  <1>4. \A f \in Frame : Carried(f)' => Carried(f)
    BY DEF Carried
  <1> QED
    BY <1>2, <1>3, <1>4, QuietStep DEF HasRow

\* register_command and take_command.
LEMMA PendingRelay ==
    ASSUME RelayInv, NEW b \in Browsers,
           Within(RegisterCommand(b)) \/ Within(TakeCommand(b))
    PROVE  RelayInv'
  <1>1. TypeOK'
    BY PendingType DEF RelayInv
  <1> QED
    BY <1>1, OwnerMoves
    DEF Within, RegisterCommand, TakeCommand, frames, bridgeSide

\* send_to_bridge spends the right to forward, or fails.
LEMMA ForwardRelay ==
    ASSUME RelayInv, NEW b \in Browsers, Within(Forward(b))
    PROVE  RelayInv'
  <1>1. TypeOK /\ TypeOK'
    BY ForwardType DEF RelayInv
  <1>2. PICK r \in Requests : r = submit[b].rid /\ submit[b].at = "registered"
    BY <1>1, TaskFields DEF Within, Forward
  <1>3. UNCHANGED <<receipt, saving, fromBridge, outbound, bridge, told>>
    BY DEF Within, Forward, bridgeSide
  <1>4. CASE /\ submit' = [submit EXCEPT ![b].at = "failed"]
             /\ UNCHANGED <<toBridge, forwarded>>
    BY <1>1, <1>2, <1>3, <1>4, OwnerMoves
  <1>5. CASE /\ registered # 0
             /\ toBridge' = [toBridge EXCEPT ![registered] = Append(@, r)]
             /\ forwarded' = [forwarded EXCEPT ![r] = @ + 1]
             /\ submit' = [submit EXCEPT ![b] = Idle]
    <2>1. /\ submit'[b].at = "idle"
          /\ \A o \in Browsers : o # b => submit'[o] = submit[o]
      BY <1>1, <1>5, TaskEnds DEF Idle
    <2>2. Owner(b, r)
      BY <1>2 DEF Owner
    <2>3. forwarded[r] = 0 /\ HasRow(r)
          /\ \A o \in Browsers : Owner(o, r) => o = b
      BY <1>2, <2>2 DEF RelayInv, OneOwner
    <2>4. \A q \in Requests : forwarded'[q] = IF q = r THEN 1 ELSE forwarded[q]
      BY <1>1, <1>2, <1>5, <2>3 DEF TypeOK
    <2>5. \A s \in Sessions : Range(toBridge'[s]) \subseteq Range(toBridge[s]) \cup {r}
      <3>1. registered \in Sessions
        BY <1>1, <1>5, SettlerIsSession DEF TypeOK
      <3>2. \A s \in Sessions :
                toBridge'[s] = IF s = registered THEN Append(toBridge[s], r)
                               ELSE toBridge[s]
        BY <1>1, <1>5, <3>1 DEF TypeOK
      <3>3. \A s \in Sessions : toBridge[s] \in Seq(Requests)
        BY <1>1 DEF TypeOK
      <3> QED
        BY <3>2, <3>3, RangeAppend
    <2>6. \A o \in Browsers, q \in Requests :
              Owner(o, q)' <=> (Owner(o, q) /\ o # b)
      BY <2>1 DEF Owner
    <2>7. OneOwner'
      <3> SUFFICES ASSUME NEW q \in Requests
                   PROVE  /\ forwarded'[q] \in {0, 1}
                          /\ ~HasRow(q)' => forwarded'[q] = 0
                          /\ \A o \in Browsers : Owner(o, q)' =>
                                /\ HasRow(q)' /\ forwarded'[q] = 0
                                /\ \A p \in Browsers : Owner(p, q)' => p = o
        BY DEF OneOwner
      <3>1. CASE q = r
        BY <1>3, <2>3, <2>4, <2>6, <3>1 DEF HasRow
      <3>2. CASE q # r
        BY <1>3, <2>4, <2>6, <3>2 DEF RelayInv, OneOwner, HasRow
      <3> QED
        BY <3>1, <3>2
    <2>8. OnlyForwarded'
      BY <1>3, <2>4, <2>5 DEF RelayInv, OnlyForwarded
    <2>9. \A q \in Requests : NeverForwarded(q) => NeverForwarded(q)'
      BY <1>3, <2>2, <2>4, <2>6 DEF NeverForwarded, HasRow
    <2>10. \A q \in Requests, s \in Verdicts : Stated(q, s)' => Stated(q, s)
      BY <1>3 DEF Stated
    <2>11. \A f \in Frame : Carried(f)' => Carried(f)
      BY <1>3 DEF Carried
    <2>12. FramesAreTrue' /\ StatedIsTrue'
      BY <1>3, <2>9, <2>10, <2>11, StaysTrue
    <2> QED
      BY <1>1, <2>7, <2>8, <2>12 DEF RelayInv
  <1> QED
    BY <1>2, <1>4, <1>5 DEF Within, Forward

\* The owner of a command it could not forward rejects it: nobody else can.
LEMMA RejectRelay ==
    ASSUME RelayInv, NEW b \in Browsers, Within(RejectForward(b))
    PROVE  RelayInv'
  <1>1. TypeOK /\ TypeOK'
    BY RejectType DEF RelayInv
  <1>2. PICK r \in Requests : r = submit[b].rid /\ submit[b].at = "taken"
    BY <1>1, TaskFields DEF Within, RejectForward
  <1>3. /\ UNCHANGED <<saving, toBridge, fromBridge, outbound, bridge, forwarded>>
        /\ submit' = [submit EXCEPT ![b] = Idle]
        /\ UpdateReceipt(r, "REJECTED")
        /\ told' = told \cup {Told(b, r, "REJECTED", TRUE)}
    BY <1>2 DEF Within, RejectForward, frames, bridgeSide
  <1>4. \A q \in Requests :
            /\ HasRow(q)' <=> HasRow(q)
            /\ \/ receipt'[q].status = receipt[q].status
               \/ q = r /\ receipt'[q].status = "REJECTED"
    BY <1>1, <1>2, <1>3, UpdateKeeps, OwnStatuses
  <1>5. /\ submit'[b].at = "idle"
        /\ \A o \in Browsers : o # b => submit'[o] = submit[o]
    BY <1>1, <1>3, TaskEnds DEF Idle
  <1>6. Owner(b, r)
    BY <1>2 DEF Owner
  <1>7. forwarded[r] = 0 /\ HasRow(r) /\ \A o \in Browsers : Owner(o, r) => o = b
    BY <1>2, <1>6 DEF RelayInv, OneOwner
  <1>8. \A o \in Browsers, q \in Requests : Owner(o, q)' <=> (Owner(o, q) /\ o # b)
    BY <1>5 DEF Owner
  <1>9. OneOwner'
    BY <1>3, <1>4, <1>8 DEF RelayInv, OneOwner
  <1>10. OnlyForwarded'
    BY <1>3, ForwardedStays
  <1>11. \A q \in Requests : NeverForwarded(q) => NeverForwarded(q)'
    BY <1>3, <1>4, <1>8 DEF NeverForwarded
  <1>12. NeverForwarded(r)'
    BY <1>2, <1>3, <1>4, <1>7, <1>8 DEF NeverForwarded
  <1>13. \A q \in Requests, s \in Verdicts :
             Stated(q, s)' => Stated(q, s) \/ TrueStatement(q, s)'
    <2>1. \A m \in told' : m \in told \/ (m.rid = r /\ m.status = "REJECTED")
      BY <1>3 DEF Told
    <2>2. \A q \in Requests, s \in Verdicts :
              Stated(q, s)' => Stated(q, s) \/ (q = r /\ s = "REJECTED")
      BY <1>4, <2>1 DEF Stated
    <2> QED
      BY <1>12, <2>2 DEF TrueStatement
  <1>14. \A f \in Frame : Carried(f)' => Carried(f)
    BY <1>3 DEF Carried
  <1>15. FramesAreTrue' /\ StatedIsTrue'
    BY <1>3, <1>11, <1>13, <1>14, StaysTrue
  <1> QED
    BY <1>1, <1>9, <1>10, <1>15 DEF RelayInv

\* Connections come and go: nothing the invariant speaks of moves.
LEMMA SessionRelay ==
    ASSUME RelayInv, NEW s \in Sessions,
           Within(Connect(s)) \/ Within(SessionEnds(s)) \/ Within(SessionGone(s))
    PROVE  RelayInv'
  <1>1. TypeOK'
    BY SessionType DEF RelayInv
  <1>2. UNCHANGED <<receipt, submit, saving, toBridge, fromBridge, told,
                    outbound, bridge, forwarded>>
    BY DEF Within, Connect, SessionEnds, SessionGone, frames, bridgeSide
  <1>3. \A q \in Requests, v \in Verdicts : Stated(q, v)' => Stated(q, v)
    BY <1>2 DEF Stated
  <1>4. \A f \in Frame : Carried(f)' => Carried(f)
    BY <1>2 DEF Carried
  <1> QED
    BY <1>1, <1>2, <1>3, <1>4, QuietStep DEF HasRow, Owner

\* A frame is read: it is told, and carried on to the receipt table.
LEMMA ReadRelay ==
    ASSUME RelayInv, NEW s \in Sessions, Within(ReadFrame(s))
    PROVE  RelayInv'
  <1> DEFINE f == Head(fromBridge[s])
  <1>1. TypeOK /\ TypeOK'
    BY ReadType DEF RelayInv
  <1>2. fromBridge[s] \in Seq(Frame) /\ fromBridge[s] # <<>>
    BY <1>1 DEF TypeOK, Within, ReadFrame
  <1>3. f \in Frame /\ f \in Range(fromBridge[s])
        /\ Range(Tail(fromBridge[s])) \subseteq Range(fromBridge[s])
    BY <1>2, RangeSplit
  <1>4. f.rid \in Requests /\ f.status \in Status
    BY <1>3 DEF Frame, Status
  <1>5. /\ told' = told \cup ResultsOf({f.rid}, f.status)
        /\ saving' = [saving EXCEPT ![s] = f]
        /\ fromBridge' = [fromBridge EXCEPT ![s] = Tail(fromBridge[s])]
        /\ UNCHANGED <<receipt, submit, toBridge, outbound, bridge, forwarded>>
    BY DEF Within, ReadFrame, bridgeSide
  <1>6. TrueFrame(f)
    BY <1>3 DEF RelayInv, FramesAreTrue, Carried
  <1> HIDE DEF f
  <1>7. \A m \in told' : m \in told \/ (m.rid = f.rid /\ m.status = f.status)
    BY <1>1, <1>4, <1>5, ResultsType
  <1>8. \A q \in Requests, v \in Verdicts :
            Stated(q, v)' => Stated(q, v) \/ bridge[q] = v
    BY <1>5, <1>6, <1>7 DEF Stated, TrueFrame
  <1>9. \A o \in Sessions :
            /\ saving'[o] = IF o = s THEN f ELSE saving[o]
            /\ Range(fromBridge'[o]) \subseteq Range(fromBridge[o])
    BY <1>1, <1>3, <1>5 DEF TypeOK
  <1>10. \A g \in Frame : Carried(g)' => Carried(g)
    BY <1>3, <1>5, <1>9 DEF Carried
  <1> QED
    BY <1>1, <1>5, <1>8, <1>10, QuietStep DEF HasRow, Owner

\* A frame is stored: the row says what the Bridge said.
LEMMA SaveRelay ==
    ASSUME RelayInv, NEW s \in Sessions, Within(SaveFrame(s))
    PROVE  RelayInv'
  <1>1. TypeOK /\ TypeOK'
    BY SaveType DEF RelayInv
  <1>2. saving[s] \in Frame /\ saving[s].rid \in Requests
        /\ saving[s].status \in Status
    BY <1>1, SavingType DEF Within, SaveFrame
  <1>3. PICK f \in Frame : f = saving[s]
    BY <1>2
  <1>4. TrueFrame(f) /\ f.rid \in Requests /\ f.status \in Status
    BY <1>2, <1>3 DEF RelayInv, FramesAreTrue, Carried
  <1>5. /\ UpdateReceipt(f.rid, f.status)
        /\ saving' = [saving EXCEPT ![s] = NoFrame]
        /\ UNCHANGED <<told, fromBridge, submit, toBridge, outbound, bridge,
                       forwarded>>
    BY <1>3 DEF Within, SaveFrame, frames, bridgeSide
  <1>6. \A q \in Requests :
            /\ HasRow(q)' <=> HasRow(q)
            /\ \/ receipt'[q].status = receipt[q].status
               \/ q = f.rid /\ receipt'[q].status = f.status
    BY <1>1, <1>4, <1>5, UpdateKeeps
  <1>7. \A q \in Requests, v \in Verdicts :
            Stated(q, v)' => Stated(q, v) \/ bridge[q] = v
    BY <1>4, <1>5, <1>6 DEF Stated, TrueFrame
  <1>8. \A o \in Sessions : saving'[o] \in {saving[o], NoFrame}
    BY <1>1, <1>5 DEF TypeOK
  <1>9. \A g \in Frame : g # NoFrame
    BY DEF Frame, NoFrame, FromBridge, Final
  <1>10. \A g \in Frame : Carried(g)' => Carried(g)
    BY <1>5, <1>8, <1>9 DEF Carried
  <1> QED
    BY <1>1, <1>5, <1>6, <1>7, <1>10, QuietStep DEF Owner

\* remove_bridge and begin_shutdown tell OUTCOME_UNKNOWN, no verdict.
LEMMA EndPendingRelay ==
    ASSUME RelayInv,
           Within(BeginShutdown) \/ \E s \in Sessions : Within(RemoveBridge(s))
    PROVE  RelayInv'
  <1>1. TypeOK /\ TypeOK'
    BY EndPendingType DEF RelayInv
  <1>2. /\ told' = told \cup ResultsOf(Unfinished, "OUTCOME_UNKNOWN")
        /\ UNCHANGED <<receipt, submit, saving, toBridge, fromBridge, outbound,
                       bridge, forwarded>>
    BY DEF Within, BeginShutdown, RemoveBridge, frames, bridgeSide
  <1>3. Unfinished \in SUBSET Requests
    BY DEF Unfinished
  <1>4. \A m \in told' : m \in told \/ m.status = "OUTCOME_UNKNOWN"
    BY <1>1, <1>2, <1>3, ResultsType, OwnStatuses
  <1>5. \A q \in Requests, v \in Verdicts : Stated(q, v)' => Stated(q, v)
    BY <1>2, <1>4 DEF Stated, Verdicts
  <1>6. \A f \in Frame : Carried(f)' => Carried(f)
    BY <1>2 DEF Carried
  <1> QED
    BY <1>1, <1>2, <1>5, <1>6, QuietStep DEF HasRow, Owner

\* ... and store it.
LEMMA CleanupRelay ==
    ASSUME RelayInv, NEW s \in Settlers, Within(SaveCleanup(s))
    PROVE  RelayInv'
  <1>1. TypeOK /\ TypeOK'
    BY CleanupType DEF RelayInv
  <1>2. PICK r \in cleanup[s] : UpdateReceipt(r, "OUTCOME_UNKNOWN")
    BY DEF Within, SaveCleanup
  <1>3. r \in Requests
    BY <1>1 DEF TypeOK
  <1>4. UNCHANGED <<told, submit, saving, toBridge, fromBridge, outbound,
                    bridge, forwarded>>
    BY DEF Within, SaveCleanup, frames, bridgeSide
  <1>5. \A q \in Requests :
            /\ HasRow(q)' <=> HasRow(q)
            /\ receipt'[q].status \in {receipt[q].status, "OUTCOME_UNKNOWN"}
    BY <1>1, <1>2, <1>3, UpdateKeeps, OwnStatuses
  <1>6. \A q \in Requests, v \in Verdicts : Stated(q, v)' => Stated(q, v)
    BY <1>4, <1>5 DEF Stated, Verdicts
  <1>7. \A f \in Frame : Carried(f)' => Carried(f)
    BY <1>4 DEF Carried
  <1> QED
    BY <1>1, <1>4, <1>5, <1>6, <1>7, QuietStep DEF Owner

\* The Relay dies: owners and frames in memory are gone, rows stay.
LEMMA CrashRelay ==
    ASSUME RelayInv, Within(Crash)
    PROVE  RelayInv'
  <1>1. TypeOK /\ TypeOK'
    BY CrashType DEF RelayInv
  <1>2. /\ UNCHANGED <<receipt, told, toBridge, outbound, bridge, forwarded>>
        /\ \A b \in Browsers : submit'[b].at = "idle"
        /\ \A s \in Sessions : fromBridge'[s] = <<>> /\ saving'[s] = NoFrame
    BY DEF Within, Crash, bridgeSide, Idle
  <1>3. \A b \in Browsers, r \in Requests : ~Owner(b, r)'
    BY <1>2 DEF Owner
  <1>4. OneOwner'
    BY <1>2, <1>3 DEF RelayInv, OneOwner, HasRow
  <1>5. OnlyForwarded'
    BY <1>2, ForwardedStays
  <1>6. \A r \in Requests : NeverForwarded(r) => NeverForwarded(r)'
    BY <1>2, <1>3 DEF NeverForwarded, HasRow
  <1>7. \A q \in Requests, v \in Verdicts : Stated(q, v)' => Stated(q, v)
    BY <1>2 DEF Stated
  <1>8. \A g \in Frame : g # NoFrame
    BY DEF Frame, NoFrame, FromBridge, Final
  <1>9. \A f \in Frame : Carried(f)' => Carried(f)
    BY <1>2, <1>8, RangeEmpty DEF Carried
  <1>10. FramesAreTrue' /\ StatedIsTrue'
    BY <1>2, <1>6, <1>7, <1>9, StaysTrue
  <1> QED
    BY <1>1, <1>4, <1>5, <1>10 DEF RelayInv

\* A connection is lost: commands and frames on it may be lost.
LEMMA DisconnectRelay ==
    ASSUME RelayInv, Within(Disconnect)
    PROVE  RelayInv'
  <1>1. TypeOK /\ TypeOK'
    BY DisconnectType DEF RelayInv
  <1>2. client \in Sessions
    BY <1>1, SettlerIsSession DEF TypeOK, Within, Disconnect
  <1>3. UNCHANGED <<receipt, told, submit, saving, outbound, bridge, forwarded>>
    BY DEF Within, Disconnect
  <1>4. \A s \in Sessions : Range(toBridge'[s]) \subseteq Range(toBridge[s])
    <2>1. \A s \in Sessions : toBridge'[s] \in {toBridge[s], <<>>}
      BY <1>1, <1>2 DEF TypeOK, Within, Disconnect
    <2> QED
      BY <2>1, RangeEmpty
  <1>5. \A s \in Sessions : Range(fromBridge'[s]) \subseteq Range(fromBridge[s])
    <2>1. PICK n \in 0 .. Len(fromBridge[client]) :
             fromBridge' = [fromBridge EXCEPT ![client] =
                               SubSeq(fromBridge[client], 1, n)]
      BY DEF Within, Disconnect
    <2>2. fromBridge[client] \in Seq(Frame)
      BY <1>1, <1>2 DEF TypeOK
    <2>3. Range(SubSeq(fromBridge[client], 1, n)) \subseteq Range(fromBridge[client])
      BY <2>2, RangePrefix
    <2>4. \A s \in Sessions :
              fromBridge'[s] = IF s = client
                               THEN SubSeq(fromBridge[client], 1, n)
                               ELSE fromBridge[s]
      BY <1>1, <2>1 DEF TypeOK
    <2> QED
      BY <2>3, <2>4
  <1>6. \A f \in Frame : Carried(f)' => Carried(f)
    BY <1>3, <1>5 DEF Carried
  <1>7. \A q \in Requests, v \in Verdicts : Stated(q, v)' => Stated(q, v)
    BY <1>3 DEF Stated
  <1> QED
    BY <1>1, <1>3, <1>4, <1>6, <1>7, QuietStep DEF HasRow, Owner

\* The Bridge gives a request a status it may give, and queues the frame or
\* drops it.
LEMMA BridgeSays ==
    ASSUME RelayInv, TypeOK', NEW r \in Requests, NEW v \in FromBridge,
           forwarded[r] = 1, bridge[r] \notin Verdicts,
           bridge' = [bridge EXCEPT ![r] = v],
           Report(r, v),
           UNCHANGED <<receipt, told, submit, saving, fromBridge, forwarded>>,
           \A s \in Sessions : Range(toBridge'[s]) \subseteq Range(toBridge[s])
    PROVE  RelayInv'
  <1> DEFINE f == [rid |-> r, status |-> v]
  <1>1. TypeOK /\ f \in Frame
    BY DEF RelayInv, Frame
  <1>2. Range(outbound') \subseteq Range(outbound) \cup {f}
    <2>1. outbound' = outbound \/ outbound' = Append(outbound, f)
      BY DEF Report
    <2>2. outbound \in Seq(Frame)
      BY <1>1 DEF TypeOK
    <2> HIDE DEF f
    <2>3. Range(Append(outbound, f)) = Range(outbound) \cup {f}
      BY <1>1, <2>2, RangeAppend
    <2> QED
      BY <2>1, <2>3
  <1>3. \A q \in Requests : bridge'[q] = IF q = r THEN v ELSE bridge[q]
    BY <1>1 DEF TypeOK
  <1>4. TrueFrame(f)'
    BY <1>3 DEF TrueFrame
  <1>5. \A g \in Frame : Carried(g)' => Carried(g) \/ TrueFrame(g)'
    BY <1>2, <1>4 DEF Carried
  <1>6. \A q \in Requests : bridge[q] \in Verdicts => bridge'[q] = bridge[q]
    BY <1>3
  <1>7. /\ OneOwner'
        /\ \A q \in Requests : NeverForwarded(q) => NeverForwarded(q)'
    BY OwnersStay DEF HasRow, Owner
  <1>8. OnlyForwarded'
    BY <1>3 DEF RelayInv, OnlyForwarded
  <1>9. \A q \in Requests, s \in Verdicts : Stated(q, s)' => Stated(q, s)
    BY DEF Stated
  <1>10. FramesAreTrue' /\ StatedIsTrue'
    BY <1>5, <1>6, <1>7, <1>9, StaysTrue
  <1> QED
    BY <1>7, <1>8, <1>10 DEF RelayInv

\* The Bridge takes a command, settles one, or sends a receipt.
LEMMA BridgeRelay ==
    ASSUME RelayInv, Within(BridgeStep)
    PROVE  RelayInv'
  <1>1. TypeOK /\ TypeOK'
    BY BridgeType DEF RelayInv
  <1>2. CASE BridgeAccepts
    <2>1. client \in Sessions
      BY <1>1, <1>2, SettlerIsSession DEF TypeOK, BridgeAccepts
    <2>2. toBridge[client] \in Seq(Requests) /\ toBridge[client] # <<>>
      BY <1>1, <1>2, <2>1 DEF TypeOK, BridgeAccepts
    <2>3. /\ Head(toBridge[client]) \in Requests
          /\ Head(toBridge[client]) \in Range(toBridge[client])
          /\ Range(Tail(toBridge[client])) \subseteq Range(toBridge[client])
      BY <2>2, RangeSplit
    <2>4. PICK r \in Requests, v \in {"ACCEPTED_BY_BRIDGE", "REJECTED"} :
             /\ r = Head(toBridge[client]) /\ bridge[r] = "none"
             /\ bridge' = [bridge EXCEPT ![r] = v]
             /\ Report(r, v)
      BY <1>2, <2>3 DEF BridgeAccepts
    <2>5. v \in FromBridge /\ bridge[r] \notin Verdicts
      BY <2>4 DEF FromBridge, Final, Verdicts
    <2>6. forwarded[r] = 1
      BY <2>1, <2>3, <2>4 DEF RelayInv, OnlyForwarded
    <2>7. \A s \in Sessions : Range(toBridge'[s]) \subseteq Range(toBridge[s])
      BY <1>1, <1>2, <2>3 DEF TypeOK, BridgeAccepts
    <2>8. UNCHANGED <<receipt, told, submit, saving, fromBridge, forwarded>>
      BY <1>2 DEF BridgeAccepts
    <2> QED
      BY <1>1, <2>4, <2>5, <2>6, <2>7, <2>8, BridgeSays
  <1>3. CASE \E r \in Requests : BridgeSettles(r)
    <2>1. PICK r \in Requests, v \in FromBridge :
             /\ bridge[r] \in {"ACCEPTED_BY_BRIDGE", "DISPATCHED_TO_CODEX"}
             /\ bridge' = [bridge EXCEPT ![r] = v]
             /\ Report(r, v)
      BY <1>3 DEF BridgeSettles, FromBridge
    <2>2. bridge[r] \notin Verdicts /\ bridge[r] # "none"
      BY <2>1 DEF Verdicts
    <2>3. forwarded[r] = 1
      BY <2>2 DEF RelayInv, OnlyForwarded
    <2>4. UNCHANGED <<receipt, told, submit, saving, fromBridge, forwarded,
                      toBridge>>
      BY <1>3 DEF BridgeSettles, frames
    <2> QED
      BY <1>1, <2>1, <2>2, <2>3, <2>4, BridgeSays
  <1>4. CASE BridgeSends
    <2>1. client \in Sessions
      BY <1>1, <1>4, SettlerIsSession DEF TypeOK, BridgeSends
    <2>2. outbound \in Seq(Frame) /\ outbound # <<>>
      BY <1>1, <1>4 DEF TypeOK, BridgeSends
    <2>3. /\ Head(outbound) \in Frame /\ Head(outbound) \in Range(outbound)
          /\ Range(outbound') \subseteq Range(outbound)
      BY <1>4, <2>2, RangeSplit DEF BridgeSends
    <2>4. \A s \in Sessions :
              fromBridge'[s] = IF s = client
                               THEN Append(fromBridge[s], Head(outbound))
                               ELSE fromBridge[s]
      BY <1>1, <1>4, <2>1 DEF TypeOK, BridgeSends
    <2>5. \A s \in Sessions : fromBridge[s] \in Seq(Frame)
      BY <1>1 DEF TypeOK
    <2>6. \A s \in Sessions : Range(fromBridge'[s])
                                  \subseteq Range(fromBridge[s]) \cup Range(outbound)
      BY <2>3, <2>4, <2>5, RangeAppend
    <2>7. UNCHANGED <<receipt, told, submit, saving, toBridge, bridge, forwarded>>
      BY <1>4 DEF BridgeSends
    <2>8. \A f \in Frame : Carried(f)' => Carried(f)
      BY <2>3, <2>6, <2>7 DEF Carried
    <2>9. \A q \in Requests, v \in Verdicts : Stated(q, v)' => Stated(q, v)
      BY <2>7 DEF Stated
    <2> QED
      BY <1>1, <2>7, <2>8, <2>9, QuietStep DEF HasRow, Owner
  <1> QED
    BY <1>2, <1>3, <1>4 DEF Within, BridgeStep

\* Every step keeps the invariant.
LEMMA NextRelay == RelayInv /\ [Next]_vars => RelayInv'
  <1> SUFFICES ASSUME RelayInv, [Next]_vars PROVE RelayInv'
    OBVIOUS
  <1>1. ASSUME NEW b \in bounds.browsers, NEW r \in Requests,
               NEW d \in bounds.digests, Within(Submit(b, r, d))
        PROVE  RelayInv'
    <2>1. b \in Browsers /\ d \in Digests
      BY RelayBounds DEF RelayInv, TypeOK
    <2> QED
      BY <1>1, <2>1, SubmitRelay
  <1>2. ASSUME NEW b \in Browsers, Within(BrowserStep(b)) PROVE RelayInv'
    BY <1>2, InsertRelay, PendingRelay, ForwardRelay, RejectRelay
    DEF BrowserStep, Within
  <1>3. ASSUME NEW s \in Sessions, Within(Connect(s)) \/ Within(SessionStep(s))
        PROVE  RelayInv'
    BY <1>3, SessionRelay, ReadRelay, SaveRelay, EndPendingRelay
    DEF SessionStep, Within
  <1>4. ASSUME NEW s \in Settlers, Within(SaveCleanup(s)) PROVE RelayInv'
    BY <1>4, CleanupRelay
  <1>5. CASE Within(BeginShutdown)
    BY <1>5, EndPendingRelay
  <1>6. CASE Within(Crash)
    BY <1>6, CrashRelay
  <1>7. CASE Within(BridgeStep)
    BY <1>7, BridgeRelay
  <1>8. CASE Within(Disconnect)
    BY <1>8, DisconnectRelay
  <1>9. CASE UNCHANGED vars
    <2>1. TypeOK'
      BY <1>9, NextType DEF RelayInv
    <2>2. UNCHANGED <<receipt, told, submit, saving, toBridge, fromBridge,
                      outbound, bridge, forwarded>>
      BY <1>9 DEF vars
    <2>3. \A q \in Requests, v \in Verdicts : Stated(q, v)' => Stated(q, v)
      BY <2>2 DEF Stated
    <2>4. \A f \in Frame : Carried(f)' => Carried(f)
      BY <2>2 DEF Carried
    <2> QED
      BY <2>1, <2>2, <2>3, <2>4, QuietStep DEF HasRow, Owner
  <1> QED
    BY <1>1, <1>2, <1>3, <1>4, <1>5, <1>6, <1>7, <1>8, <1>9 DEF Next

\* RelayInv holds in every reachable state.
THEOREM RelayInvariant == Spec => []RelayInv
  <1> QED
    BY InitRelay, NextRelay, PTL DEF Spec

\* The registry, the tasks, the frames and the receipt table keep their
\* types: no row gets a status outside the protocol.
THEOREM RelayTypeCorrect == Spec => []TypeOK
  <1>1. RelayInv => TypeOK
    BY DEF RelayInv
  <1> QED
    BY <1>1, RelayInvariant, PTL

\* insert_receipt gives one browser task the right to forward: for any number
\* of browsers, retries, connections, takeovers and crashes a request id is
\* handed to a Bridge connection at most once.
THEOREM ForwardedOnce == Spec => []ForwardedAtMostOnce
  <1>1. RelayInv => ForwardedAtMostOnce
    BY DEF RelayInv, OneOwner, ForwardedAtMostOnce
  <1> QED
    BY <1>1, RelayInvariant, PTL

\* COMPLETED and REJECTED, told to a browser as the content of a receipt,
\* agree with what the Bridge has done, although frames are lost, receipts
\* are written late or not at all, and connections take over.
THEOREM RelayAnswersAreTrue == Spec => []AnswersAreTrue
  <1>1. RelayInv => AnswersAreTrue
    <2> SUFFICES ASSUME RelayInv, NEW m \in told, m.recorded
                 PROVE  /\ m.status = "COMPLETED" => bridge[m.rid] = "COMPLETED"
                        /\ m.status = "REJECTED" =>
                              \/ bridge[m.rid] = "REJECTED"
                              \/ bridge[m.rid] = "none" /\ forwarded[m.rid] = 0
      BY DEF AnswersAreTrue
    <2>1. m.rid \in Requests
      BY DEF RelayInv, TypeOK, Message
    <2>2. m.status \in Verdicts => TrueStatement(m.rid, m.status)
      BY <2>1 DEF RelayInv, StatedIsTrue, Stated
    <2>3. NeverForwarded(m.rid) => bridge[m.rid] = "none" /\ forwarded[m.rid] = 0
      BY <2>1 DEF RelayInv, NeverForwarded, OnlyForwarded
    <2> QED
      BY <2>2, <2>3 DEF TrueStatement, Verdicts
  <1> QED
    BY <1>1, RelayInvariant, PTL
=============================================================================
