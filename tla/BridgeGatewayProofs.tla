------------------------ MODULE BridgeGatewayProofs ------------------------
(***************************************************************************)
(* TLAPS proofs about BridgeGateway.  First what happens: GatewayInv is    *)
(* inductive, and with it a request id takes effect at most once, under    *)
(* its recorded payload.  Then what is said of it: ReceiptInv is           *)
(* inductive; no request is called COMPLETED before its effect, none both  *)
(* COMPLETED and REJECTED, and the Bridge implements CommandService.       *)
(***************************************************************************)
EXTENDS GatewayRefinement, SequenceTheorems, TLAPS

-----------------------------------------------------------------------------
(* Queues as the sets of their elements.                                   *)

\* Nothing is in the empty sequence.
LEMMA RangeEmpty == Range(<<>>) = {}
  BY DEF Range

\* An appended element is added to the elements of a queue.
LEMMA RangeAppend ==
    ASSUME NEW S, NEW q \in Seq(S), NEW x \in S
    PROVE  Range(Append(q, x)) = Range(q) \cup {x}
  <1>1. <<x>> \in Seq(S) /\ Range(<<x>>) = {x}
    BY DEF Range
  <1>2. Append(q, x) = q \o <<x>>
    BY AppendIsConcat
  <1>3. Range(q \o <<x>>) = Range(q) \cup Range(<<x>>)
    BY <1>1, RangeConcatenation
  <1> QED
    BY <1>1, <1>2, <1>3

\* A queue is its head and its tail.
LEMMA RangeSplit ==
    ASSUME NEW S, NEW q \in Seq(S), q # <<>>
    PROVE  Range(q) = {Head(q)} \cup Range(Tail(q))
  <1>1. Head(q) \in S /\ Tail(q) \in Seq(S) /\ q = <<Head(q)>> \o Tail(q)
    OBVIOUS
  <1>2. <<Head(q)>> \in Seq(S) /\ Range(<<Head(q)>>) = {Head(q)}
    BY <1>1 DEF Range
  <1>3. \A a, b \in Seq(S) : Range(a \o b) = Range(a) \cup Range(b)
    BY RangeConcatenation
  <1> QED
    BY <1>1, <1>2, <1>3

-----------------------------------------------------------------------------

\* What the type invariant says of a handler that is at work.
LEMMA HandlerFields ==
    ASSUME TypeOK, handler # Idle
    PROVE  /\ handler.at \in {"recorded", "dispatch", "wait", "finalize"}
           /\ handler.rid \in Requests
           /\ handler.payload \in Payloads
           /\ handler.at = "finalize" => handler.outcome \in Terminal
  BY DEF TypeOK, HandlerStates, Idle

\* A handler at any step is not the idle one.
LEMMA HandlerAtWork ==
    ASSUME TypeOK, handler.at # "idle"
    PROVE  handler # Idle
  BY DEF Idle

\* update_receipt_status on an existing row keeps every row and its payload.
LEMMA UpdateKeepsRows ==
    ASSUME TypeOK, NEW r \in Requests, HasRow(r), NEW s \in Status,
           UpdateReceiptStatus(r, s)
    PROVE  /\ store' \in [Requests -> Rows \cup {NoRow}]
           /\ \A q \in Requests : /\ HasRow(q)' <=> HasRow(q)
                                  /\ store'[q].payload = store[q].payload
  <1>1. store[r] \in Rows
    BY DEF TypeOK, HasRow
  <1>2. CASE UNCHANGED store
    BY <1>2 DEF TypeOK, HasRow
  <1>3. CASE store' = [store EXCEPT ![r].status = s]
    <2>1. store'[r] \in Rows /\ store'[r].payload = store[r].payload
      BY <1>1, <1>3 DEF TypeOK, Rows
    <2>2. \A q \in Requests : q # r => store'[q] = store[q]
      BY <1>3 DEF TypeOK
    <2>3. \A w \in Rows : w # NoRow
      BY DEF Rows, NoRow, Status, Terminal
    <2>4. store' \in [Requests -> Rows \cup {NoRow}]
      BY <1>3, <2>1, <2>2 DEF TypeOK
    <2> QED
      BY <2>1, <2>2, <2>3, <2>4 DEF HasRow
  <1> QED
    BY <1>2, <1>3 DEF UpdateReceiptStatus

\* A message pushed to the outbound queue keeps the queue's type.
LEMMA PushType ==
    ASSUME NEW q \in Seq(Message), NEW m \in Message
    PROVE  Push(q, m) \in Seq(Message)
  BY DEF Push

\* The initial state satisfies the invariant.
LEMMA InitInv == Init => GatewayInv
  <1> SUFFICES ASSUME Init PROVE GatewayInv
    OBVIOUS
  <1>1. TypeOK
    <2>1. \A S : <<>> \in Seq(S)
      OBVIOUS
    <2>2. /\ inbox \in Seq(Command)
          /\ outbox \in Seq(Message)
          /\ forward \in [Requests -> Seq(Status)]
          /\ channel \in [Requests -> Seq(Status)]
      BY <2>1 DEF Init
    <2>3. handler \in HandlerStates
      BY DEF Init, HandlerStates
    <2>4. store \in [Requests -> Rows \cup {NoRow}]
      BY DEF Init
    <2> QED
      BY <2>2, <2>3, <2>4 DEF Init, TypeOK
  <1>2. \A r \in Requests : ~HasRow(r)
    BY DEF Init, HasRow
  <1>3. OpenHaveRows /\ HandlerIsRecorded /\ WireIsRecorded
    BY DEF Init, OpenHaveRows, HandlerIsRecorded, WireIsRecorded
  <1>4. SpentOnce /\ NotYetWritten /\ (\A e \in executed : RecordedAs(e))
    BY DEF Init, SpentOnce, NotYetWritten
  <1> QED
    BY <1>1, <1>3, <1>4 DEF GatewayInv

\* The environment queues a command.
LEMMA DeliverInv ==
    ASSUME GatewayInv, NEW c \in Command, Deliver(c)
    PROVE  GatewayInv'
  <1>1. TypeOK'
    BY DEF GatewayInv, TypeOK, Deliver, receiptTasks, effects
  <1>2. UNCHANGED <<handler, store, inflight, draining, forward, listening, wire, executions, executed>>
    BY DEF Deliver, receiptTasks, effects
  <1> QED
    BY <1>1, <1>2 DEF GatewayInv, OpenHaveRows, HandlerIsRecorded,
       WireIsRecorded, SpentOnce, OnItsWay, NotYetWritten, RecordedAs, HasRow

\* Steps that move the handler on before the command can have an effect.
LEMMA ValidateInv ==
    ASSUME GatewayInv, Validate
    PROVE  GatewayInv'
  <1>1. TypeOK'
    BY HandlerAtWork, HandlerFields
    DEF GatewayInv, TypeOK, Validate, Handling, Finalizing, HandlerStates,
        Terminal, receiptTasks, effects, counters
  <1>2. UNCHANGED <<store, inflight, draining, forward, listening, wire,
                    executions, executed>>
    BY DEF Validate, receiptTasks, effects
  <1> QED
    BY <1>1, <1>2
    DEF GatewayInv, OpenHaveRows, HandlerIsRecorded, WireIsRecorded, SpentOnce,
        OnItsWay, NotYetWritten, RecordedAs, HasRow, Validate, Handling,
        Finalizing, Idle

\* execute_command fails before the write: only the handler moves.
LEMMA DispatchFailsInv ==
    ASSUME GatewayInv, DispatchFails
    PROVE  GatewayInv'
  <1>1. TypeOK'
    BY HandlerAtWork, HandlerFields
    DEF GatewayInv, TypeOK, DispatchFails, Finalizing, HandlerStates,
        Terminal, receiptTasks, effects, counters
  <1>2. UNCHANGED <<store, inflight, draining, forward, listening, wire,
                    executions, executed>>
    BY DEF DispatchFails, receiptTasks, effects
  <1> QED
    BY <1>1, <1>2
    DEF GatewayInv, OpenHaveRows, HandlerIsRecorded, WireIsRecorded, SpentOnce,
        OnItsWay, NotYetWritten, RecordedAs, HasRow, DispatchFails, Finalizing,
        Idle

\* An error or a timeout of the IPC request: only the handler moves.
LEMMA NativeFailedInv ==
    ASSUME GatewayInv, NativeFailed
    PROVE  GatewayInv'
  <1>1. TypeOK'
    BY HandlerAtWork, HandlerFields
    DEF GatewayInv, TypeOK, NativeFailed, Finalizing, WriteErrorOutcome,
        HandlerStates, Terminal, receiptTasks, effects, counters
  <1>2. UNCHANGED <<store, inflight, draining, forward, listening, wire,
                    executions, executed>>
    BY DEF NativeFailed, receiptTasks, effects
  <1> QED
    BY <1>1, <1>2
    DEF GatewayInv, OpenHaveRows, HandlerIsRecorded, WireIsRecorded, SpentOnce,
        OnItsWay, NotYetWritten, RecordedAs, HasRow, NativeFailed, Finalizing,
        Idle

\* The reserved execution moves from the handler to the wire.
LEMMA WriteNativeInv ==
    ASSUME GatewayInv, WriteNative
    PROVE  GatewayInv'
  <1>1. handler.rid \in Requests /\ handler.payload \in Payloads /\ handler # Idle
    BY HandlerAtWork, HandlerFields DEF GatewayInv, WriteNative
  <1>2. TypeOK'
    BY <1>1
    DEF GatewayInv, TypeOK, WriteNative, Handling, HandlerStates, Command,
        receiptTasks, effects, counters
  <1>3. UNCHANGED <<store, inflight, draining, forward, listening,
                    executions, executed>>
    BY DEF WriteNative, receiptTasks, effects
  <1>4. handler'.rid = handler.rid /\ handler'.payload = handler.payload
        /\ handler'.at = "wait"
    BY DEF WriteNative, Handling
  <1>5. RecordedAs(handler)
    BY <1>1 DEF GatewayInv, HandlerIsRecorded
  <1>6. WireIsRecorded'
    BY <1>3, <1>5 DEF GatewayInv, WireIsRecorded, RecordedAs, HasRow, WriteNative
  <1>7. SpentOnce'
    BY <1>1, <1>3, <1>4
    DEF GatewayInv, SpentOnce, OnItsWay, HasRow, WriteNative
  <1> QED
    BY <1>2, <1>3, <1>4, <1>5, <1>6, <1>7
    DEF GatewayInv, OpenHaveRows, HandlerIsRecorded, NotYetWritten, RecordedAs,
        HasRow

\* A queue operation spends the execution in the handler.
LEMMA QueueOperationInv ==
    ASSUME GatewayInv, QueueOperation
    PROVE  GatewayInv'
  <1>1. handler.rid \in Requests /\ handler.payload \in Payloads /\ handler # Idle
    BY HandlerAtWork, HandlerFields DEF GatewayInv, QueueOperation
  <1>2. TypeOK'
    <2>1. handler' \in HandlerStates
      BY <1>1 DEF QueueOperation, Finalizing, HandlerStates, Terminal
    <2>2. executions' \in [Requests -> Nat] /\ executed' \subseteq Command
      BY <1>1 DEF GatewayInv, TypeOK, QueueOperation, Execute, Command, effects
    <2> QED
      BY <2>1, <2>2
      DEF GatewayInv, TypeOK, QueueOperation, receiptTasks, counters
  <1>3. UNCHANGED <<store, inflight, draining, forward, listening, wire>>
    BY DEF QueueOperation, receiptTasks
  <1>4. handler'.rid = handler.rid /\ handler'.payload = handler.payload
        /\ handler'.at = "finalize"
    BY DEF QueueOperation, Finalizing
  <1>5. RecordedAs(handler)
    BY <1>1 DEF GatewayInv, HandlerIsRecorded
  <1>6. SpentOnce'
    <2>1. executions[handler.rid] = 0
      BY <1>1 DEF GatewayInv, SpentOnce, OnItsWay, QueueOperation
    <2>2. \A w \in wire : w.rid # handler.rid
      BY DEF GatewayInv, NotYetWritten, QueueOperation
    <2>3. \/ UNCHANGED executions
          \/ executions' = [executions EXCEPT ![handler.rid] = @ + 1]
      BY DEF QueueOperation, Execute, effects
    <2> QED
      BY <1>1, <1>3, <1>4, <1>5, <2>1, <2>2, <2>3
      DEF GatewayInv, TypeOK, SpentOnce, OnItsWay, HasRow, RecordedAs
  <1>7. \A e \in executed' : RecordedAs(e)'
    BY <1>3, <1>5
    DEF GatewayInv, QueueOperation, Execute, effects, RecordedAs, HasRow
  <1> QED
    BY <1>2, <1>3, <1>4, <1>5, <1>6, <1>7
    DEF GatewayInv, OpenHaveRows, HandlerIsRecorded, WireIsRecorded,
        NotYetWritten, RecordedAs, HasRow

\* Steps that end handle_command: the receipt goes to a forwarder.
LEMMA AnswerInv ==
    ASSUME GatewayInv, handler.at \in {"dispatch", "wait"}, Answer(handler),
           NEW t \in Seq(Status), forward' = [forward EXCEPT ![handler.rid] = t],
           UNCHANGED <<phase, inbox, store, inflight, draining, recorded,
                       channel, wire, reported, executions, executed, graceful,
                       deliveries, crashes, shutdowns>>,
           reply' \in {"none", "ok", "error"}
    PROVE  GatewayInv'
  <1>1. handler.rid \in Requests /\ handler.payload \in Payloads /\ handler # Idle
    BY HandlerAtWork, HandlerFields DEF GatewayInv
  <1>2. RecordedAs(handler)
    BY <1>1 DEF GatewayInv, HandlerIsRecorded
  <1>3. TypeOK'
    <2>1. Accepted(handler) \in Message
      BY <1>1 DEF Accepted, Result, Message, Status
    <2>2. outbox' \in Seq(Message)
      BY <2>1, PushType DEF GatewayInv, TypeOK, Answer
    <2>3. handler' \in HandlerStates /\ listening' \subseteq Requests
      BY <1>1 DEF GatewayInv, TypeOK, Answer, HandlerStates
    <2>4. forward' \in [Requests -> Seq(Status)]
      BY <1>1 DEF GatewayInv, TypeOK
    <2> QED
      BY <2>2, <2>3, <2>4 DEF GatewayInv, TypeOK
  <1>4. OpenHaveRows'
    BY <1>1, <1>2
    DEF GatewayInv, TypeOK, OpenHaveRows, Answer, RecordedAs, HasRow
  <1>5. handler' = Idle /\ handler'.at = "idle"
    BY DEF Answer, Idle
  <1> QED
    BY <1>3, <1>4, <1>5
    DEF GatewayInv, HandlerIsRecorded, WireIsRecorded, SpentOnce, OnItsWay,
        NotYetWritten, RecordedAs, HasRow

\* A background stop: the forwarder gets REJECTED.
LEMMA AdapterRefusesInv ==
    ASSUME GatewayInv, AdapterRefuses
    PROVE  GatewayInv'
  <1>1. <<"REJECTED">> \in Seq(Status)
    BY DEF Status, Terminal
  <1>2. reply' \in {"none", "ok", "error"}
    BY DEF GatewayInv, TypeOK, AdapterRefuses
  <1> QED
    BY <1>1, <1>2, AnswerInv DEF AdapterRefuses, effects, counters

\* The answer of Desktop: the forwarder gets DISPATCHED and COMPLETED.
LEMMA NativeSucceededInv ==
    ASSUME GatewayInv, NativeSucceeded
    PROVE  GatewayInv'
  <1>1. <<"DISPATCHED_TO_CODEX", "COMPLETED">> \in Seq(Status)
    BY DEF Status, Terminal
  <1> QED
    BY <1>1, AnswerInv DEF NativeSucceeded, effects, counters

\* A store update of an open request keeps everything the invariant says of
\* rows.
LEMMA StatusUpdateInv ==
    ASSUME GatewayInv, TypeOK', NEW r \in Requests, HasRow(r),
           NEW s \in Status, UpdateReceiptStatus(r, s),
           UNCHANGED <<wire, executions, executed>>,
           handler' \in {handler, Idle}
    PROVE  /\ \A q \in Requests : HasRow(q)' <=> HasRow(q)
           /\ HandlerIsRecorded' /\ WireIsRecorded' /\ SpentOnce'
           /\ NotYetWritten' /\ (\A e \in executed : RecordedAs(e))'
  <1>1. \A q \in Requests : /\ HasRow(q)' <=> HasRow(q)
                            /\ store'[q].payload = store[q].payload
    BY UpdateKeepsRows DEF GatewayInv
  <1>2. \A c \in Command : c.rid \in Requests
    BY DEF Command
  <1>4. WireIsRecorded' /\ (\A e \in executed : RecordedAs(e))'
    BY <1>1, <1>2 DEF GatewayInv, TypeOK, WireIsRecorded, RecordedAs
  <1>5. HandlerIsRecorded'
    BY <1>1, HandlerFields DEF GatewayInv, HandlerIsRecorded, RecordedAs
  <1>6. handler' = handler \/ handler'.at = "idle"
    BY DEF Idle
  <1>7. SpentOnce' /\ NotYetWritten'
    BY <1>1, <1>6 DEF GatewayInv, SpentOnce, OnItsWay, NotYetWritten
  <1> QED
    BY <1>1, <1>4, <1>5, <1>7

\* finalize_receipt settles the handled request.
LEMMA FinalizeReceiptInv ==
    ASSUME GatewayInv, FinalizeReceipt
    PROVE  GatewayInv'
  <1>1. /\ handler.rid \in Requests /\ handler.payload \in Payloads
        /\ handler.outcome \in Status /\ handler # Idle
    BY HandlerAtWork, HandlerFields DEF GatewayInv, FinalizeReceipt, Status
  <1>2. HasRow(handler.rid)
    BY <1>1 DEF GatewayInv, HandlerIsRecorded, RecordedAs
  <1>3. UpdateReceiptStatus(handler.rid, handler.outcome)
    BY DEF FinalizeReceipt
  <1>4. TypeOK'
    <2>1. Accepted(handler) \in Message
      BY <1>1 DEF Accepted, Result, Message, Status
    <2>2. outbox' \in Seq(Message)
      BY <2>1, PushType DEF GatewayInv, TypeOK, FinalizeReceipt, Answer
    <2>3. /\ handler' \in HandlerStates /\ listening' \subseteq Requests
          /\ inflight' \subseteq Requests
      BY <1>1 DEF GatewayInv, TypeOK, FinalizeReceipt, Answer, HandlerStates
    <2>4. channel' \in [Requests -> Seq(Status)]
      BY <1>1 DEF GatewayInv, TypeOK, FinalizeReceipt
    <2>5. store' \in [Requests -> Rows \cup {NoRow}]
      BY <1>1, <1>2, <1>3, UpdateKeepsRows DEF GatewayInv
    <2> QED
      BY <2>2, <2>3, <2>4, <2>5
      DEF GatewayInv, TypeOK, FinalizeReceipt, effects, counters
  <1>5. /\ \A q \in Requests : HasRow(q)' <=> HasRow(q)
        /\ HandlerIsRecorded' /\ WireIsRecorded' /\ SpentOnce'
        /\ NotYetWritten' /\ (\A e \in executed : RecordedAs(e))'
    <2>1. UNCHANGED <<wire, executions, executed>> /\ handler' = Idle
      BY DEF FinalizeReceipt, Answer, effects
    <2> QED
      BY <1>1, <1>2, <1>3, <1>4, <2>1, StatusUpdateInv
  <1>6. OpenHaveRows'
    BY <1>1, <1>2, <1>5
    DEF GatewayInv, TypeOK, OpenHaveRows, FinalizeReceipt, Answer
  <1> QED
    BY <1>4, <1>5, <1>6 DEF GatewayInv

\* A forwarder stores a receipt of a request that has its row.
LEMMA ForwardRecordInv ==
    ASSUME GatewayInv, NEW r \in Requests, ForwardRecord(r)
    PROVE  GatewayInv'
  <1>1. HasRow(r) /\ Head(forward[r]) \in Status
        /\ Tail(forward[r]) \in Seq(Status)
    BY DEF GatewayInv, TypeOK, OpenHaveRows, ForwardRecord
  <1>2. UpdateReceiptStatus(r, Head(forward[r]))
    BY DEF ForwardRecord
  <1>3. TypeOK'
    <2>1. store' \in [Requests -> Rows \cup {NoRow}]
      BY <1>1, <1>2, UpdateKeepsRows DEF GatewayInv
    <2>2. /\ recorded' \in [Requests -> Status \cup {"none"}]
          /\ forward' \in [Requests -> Seq(Status)]
      BY <1>1 DEF GatewayInv, TypeOK, ForwardRecord
    <2> QED
      BY <2>1, <2>2 DEF GatewayInv, TypeOK, ForwardRecord, effects, counters
  <1>4. /\ \A q \in Requests : HasRow(q)' <=> HasRow(q)
        /\ HandlerIsRecorded' /\ WireIsRecorded' /\ SpentOnce'
        /\ NotYetWritten' /\ (\A e \in executed : RecordedAs(e))'
    <2>1. UNCHANGED <<wire, executions, executed, handler>>
      BY DEF ForwardRecord, effects
    <2> QED
      BY <1>1, <1>2, <1>3, <2>1, StatusUpdateInv
  <1>5. OpenHaveRows'
    BY <1>1, <1>4 DEF GatewayInv, TypeOK, OpenHaveRows, ForwardRecord
  <1> QED
    BY <1>3, <1>4, <1>5 DEF GatewayInv

\* graceful_shutdown settles a request it took from inflight.
LEMMA ShutdownFinalizeInv ==
    ASSUME GatewayInv, NEW r \in Requests, ShutdownFinalize(r)
    PROVE  GatewayInv'
  <1>1. HasRow(r) /\ "OUTCOME_UNKNOWN" \in Status
    BY DEF GatewayInv, OpenHaveRows, ShutdownFinalize, Status, Terminal
  <1>2. UpdateReceiptStatus(r, "OUTCOME_UNKNOWN")
    BY DEF ShutdownFinalize
  <1>3. TypeOK'
    <2>1. store' \in [Requests -> Rows \cup {NoRow}]
      BY <1>1, <1>2, UpdateKeepsRows DEF GatewayInv
    <2>2. channel' \in [Requests -> Seq(Status)]
      BY <1>1 DEF GatewayInv, TypeOK, ShutdownFinalize
    <2> QED
      BY <2>1, <2>2 DEF GatewayInv, TypeOK, ShutdownFinalize, effects, counters
  <1>4. /\ \A q \in Requests : HasRow(q)' <=> HasRow(q)
        /\ HandlerIsRecorded' /\ WireIsRecorded' /\ SpentOnce'
        /\ NotYetWritten' /\ (\A e \in executed : RecordedAs(e))'
    <2>1. UNCHANGED <<wire, executions, executed, handler>>
      BY DEF ShutdownFinalize, effects
    <2> QED
      BY <1>1, <1>2, <1>3, <2>1, StatusUpdateInv
  <1>5. OpenHaveRows'
    BY <1>1, <1>4 DEF GatewayInv, TypeOK, OpenHaveRows, ShutdownFinalize
  <1> QED
    BY <1>3, <1>4, <1>5 DEF GatewayInv

\* Steps that touch no row, no handler state and no native write.
LEMMA QuietInv ==
    ASSUME GatewayInv, TypeOK',
           UNCHANGED <<store, handler, wire, executions, executed>>,
           inflight' \cup draining' \cup listening'
               \subseteq inflight \cup draining \cup listening,
           \A r \in Requests : forward'[r] # <<>> => forward[r] # <<>>
    PROVE  GatewayInv'
  BY DEF GatewayInv, OpenHaveRows, HandlerIsRecorded, WireIsRecorded, SpentOnce,
         OnItsWay, NotYetWritten, RecordedAs, HasRow

\* A forwarder passes its receipt on and may leave inflight.
LEMMA ForwardSendInv ==
    ASSUME GatewayInv, NEW r \in Requests, ForwardSend(r)
    PROVE  GatewayInv'
  <1>1. recorded[r] \in Status
    BY DEF GatewayInv, TypeOK, ForwardSend
  <1>2. /\ channel' \in [Requests -> Seq(Status)]
        /\ recorded' \in [Requests -> Status \cup {"none"}]
    BY <1>1 DEF GatewayInv, TypeOK, ForwardSend
  <1>3. TypeOK'
    BY <1>2 DEF GatewayInv, TypeOK, ForwardSend, effects, counters
  <1> QED
    BY <1>3, QuietInv DEF ForwardSend, effects

\* The receipt task queues a CommandResult and may stop reading.
LEMMA ReportReceiptInv ==
    ASSUME GatewayInv, NEW r \in Requests, ReportReceipt(r)
    PROVE  GatewayInv'
  <1> DEFINE s == Head(channel[r])
  <1> DEFINE m == Result([rid |-> r, payload |-> store[r].payload], s, TRUE)
  <1>1. s \in Status /\ Tail(channel[r]) \in Seq(Status)
    BY DEF GatewayInv, TypeOK, ReportReceipt
  <1>2. store[r].payload \in Payloads
    BY DEF GatewayInv, TypeOK, OpenHaveRows, HasRow, Rows, ReportReceipt
  <1>3. m \in Message
    BY <1>1, <1>2 DEF Result, Message
  <1>4. outbox' \in Seq(Message)
    BY <1>3, PushType DEF GatewayInv, TypeOK, ReportReceipt
  <1>5. /\ channel' \in [Requests -> Seq(Status)]
        /\ listening' \subseteq listening
    BY <1>1 DEF GatewayInv, TypeOK, ReportReceipt
  <1>6. TypeOK'
    BY <1>4, <1>5 DEF GatewayInv, TypeOK, ReportReceipt, effects, counters
  <1> QED
    BY <1>5, <1>6, QuietInv DEF ReportReceipt, effects

\* The transport moves a frame to the Relay.
LEMMA TransportSendInv ==
    ASSUME GatewayInv, TransportSend
    PROVE  GatewayInv'
  <1>1. Head(outbox) \in Message /\ Tail(outbox) \in Seq(Message)
    BY DEF GatewayInv, TypeOK, TransportSend
  <1>2. TypeOK'
    BY <1>1 DEF GatewayInv, TypeOK, TransportSend, receiptTasks, effects, counters
  <1> QED
    BY <1>2, QuietInv DEF TransportSend, receiptTasks, effects

\* inflight moves to draining: its requests keep their rows.
LEMMA BeginShutdownInv ==
    ASSUME GatewayInv, BeginShutdown
    PROVE  GatewayInv'
  <1>1. TypeOK'
    BY DEF GatewayInv, TypeOK, BeginShutdown, receiptTasks, effects
  <1> QED
    BY <1>1, QuietInv DEF BeginShutdown, receiptTasks, effects

\* A new process starts with what SQLite holds.
LEMMA RestartInv ==
    ASSUME GatewayInv, Restart
    PROVE  GatewayInv'
  <1>1. TypeOK'
    BY DEF GatewayInv, TypeOK, Restart, receiptTasks, effects, counters
  <1> QED
    BY <1>1, QuietInv DEF Restart, receiptTasks, effects

\* The process dies: rows, native writes and effects stay.
LEMMA LoseMemoryInv ==
    ASSUME GatewayInv, LoseMemory, graceful' \in BOOLEAN, crashes' \in Nat
    PROVE  GatewayInv'
  <1>1. \A S : <<>> \in Seq(S)
    OBVIOUS
  <1>2. /\ inbox' \in Seq(Command)
        /\ outbox' \in Seq(Message)
        /\ forward' \in [Requests -> Seq(Status)]
        /\ channel' \in [Requests -> Seq(Status)]
        /\ handler' \in HandlerStates
    BY <1>1 DEF LoseMemory, HandlerStates
  <1>3. TypeOK'
    BY <1>2 DEF GatewayInv, TypeOK, LoseMemory, effects
  <1>4. handler' = Idle /\ handler'.at = "idle"
    BY DEF LoseMemory, Idle
  <1> QED
    BY <1>3, <1>4
    DEF GatewayInv, LoseMemory, effects, OpenHaveRows, HandlerIsRecorded,
        WireIsRecorded, SpentOnce, OnItsWay, NotYetWritten, RecordedAs, HasRow

\* Exit and Crash are deaths of the process.
LEMMA DeathInv ==
    ASSUME GatewayInv, Exit \/ Crash
    PROVE  GatewayInv'
  <1>1. LoseMemory
    BY DEF Exit, Crash
  <1>2. graceful' \in BOOLEAN
    BY DEF Exit, Crash
  <1>3. crashes' \in Nat
    <2>1. crashes \in Nat
      BY DEF GatewayInv, TypeOK
    <2> QED
      BY <2>1 DEF Exit, Crash
  <1> QED
    BY <1>1, <1>2, <1>3, LoseMemoryInv

\* Desktop spends the execution that the wire reserves.
LEMMA DesktopExecutesInv ==
    ASSUME GatewayInv, NEW w \in wire, DesktopExecutes(w)
    PROVE  GatewayInv'
  <1>1. w.rid \in Requests /\ w.payload \in Payloads /\ RecordedAs(w)
    BY DEF GatewayInv, TypeOK, Command, WireIsRecorded
  <1>2. TypeOK'
    <2>1. executions' \in [Requests -> Nat] /\ executed' \subseteq Command
      BY <1>1 DEF GatewayInv, TypeOK, DesktopExecutes, Execute, Command
    <2>2. wire' \subseteq Command /\ reply' \in {"none", "ok", "error"}
      BY DEF GatewayInv, TypeOK, DesktopExecutes
    <2> QED
      BY <2>1, <2>2
      DEF GatewayInv, TypeOK, DesktopExecutes, receiptTasks, counters
  <1>3. UNCHANGED <<handler, store, inflight, draining, forward, listening>>
    BY DEF DesktopExecutes, receiptTasks
  <1>4. SpentOnce'
    <2>1. executions[w.rid] = 0
      BY <1>1 DEF GatewayInv, SpentOnce, OnItsWay
    <2>2. \A v \in wire' : v.rid # w.rid
      <3>1. \A v \in wire : v.rid = w.rid => v = w
        <4>1. \A u, v \in Command : u.rid = v.rid /\ u.payload = v.payload => u = v
          BY DEF Command
        <4>2. \A v \in wire : v.rid = w.rid => v.payload = w.payload
          BY <1>1 DEF GatewayInv, WireIsRecorded, RecordedAs
        <4> QED
          BY <4>1, <4>2 DEF GatewayInv, TypeOK
      <3> QED
        BY <3>1 DEF DesktopExecutes
    <2>3. ~(handler.at \in {"recorded", "dispatch"} /\ handler.rid = w.rid)
      BY DEF GatewayInv, NotYetWritten
    <2>4. executions' = [executions EXCEPT ![w.rid] = @ + 1]
      BY DEF DesktopExecutes, Execute
    <2>5. wire' \subseteq wire
      BY DEF DesktopExecutes
    <2>6. ASSUME NEW r \in Requests
          PROVE  executions'[r] \in {0, 1} /\ (OnItsWay(r)' => executions'[r] = 0)
      <3>1. CASE r = w.rid
        BY <1>1, <1>3, <2>1, <2>2, <2>3, <2>4, <3>1
        DEF GatewayInv, TypeOK, OnItsWay, RecordedAs, HasRow
      <3>2. CASE r # w.rid
        BY <1>3, <2>4, <2>5, <3>2
        DEF GatewayInv, TypeOK, SpentOnce, OnItsWay, HasRow
      <3> QED
        BY <3>1, <3>2
    <2> QED
      BY <2>6 DEF SpentOnce
  <1>5. \A e \in executed' : RecordedAs(e)'
    BY <1>1, <1>3 DEF GatewayInv, DesktopExecutes, Execute, RecordedAs, HasRow
  <1> QED
    BY <1>2, <1>3, <1>4, <1>5
    DEF GatewayInv, DesktopExecutes, OpenHaveRows, HandlerIsRecorded,
        WireIsRecorded, NotYetWritten, RecordedAs, HasRow

\* A native write that Desktop refuses, or that the socket loses.
LEMMA WriteEndsInv ==
    ASSUME GatewayInv, IpcLost \/ (\E w \in wire : DesktopRefuses(w))
    PROVE  GatewayInv'
  <1>1. /\ UNCHANGED <<phase, inbox, handler, store, inflight, draining, forward,
                       recorded, channel, listening, outbox, reported,
                       executions, executed, graceful, deliveries, crashes,
                       shutdowns>>
        /\ wire' \subseteq wire
        /\ reply' \in {"none", "ok", "error"}
    <2>1. CASE IpcLost
      BY <2>1 DEF IpcLost, receiptTasks, effects, counters
    <2>2. CASE \E w \in wire : DesktopRefuses(w)
      BY <2>2
      DEF GatewayInv, TypeOK, DesktopRefuses, receiptTasks, effects, counters
    <2> QED
      BY <2>1, <2>2
  <1>2. TypeOK'
    BY <1>1 DEF GatewayInv, TypeOK
  <1> QED
    BY <1>1, <1>2
    DEF GatewayInv, OpenHaveRows, HandlerIsRecorded, WireIsRecorded, SpentOnce,
        OnItsWay, NotYetWritten, RecordedAs, HasRow

\* Submit: an answer without a new row, or a row for a fresh request.
LEMMA SubmitInv ==
    ASSUME GatewayInv, Submit
    PROVE  GatewayInv'
  <1>0. Head(inbox) \in Command /\ Tail(inbox) \in Seq(Command)
    BY DEF GatewayInv, TypeOK, Submit
  <1>1. PICK c \in Command : c = Head(inbox)
    BY <1>0
  <1>2. c.rid \in Requests /\ c.payload \in Payloads
    BY DEF Command
  <1>3. ASSUME UNCHANGED <<store, handler, inflight, channel>>,
               outbox' \in Seq(Message)
        PROVE  GatewayInv'
    <2>1. TypeOK'
      BY <1>0, <1>3 DEF GatewayInv, TypeOK, Submit, effects, counters
    <2> QED
      BY <1>3, <2>1, QuietInv DEF Submit, effects
  <1>4. CASE RejectUnrecorded(c)
    <2>1. Result(c, "REJECTED", FALSE) \in Message
      BY <1>2 DEF Result, Message, Status, Terminal
    <2>2. outbox' \in Seq(Message)
      BY <1>4, <2>1, PushType DEF GatewayInv, TypeOK, RejectUnrecorded
    <2> QED
      BY <1>3, <1>4, <2>2 DEF RejectUnrecorded
  <1>5. CASE HasRow(c.rid) /\ Replay(c)
    <2>1. PICK s \in {store[c.rid].status, "ACCEPTED_BY_BRIDGE"} :
             outbox' = Push(Push(outbox, Accepted(c)), Result(c, s, TRUE))
      BY <1>5 DEF Replay
    <2>2. s \in Status
      BY <1>2, <1>5 DEF GatewayInv, TypeOK, HasRow, Rows, Status
    <2>3. Accepted(c) \in Message /\ Result(c, s, TRUE) \in Message
      BY <1>2, <2>2 DEF Accepted, Result, Message, Status
    <2>4. Push(outbox, Accepted(c)) \in Seq(Message)
      BY <2>3, PushType DEF GatewayInv, TypeOK
    <2>5. outbox' \in Seq(Message)
      BY <2>1, <2>3, <2>4, PushType
    <2> QED
      BY <1>3, <1>5, <2>5 DEF Replay
  <1>6. CASE ~HasRow(c.rid) /\ RecordReceipt(c)
    <2>1. UNCHANGED <<draining, forward, listening, wire, executions, executed>>
      BY DEF Submit, effects
    <2>2. /\ store'[c.rid] = [payload |-> c.payload,
                              status |-> "ACCEPTED_BY_BRIDGE"]
          /\ store'[c.rid] \in Rows
          /\ HasRow(c.rid)'
          /\ \A q \in Requests \ {c.rid} : store'[q] = store[q]
      BY <1>2, <1>6
      DEF GatewayInv, TypeOK, RecordReceipt, Rows, Status, HasRow, NoRow
    <2>3. store' \in [Requests -> Rows \cup {NoRow}]
      BY <1>2, <1>6, <2>2 DEF GatewayInv, TypeOK, RecordReceipt
    <2>4. handler' = Handling("recorded", c) /\ handler' \in HandlerStates
      BY <1>2, <1>6 DEF RecordReceipt, Handling, HandlerStates
    <2>5. channel' \in [Requests -> Seq(Status)] /\ inflight' \subseteq Requests
      BY <1>2, <1>6 DEF GatewayInv, TypeOK, RecordReceipt
    <2>6. TypeOK'
      BY <1>0, <1>6, <2>3, <2>4, <2>5
      DEF GatewayInv, TypeOK, Submit, RecordReceipt, effects, counters
    <2>7. OpenHaveRows'
      BY <1>2, <1>6, <2>1, <2>2
      DEF GatewayInv, TypeOK, OpenHaveRows, RecordReceipt, HasRow
    <2>8. /\ handler'.rid = c.rid /\ handler'.payload = c.payload
          /\ handler'.at = "recorded"
      BY <2>4 DEF Handling
    <2>9. HandlerIsRecorded'
      BY <2>2, <2>8 DEF HandlerIsRecorded, RecordedAs
    <2>10. \A d \in Command : RecordedAs(d) => d.rid # c.rid /\ RecordedAs(d)'
      BY <1>2, <1>6, <2>2 DEF Command, RecordedAs, HasRow
    <2>11. WireIsRecorded' /\ (\A e \in executed : RecordedAs(e))'
      BY <2>1, <2>10 DEF GatewayInv, TypeOK, WireIsRecorded
    <2>12. NotYetWritten'
      BY <2>1, <2>8, <2>10 DEF GatewayInv, TypeOK, WireIsRecorded, NotYetWritten
    <2>13. handler.at = "idle"
      BY DEF Submit, Idle
    <2>14. SpentOnce'
      BY <1>2, <1>6, <2>1, <2>2, <2>8, <2>13
      DEF GatewayInv, SpentOnce, OnItsWay, HasRow
    <2> QED
      BY <2>6, <2>7, <2>9, <2>11, <2>12, <2>14 DEF GatewayInv
  <1> QED
    BY <1>1, <1>4, <1>5, <1>6 DEF Submit, Admit

\* Every step of the Bridge keeps the invariant.
LEMMA NextInv == GatewayInv /\ [Next]_vars => GatewayInv'
  <1> SUFFICES ASSUME GatewayInv, [Next]_vars PROVE GatewayInv'
    OBVIOUS
  <1>1. CASE \E c \in Command : Deliver(c)
    BY <1>1, DeliverInv
  <1>2. CASE HandlerStep
    BY <1>2, SubmitInv, ValidateInv, QueueOperationInv, AdapterRefusesInv,
       DispatchFailsInv, WriteNativeInv, NativeSucceededInv, NativeFailedInv,
       FinalizeReceiptInv
    DEF HandlerStep
  <1>3. CASE DesktopStep
    BY <1>3, DesktopExecutesInv, WriteEndsInv DEF DesktopStep
  <1>4. CASE \E r \in Requests : ReceiptStep(r)
    BY <1>4, ForwardRecordInv, ForwardSendInv, ReportReceiptInv DEF ReceiptStep
  <1>5. CASE TransportSend
    BY <1>5, TransportSendInv
  <1>6. CASE LifecycleStep
    BY <1>6, BeginShutdownInv, ShutdownFinalizeInv, DeathInv, RestartInv
    DEF LifecycleStep
  <1>7. CASE UNCHANGED vars
    BY <1>7
    DEF vars, GatewayInv, TypeOK, OpenHaveRows, HandlerIsRecorded,
        WireIsRecorded, SpentOnce, OnItsWay, NotYetWritten, RecordedAs, HasRow
  <1> QED
    BY <1>1, <1>2, <1>3, <1>4, <1>5, <1>6, <1>7 DEF Next

\* GatewayInv holds in every reachable state.
THEOREM GatewayInvariant == Spec => []GatewayInv
  <1> QED
    BY InitInv, NextInv, PTL DEF Spec

\* Every variable of the Bridge keeps its type: no receipt row and no message
\* to the Relay ever has a status outside section 15.2.
THEOREM TypeCorrect == Spec => []TypeOK
  <1>1. GatewayInv => TypeOK
    BY DEF GatewayInv
  <1> QED
    BY <1>1, GatewayInvariant, PTL

\* submit records before it dispatches and replays what is recorded: a
\* request id takes effect at most once, for any number of retries, crashes,
\* shutdowns, request ids and payloads.
THEOREM RequestsTakeEffectOnce == Spec => []AtMostOnce
  <1>1. GatewayInv => AtMostOnce
    BY DEF GatewayInv, SpentOnce, AtMostOnce
  <1> QED
    BY <1>1, GatewayInvariant, PTL

\* The digest check of submit: every effect is the effect of the payload the
\* durable receipt of its request id holds.
THEOREM EffectsMatchReceipts == Spec => []EffectsAreRecorded
  <1>1. GatewayInv => EffectsAreRecorded
    BY DEF GatewayInv, EffectsAreRecorded
  <1> QED
    BY <1>1, GatewayInvariant, PTL

-----------------------------------------------------------------------------
(* What the receipts say. *)

Verdicts == {"COMPLETED", "REJECTED"}

\* A recorded status of a request that waits in the queue or was handed over.
Messages(r, s) ==
    \E m \in Range(outbox) \cup reported :
        m.recorded /\ m.rid = r /\ m.status = s

\* Where a status of a request can be on its way from the adapter to the
\* Relay: the row, the forwarder, the caller channel, the messages.
Says(r, s) ==
    \/ store[r].status = s
    \/ recorded[r] = s
    \/ s \in Range(forward[r])
    \/ s \in Range(channel[r])
    \/ Messages(r, s)

\* A request that is not recorded yet, or whose handler still works on it,
\* has no verdict anywhere.
OpenHasNoVerdict ==
    \A r \in Requests : \A s \in Verdicts :
        ~HasRow(r) \/ (handler # Idle /\ handler.rid = r) => ~Says(r, s)

\* All places agree on one verdict, and COMPLETED has its effect.
OneTrueVerdict ==
    \A r \in Requests :
        /\ ~(Says(r, "COMPLETED") /\ Says(r, "REJECTED"))
        /\ Says(r, "COMPLETED") => executions[r] = 1

\* The handler's own outcome, and the answer of Desktop it waits for.
HandlerKnows ==
    /\ handler.at = "finalize" /\ handler.outcome = "COMPLETED"
       => executions[handler.rid] = 1
    /\ reply = "ok" => handler.at = "wait" /\ executions[handler.rid] = 1

\* The streams spawn_forward can get: DISPATCHED comes first, and is not yet
\* overtaken by a verdict in the row.
Streams == {<<>>, <<"COMPLETED">>, <<"REJECTED">>,
            <<"DISPATCHED_TO_CODEX", "COMPLETED">>}
StreamsInOrder ==
    \A r \in Requests :
        /\ forward[r] \in Streams
        /\ Len(forward[r]) = 2 => store[r].status \notin Verdicts

\* What is said about a receipt is said of a row; the rest are rejections.
MessagesHaveRows ==
    \A m \in Range(outbox) \cup reported :
        IF m.recorded THEN HasRow(m.rid) ELSE m.status = "REJECTED"

ReceiptInv ==
    /\ GatewayInv
    /\ OpenHasNoVerdict
    /\ OneTrueVerdict
    /\ HandlerKnows
    /\ StreamsInOrder
    /\ MessagesHaveRows

-----------------------------------------------------------------------------
\* send_envelope adds at most the message.
LEMMA RangePush ==
    ASSUME NEW q \in Seq(Message), NEW m \in Message
    PROVE  Range(Push(q, m)) \subseteq Range(q) \cup {m}
  BY RangeAppend DEF Push

\* Every message in the queue or handed over is about a request.
LEMMA MessagesTyped ==
    ASSUME TypeOK
    PROVE  \A m \in Range(outbox) \cup reported : m.rid \in Requests
  <1>1. Range(outbox) \subseteq Message
    BY RangeOfSeq DEF TypeOK
  <1>2. \A m \in Message : m.rid \in Requests
    BY DEF Message
  <1> QED
    BY <1>1, <1>2 DEF TypeOK

-----------------------------------------------------------------------------
(* Two kinds of steps: those that bring no verdict, and those that settle  *)
(* the request of the handler.                                             *)

\* A step that brings no verdict to any place, and gives the handler only a
\* request that has no row yet.
LEMMA NoNewVerdict ==
    ASSUME ReceiptInv,
           \A r \in Requests, s \in Verdicts : Says(r, s)' => Says(r, s),
           \A r \in Requests : HasRow(r) => HasRow(r)',
           \A r \in Requests : executions[r] = 1 => executions'[r] = 1,
           \/ handler' = Idle
           \/ handler # Idle /\ handler'.rid = handler.rid
           \/ ~HasRow(handler'.rid)
    PROVE  OpenHasNoVerdict' /\ OneTrueVerdict'
  <1>1. "COMPLETED" \in Verdicts /\ "REJECTED" \in Verdicts
    BY DEF Verdicts
  <1>2. OneTrueVerdict'
    BY <1>1 DEF ReceiptInv, OneTrueVerdict
  <1>3. ASSUME NEW r \in Requests, NEW s \in Verdicts,
               ~HasRow(r)' \/ (handler' # Idle /\ handler'.rid = r)
        PROVE  ~Says(r, s)'
    <2>1. ~HasRow(r) \/ (handler # Idle /\ handler.rid = r)
      BY <1>3
    <2> QED
      BY <2>1 DEF ReceiptInv, OpenHasNoVerdict
  <1>4. OpenHasNoVerdict'
    BY <1>3 DEF OpenHasNoVerdict
  <1> QED
    BY <1>2, <1>4

\* A step that ends the handler and brings its verdict.
LEMMA NewVerdict ==
    ASSUME ReceiptInv, handler # Idle, handler' = Idle, NEW v,
           \A r \in Requests, s \in Verdicts :
               Says(r, s)' => Says(r, s) \/ (r = handler.rid /\ s = v),
           \A r \in Requests : HasRow(r)' <=> HasRow(r),
           UNCHANGED executions,
           v = "COMPLETED" => executions[handler.rid] = 1
    PROVE  OpenHasNoVerdict' /\ OneTrueVerdict'
  <1>1. "COMPLETED" \in Verdicts /\ "REJECTED" \in Verdicts
    BY DEF Verdicts
  <1>2. handler.rid \in Requests /\ HasRow(handler.rid)
    BY HandlerFields DEF ReceiptInv, GatewayInv, HandlerIsRecorded, RecordedAs
  <1>3. \A s \in Verdicts : ~Says(handler.rid, s)
    BY <1>2 DEF ReceiptInv, OpenHasNoVerdict
  <1>4. OneTrueVerdict'
    <2> SUFFICES ASSUME NEW r \in Requests
                 PROVE  /\ ~(Says(r, "COMPLETED")' /\ Says(r, "REJECTED")')
                        /\ Says(r, "COMPLETED")' => executions'[r] = 1
      BY DEF OneTrueVerdict
    <2>1. CASE r = handler.rid
      BY <1>1, <1>3, <2>1
    <2>2. CASE r # handler.rid
      BY <1>1, <2>2 DEF ReceiptInv, OneTrueVerdict
    <2> QED
      BY <2>1, <2>2
  <1>5. OpenHasNoVerdict'
    <2> SUFFICES ASSUME NEW r \in Requests, NEW s \in Verdicts, ~HasRow(r)'
                 PROVE  ~Says(r, s)'
      BY DEF OpenHasNoVerdict
    <2>1. r # handler.rid
      BY <1>2
    <2> QED
      BY <2>1 DEF ReceiptInv, OpenHasNoVerdict
  <1> QED
    BY <1>4, <1>5

\* update_receipt_status brings at most its status to one row.
LEMMA UpdateSays ==
    ASSUME TypeOK, NEW r \in Requests, HasRow(r), NEW v \in Status,
           UpdateReceiptStatus(r, v)
    PROVE  \A q \in Requests :
               \/ store'[q].status = store[q].status
               \/ q = r /\ store'[q].status = v
  BY DEF TypeOK, HasRow, UpdateReceiptStatus, Rows

\* The rest of the invariant after a step that leaves forwarders and the
\* rows alone and only moves messages it has, or adds harmless ones.
LEMMA QuietRest ==
    ASSUME ReceiptInv, UNCHANGED <<forward, store>>,
           \A m \in Range(outbox)' \cup reported' :
               \/ m \in Range(outbox) \cup reported
               \/ IF m.recorded THEN HasRow(m.rid) ELSE m.status = "REJECTED"
    PROVE  StreamsInOrder' /\ MessagesHaveRows'
  BY DEF ReceiptInv, StreamsInOrder, MessagesHaveRows, HasRow

-----------------------------------------------------------------------------
(* One lemma per action, or per group of actions that change the same      *)
(* part of the state.                                                      *)

\* In the initial state nothing is said.
LEMMA InitReceipts == Init => ReceiptInv
  <1> SUFFICES ASSUME Init PROVE ReceiptInv
    OBVIOUS
  <1>1. GatewayInv
    BY InitInv
  <1>2. \A r \in Requests, s \in Verdicts : ~Says(r, s)
    BY RangeEmpty DEF Init, Says, Messages, Verdicts, NoRow
  <1>3. OpenHasNoVerdict /\ OneTrueVerdict
    BY <1>2 DEF OpenHasNoVerdict, OneTrueVerdict, Verdicts
  <1>4. HandlerKnows /\ StreamsInOrder /\ MessagesHaveRows
    BY RangeEmpty
    DEF Init, HandlerKnows, StreamsInOrder, MessagesHaveRows, Streams, Idle
  <1> QED
    BY <1>1, <1>3, <1>4 DEF ReceiptInv

\* Steps of the handler and of Desktop that leave every receipt alone.
LEMMA SilentStep ==
    ASSUME ReceiptInv, GatewayInv',
           UNCHANGED <<store, forward, recorded, channel, outbox, reported>>,
           \A r \in Requests : executions[r] = 1 => executions'[r] = 1,
           handler' = Idle \/ (handler # Idle /\ handler'.rid = handler.rid),
           HandlerKnows'
    PROVE  ReceiptInv'
  <1>1. \A r \in Requests, s \in Verdicts : Says(r, s)' => Says(r, s)
    BY DEF Says, Messages
  <1>2. \A r \in Requests : HasRow(r) => HasRow(r)'
    BY DEF HasRow
  <1>3. OpenHasNoVerdict' /\ OneTrueVerdict'
    BY <1>1, <1>2, NoNewVerdict
  <1>4. StreamsInOrder' /\ MessagesHaveRows'
    BY QuietRest
  <1> QED
    BY <1>3, <1>4 DEF ReceiptInv

\* The environment queues a command.
LEMMA DeliverReceipts ==
    ASSUME ReceiptInv, NEW c \in Command, Deliver(c)
    PROVE  ReceiptInv'
  <1>1. GatewayInv'
    BY DeliverInv DEF ReceiptInv
  <1>2. UNCHANGED <<store, forward, recorded, channel, outbox, reported,
                    executions, handler, reply>>
    BY DEF Deliver, receiptTasks, effects
  <1>3. HandlerKnows'
    BY <1>2 DEF ReceiptInv, HandlerKnows
  <1> QED
    BY <1>1, <1>2, <1>3, SilentStep

\* The handler moves on; a verdict it finds itself is true.
LEMMA HandlerMoves ==
    ASSUME ReceiptInv,
           Validate \/ QueueOperation \/ DispatchFails \/ WriteNative
               \/ NativeFailed
    PROVE  ReceiptInv'
  <1>1. GatewayInv'
    BY ValidateInv, QueueOperationInv, DispatchFailsInv, WriteNativeInv,
       NativeFailedInv
    DEF ReceiptInv
  <1>2. UNCHANGED <<store, forward, recorded, channel, outbox, reported>>
    BY DEF Validate, QueueOperation, DispatchFails, WriteNative, NativeFailed,
       receiptTasks
  <1>3. handler # Idle /\ handler.rid \in Requests
    BY HandlerAtWork, HandlerFields
    DEF ReceiptInv, GatewayInv, Validate, QueueOperation, DispatchFails,
        WriteNative, NativeFailed
  <1>4. handler'.rid = handler.rid
    BY DEF Validate, QueueOperation, DispatchFails, WriteNative, NativeFailed,
       Handling, Finalizing
  <1>5. CASE QueueOperation
    <2>1. executions[handler.rid] = 0
      BY <1>3, <1>5
      DEF ReceiptInv, GatewayInv, SpentOnce, OnItsWay, QueueOperation
    <2>2. \A r \in Requests : executions[r] = 1 => executions'[r] = 1
      BY <1>3, <1>5, <2>1
      DEF ReceiptInv, GatewayInv, TypeOK, QueueOperation, Execute, effects
    <2>3. handler'.outcome = "COMPLETED" => executions'[handler.rid] = 1
      BY <1>3, <1>5, <2>1
      DEF ReceiptInv, GatewayInv, TypeOK, QueueOperation, Execute, Finalizing
    <2>4. reply' = reply /\ reply # "ok"
      BY <1>5 DEF ReceiptInv, HandlerKnows, QueueOperation
    <2>5. HandlerKnows'
      BY <1>4, <2>3, <2>4 DEF HandlerKnows
    <2> QED
      BY <1>1, <1>2, <1>3, <1>4, <2>2, <2>5, SilentStep
  <1>6. CASE ~QueueOperation
    <2>1. UNCHANGED executions
      BY <1>6 DEF Validate, DispatchFails, WriteNative, NativeFailed, effects
    <2>2. handler'.at = "finalize" => handler'.outcome # "COMPLETED"
      BY <1>6
      DEF Validate, DispatchFails, WriteNative, NativeFailed, Handling,
          Finalizing, WriteErrorOutcome
    <2>3. reply' # "ok"
      BY <1>6
      DEF ReceiptInv, HandlerKnows, Validate, DispatchFails, WriteNative,
          NativeFailed
    <2>4. HandlerKnows'
      BY <2>2, <2>3 DEF HandlerKnows
    <2> QED
      BY <1>1, <1>2, <1>3, <1>4, <2>1, <2>4, SilentStep
  <1> QED
    BY <1>5, <1>6

\* Desktop acts: an answer "ok" reaches the handler of the request it is for.
LEMMA DesktopReceipts ==
    ASSUME ReceiptInv, DesktopStep
    PROVE  ReceiptInv'
  <1>1. GatewayInv'
    BY DesktopExecutesInv, WriteEndsInv DEF ReceiptInv, DesktopStep
  <1>2. UNCHANGED <<store, forward, recorded, channel, outbox, reported, handler>>
    BY DEF DesktopStep, DesktopExecutes, DesktopRefuses, IpcLost, receiptTasks
  <1>3. CASE IpcLost \/ (\E w \in wire : DesktopRefuses(w))
    <2>1. UNCHANGED executions
      BY <1>3 DEF IpcLost, DesktopRefuses, effects
    <2>2. reply' = "ok" => reply = "ok"
      BY <1>3 DEF IpcLost, DesktopRefuses
    <2>3. HandlerKnows'
      BY <1>2, <2>1, <2>2 DEF ReceiptInv, HandlerKnows
    <2> QED
      BY <1>1, <1>2, <2>1, <2>3, SilentStep
  <1>4. CASE \E w \in wire : DesktopExecutes(w)
    <2>1. PICK w \in wire : DesktopExecutes(w)
      BY <1>4
    <2>2. w.rid \in Requests
      BY DEF ReceiptInv, GatewayInv, TypeOK, Command
    <2>3. executions[w.rid] = 0
      BY <2>2 DEF ReceiptInv, GatewayInv, SpentOnce, OnItsWay
    <2>4. executions' = [executions EXCEPT ![w.rid] = 1]
      BY <2>1, <2>2, <2>3
      DEF ReceiptInv, GatewayInv, TypeOK, DesktopExecutes, Execute
    <2>5. \A r \in Requests : executions[r] = 1 => executions'[r] = 1
      BY <2>4 DEF ReceiptInv, GatewayInv, TypeOK
    <2>6. handler # Idle => handler.rid \in Requests
      BY HandlerFields DEF ReceiptInv, GatewayInv
    <2>7. reply' = reply \/ (AwaitedBy(w) /\ reply' = "ok")
      BY <2>1 DEF DesktopExecutes
    <2>8. HandlerKnows'
      <3>1. handler.at = "finalize" \/ handler.at = "wait" => handler # Idle
        BY DEF Idle
      <3>2. handler.at = "finalize" /\ handler.outcome = "COMPLETED"
            => executions'[handler.rid] = 1
        BY <2>5, <2>6, <3>1 DEF ReceiptInv, HandlerKnows
      <3>3. reply = "ok" => handler.at = "wait" /\ executions'[handler.rid] = 1
        BY <2>5, <2>6, <3>1 DEF ReceiptInv, HandlerKnows
      <3>4. AwaitedBy(w) => handler.at = "wait" /\ executions'[handler.rid] = 1
        BY <2>2, <2>4 DEF AwaitedBy, ReceiptInv, GatewayInv, TypeOK
      <3> QED
        BY <1>2, <2>7, <3>2, <3>3, <3>4 DEF HandlerKnows
    <2> QED
      BY <1>1, <1>2, <2>5, <2>8, SilentStep
  <1> QED
    BY <1>3, <1>4 DEF DesktopStep

\* The handler's request has no stream and no queued receipt yet.
LEMMA HandlerIsFirst ==
    ASSUME ReceiptInv, handler # Idle
    PROVE  /\ handler.rid \in Requests /\ HasRow(handler.rid)
           /\ store[handler.rid].status \notin Verdicts
           /\ forward[handler.rid] = <<>>
  <1>1. handler.rid \in Requests /\ HasRow(handler.rid)
    BY HandlerFields DEF ReceiptInv, GatewayInv, HandlerIsRecorded, RecordedAs
  <1>2. \A s \in Verdicts : ~Says(handler.rid, s)
    BY <1>1 DEF ReceiptInv, OpenHasNoVerdict
  <1>3. \A s \in Verdicts : s \notin Range(forward[handler.rid])
    BY <1>2 DEF Says
  <1>4. /\ "COMPLETED" \in Range(<<"COMPLETED">>)
        /\ "REJECTED" \in Range(<<"REJECTED">>)
        /\ "COMPLETED" \in Range(<<"DISPATCHED_TO_CODEX", "COMPLETED">>)
    <2>1. DOMAIN <<"DISPATCHED_TO_CODEX", "COMPLETED">> = 1..2
          /\ <<"DISPATCHED_TO_CODEX", "COMPLETED">>[2] = "COMPLETED"
      OBVIOUS
    <2> QED
      BY <2>1 DEF Range
  <1> QED
    BY <1>1, <1>2, <1>3, <1>4
    DEF ReceiptInv, StreamsInOrder, Streams, Verdicts, Says

\* CommandAccepted joins the queue: it says nothing of a verdict.
LEMMA AcceptedIsOpen ==
    ASSUME ReceiptInv, handler # Idle, Answer(handler), UNCHANGED reported,
           \A r \in Requests : HasRow(r)' <=> HasRow(r)
    PROVE  /\ \A r \in Requests, s \in Verdicts :
                  Messages(r, s)' => Messages(r, s)
           /\ MessagesHaveRows'
  <1>1. handler.rid \in Requests /\ handler.payload \in Payloads
        /\ HasRow(handler.rid)
    BY HandlerFields, HandlerIsFirst DEF ReceiptInv, GatewayInv
  <1>2. Accepted(handler) \in Message
    BY <1>1 DEF Accepted, Result, Message, Status
  <1>3. /\ Accepted(handler).recorded /\ Accepted(handler).rid = handler.rid
        /\ Accepted(handler).status \notin Verdicts
    BY DEF Accepted, Result, Verdicts
  <1>4. Range(outbox') \subseteq Range(outbox) \cup {Accepted(handler)}
    BY <1>2, RangePush DEF ReceiptInv, GatewayInv, TypeOK, Answer
  <1>5. \A r \in Requests, s \in Verdicts : Messages(r, s)' => Messages(r, s)
    BY <1>3, <1>4 DEF Messages
  <1>6. \A m \in Range(outbox) \cup reported : m.rid \in Requests
    BY MessagesTyped DEF ReceiptInv, GatewayInv
  <1>7. MessagesHaveRows'
    BY <1>1, <1>3, <1>4, <1>6 DEF ReceiptInv, MessagesHaveRows
  <1> QED
    BY <1>5, <1>7

\* The adapter's answer becomes the stream of a forwarder.
LEMMA AnswerReceipts ==
    ASSUME ReceiptInv, AdapterRefuses \/ NativeSucceeded
    PROVE  ReceiptInv'
  <1>1. GatewayInv'
    BY AdapterRefusesInv, NativeSucceededInv DEF ReceiptInv
  <1>2. handler # Idle
    BY HandlerAtWork
    DEF ReceiptInv, GatewayInv, AdapterRefuses, NativeSucceeded
  <1>3. UNCHANGED <<store, recorded, channel, reported, executions>>
        /\ Answer(handler)
    BY DEF AdapterRefuses, NativeSucceeded, effects
  <1>4. \A r \in Requests : HasRow(r)' <=> HasRow(r)
    BY <1>3 DEF HasRow
  <1>5. handler.rid \in Requests /\ store[handler.rid].status \notin Verdicts
    BY <1>2, HandlerIsFirst
  <1>6. /\ \A r \in Requests, s \in Verdicts : Messages(r, s)' => Messages(r, s)
        /\ MessagesHaveRows'
    BY <1>2, <1>3, <1>4, AcceptedIsOpen
  <1>7. PICK v \in Verdicts, t \in Streams :
            /\ forward' = [forward EXCEPT ![handler.rid] = t]
            /\ Range(t) \cap Verdicts \subseteq {v}
            /\ v = "COMPLETED" => executions[handler.rid] = 1
    <2>1. CASE AdapterRefuses
      <3>1. <<"REJECTED">> \in Streams /\ Range(<<"REJECTED">>) = {"REJECTED"}
        BY DEF Range, Streams
      <3> QED
        BY <2>1, <3>1 DEF AdapterRefuses, Verdicts
    <2>2. CASE NativeSucceeded
      <3> DEFINE t == <<"DISPATCHED_TO_CODEX", "COMPLETED">>
      <3>1. t \in Streams
        BY DEF Streams
      <3>2. Range(t) \cap Verdicts \subseteq {"COMPLETED"}
        BY DEF Range, Verdicts
      <3>3. executions[handler.rid] = 1
        BY <2>2 DEF ReceiptInv, HandlerKnows, NativeSucceeded
      <3>4. forward' = [forward EXCEPT ![handler.rid] = t]
        BY <2>2 DEF NativeSucceeded
      <3> QED
        BY <3>1, <3>2, <3>3, <3>4 DEF Verdicts
    <2> QED
      BY <2>1, <2>2
  <1>8. \A r \in Requests :
            forward'[r] = IF r = handler.rid THEN t ELSE forward[r]
    BY <1>5, <1>7 DEF ReceiptInv, GatewayInv, TypeOK
  <1>9. \A r \in Requests, s \in Verdicts :
            Says(r, s)' => Says(r, s) \/ (r = handler.rid /\ s = v)
    BY <1>3, <1>6, <1>7, <1>8 DEF Says
  <1>10. handler' = Idle
    BY <1>3 DEF Answer
  <1>11. OpenHasNoVerdict' /\ OneTrueVerdict'
    BY <1>2, <1>3, <1>4, <1>7, <1>9, <1>10, NewVerdict
  <1>12. StreamsInOrder'
    BY <1>3, <1>5, <1>7, <1>8 DEF ReceiptInv, StreamsInOrder
  <1>13. reply' # "ok"
    BY DEF ReceiptInv, HandlerKnows, AdapterRefuses, NativeSucceeded
  <1>14. HandlerKnows'
    BY <1>10, <1>13 DEF HandlerKnows, Idle
  <1> QED
    BY <1>1, <1>6, <1>11, <1>12, <1>14 DEF ReceiptInv

\* finalize_receipt: the handler's outcome goes to the row and the channel.
LEMMA FinalizeReceipts ==
    ASSUME ReceiptInv, FinalizeReceipt
    PROVE  ReceiptInv'
  <1>1. GatewayInv'
    BY FinalizeReceiptInv DEF ReceiptInv
  <1>2. handler # Idle /\ handler.outcome \in Status
    BY HandlerAtWork, HandlerFields
    DEF ReceiptInv, GatewayInv, FinalizeReceipt, Status
  <1>3. /\ handler.rid \in Requests /\ HasRow(handler.rid)
        /\ forward[handler.rid] = <<>>
    BY <1>2, HandlerIsFirst
  <1>4. UNCHANGED <<forward, recorded, reported, executions, reply>>
        /\ Answer(handler) /\ handler' = Idle
    BY DEF FinalizeReceipt, effects, Answer
  <1>5. UpdateReceiptStatus(handler.rid, handler.outcome)
    BY DEF FinalizeReceipt
  <1>6. \A r \in Requests : HasRow(r)' <=> HasRow(r)
    BY <1>2, <1>3, <1>5, UpdateKeepsRows DEF ReceiptInv, GatewayInv
  <1>7. \A r \in Requests :
            \/ store'[r].status = store[r].status
            \/ r = handler.rid /\ store'[r].status = handler.outcome
    BY <1>2, <1>3, <1>5, UpdateSays DEF ReceiptInv, GatewayInv
  <1>8. \A r \in Requests : Range(channel'[r]) \subseteq
            Range(channel[r]) \cup (IF r = handler.rid THEN {handler.outcome}
                                    ELSE {})
    BY <1>2, <1>3, RangeAppend DEF ReceiptInv, GatewayInv, TypeOK, FinalizeReceipt
  <1>9. /\ \A r \in Requests, s \in Verdicts : Messages(r, s)' => Messages(r, s)
        /\ MessagesHaveRows'
    BY <1>2, <1>4, <1>6, AcceptedIsOpen
  <1>10. \A r \in Requests, s \in Verdicts :
            Says(r, s)' => Says(r, s) \/ (r = handler.rid /\ s = handler.outcome)
    BY <1>4, <1>7, <1>8, <1>9 DEF Says
  <1>11. handler.outcome = "COMPLETED" => executions[handler.rid] = 1
    BY DEF ReceiptInv, HandlerKnows, FinalizeReceipt
  <1>12. OpenHasNoVerdict' /\ OneTrueVerdict'
    BY <1>2, <1>4, <1>6, <1>10, <1>11, NewVerdict
  <1>13. StreamsInOrder'
    BY <1>3, <1>4, <1>7 DEF ReceiptInv, StreamsInOrder
  <1>14. HandlerKnows'
    BY <1>4 DEF ReceiptInv, HandlerKnows, FinalizeReceipt, Idle
  <1> QED
    BY <1>1, <1>9, <1>12, <1>13, <1>14 DEF ReceiptInv

\* A forwarder stores the head of its stream, in the stream's order.
LEMMA ForwardRecordReceipts ==
    ASSUME ReceiptInv, NEW r \in Requests, ForwardRecord(r)
    PROVE  ReceiptInv'
  <1> DEFINE v == Head(forward[r])
  <1>1. GatewayInv'
    BY ForwardRecordInv DEF ReceiptInv
  <1>2. HasRow(r) /\ v \in Status /\ forward[r] \in Seq(Status)
        /\ forward[r] # <<>>
    BY DEF ReceiptInv, GatewayInv, TypeOK, OpenHaveRows, ForwardRecord
  <1>3. v \in Range(forward[r]) /\ Range(Tail(forward[r])) \subseteq Range(forward[r])
    BY <1>2, RangeSplit
  <1>4. UpdateReceiptStatus(r, v)
    BY DEF ForwardRecord
  <1>5. \A q \in Requests : HasRow(q)' <=> HasRow(q)
    BY <1>2, <1>4, UpdateKeepsRows DEF ReceiptInv, GatewayInv
  <1>6. \A q \in Requests : \/ store'[q].status = store[q].status
                            \/ q = r /\ store'[q].status = v
    BY <1>2, <1>4, UpdateSays DEF ReceiptInv, GatewayInv
  <1>7. \A q \in Requests :
            /\ forward'[q] = IF q = r THEN Tail(forward[r]) ELSE forward[q]
            /\ recorded'[q] = IF q = r THEN v ELSE recorded[q]
    BY DEF ReceiptInv, GatewayInv, TypeOK, ForwardRecord
  <1>8. UNCHANGED <<channel, outbox, reported, handler, executions, reply>>
    BY DEF ForwardRecord, effects
  <1>9. \A q \in Requests, s \in Verdicts : Says(q, s)' => Says(q, s)
    BY <1>3, <1>6, <1>7, <1>8 DEF Says, Messages
  <1>10. handler' = Idle \/ (handler # Idle /\ handler'.rid = handler.rid)
    BY <1>8
  <1>11. OpenHasNoVerdict' /\ OneTrueVerdict'
    BY <1>5, <1>8, <1>9, <1>10, NoNewVerdict
  <1>12. StreamsInOrder'
    <2>1. /\ Tail(<<"COMPLETED">>) = <<>> /\ Tail(<<"REJECTED">>) = <<>>
          /\ Tail(<<"DISPATCHED_TO_CODEX", "COMPLETED">>) = <<"COMPLETED">>
      OBVIOUS
    <2>2. forward[r] \in Streams
      BY DEF ReceiptInv, StreamsInOrder
    <2>3. Tail(forward[r]) \in {<<>>, <<"COMPLETED">>}
      BY <1>2, <2>1, <2>2 DEF Streams
    <2>4. Len(Tail(forward[r])) # 2
      <3>1. Len(<<>>) = 0 /\ Len(<<"COMPLETED">>) = 1
        OBVIOUS
      <3>2. Len(Tail(forward[r])) \in {0, 1}
        BY <2>3, <3>1
      <3> QED
        BY <3>2
    <2>5. Tail(forward[r]) \in Streams
      BY <2>3 DEF Streams
    <2> QED
      BY <1>6, <1>7, <2>4, <2>5 DEF ReceiptInv, StreamsInOrder
  <1>13. MessagesHaveRows'
    <2>1. \A m \in Range(outbox) \cup reported : m.rid \in Requests
      BY MessagesTyped DEF ReceiptInv, GatewayInv
    <2> QED
      BY <1>5, <1>8, <2>1 DEF ReceiptInv, MessagesHaveRows
  <1>14. HandlerKnows'
    BY <1>8 DEF ReceiptInv, HandlerKnows
  <1> QED
    BY <1>1, <1>11, <1>12, <1>13, <1>14 DEF ReceiptInv

\* graceful_shutdown says OUTCOME_UNKNOWN, which is no verdict.
LEMMA ShutdownReceipts ==
    ASSUME ReceiptInv, NEW r \in Requests, ShutdownFinalize(r)
    PROVE  ReceiptInv'
  <1> DEFINE v == "OUTCOME_UNKNOWN"
  <1>1. GatewayInv'
    BY ShutdownFinalizeInv DEF ReceiptInv
  <1>2. HasRow(r) /\ v \in Status /\ v \notin Verdicts
    BY DEF ReceiptInv, GatewayInv, OpenHaveRows, ShutdownFinalize, Status,
       Terminal, Verdicts
  <1>3. UpdateReceiptStatus(r, v)
    BY DEF ShutdownFinalize
  <1>4. \A q \in Requests : HasRow(q)' <=> HasRow(q)
    BY <1>2, <1>3, UpdateKeepsRows DEF ReceiptInv, GatewayInv
  <1>5. \A q \in Requests : \/ store'[q].status = store[q].status
                            \/ store'[q].status = v
    BY <1>2, <1>3, UpdateSays DEF ReceiptInv, GatewayInv
  <1>6. \A q \in Requests : Range(channel'[q]) \subseteq Range(channel[q]) \cup {v}
    BY <1>2, RangeAppend DEF ReceiptInv, GatewayInv, TypeOK, ShutdownFinalize
  <1>7. UNCHANGED <<forward, recorded, outbox, reported, handler, executions,
                    reply>>
    BY DEF ShutdownFinalize, effects
  <1>8. \A q \in Requests, s \in Verdicts : Says(q, s)' => Says(q, s)
    BY <1>2, <1>5, <1>6, <1>7 DEF Says, Messages
  <1>9. handler' = Idle \/ (handler # Idle /\ handler'.rid = handler.rid)
    BY <1>7
  <1>10. OpenHasNoVerdict' /\ OneTrueVerdict'
    BY <1>4, <1>7, <1>8, <1>9, NoNewVerdict
  <1>11. StreamsInOrder'
    BY <1>2, <1>5, <1>7 DEF ReceiptInv, StreamsInOrder
  <1>12. MessagesHaveRows'
    <2>1. \A m \in Range(outbox) \cup reported : m.rid \in Requests
      BY MessagesTyped DEF ReceiptInv, GatewayInv
    <2> QED
      BY <1>4, <1>7, <2>1 DEF ReceiptInv, MessagesHaveRows
  <1>13. HandlerKnows'
    BY <1>7 DEF ReceiptInv, HandlerKnows
  <1> QED
    BY <1>1, <1>10, <1>11, <1>12, <1>13 DEF ReceiptInv

\* Steps that pass on what is said already: rows, streams and the handler
\* stay.
LEMMA PassingOn ==
    ASSUME ReceiptInv, GatewayInv',
           UNCHANGED <<forward, store, handler, executions, reply>>,
           \A r \in Requests, s \in Verdicts : Says(r, s)' => Says(r, s),
           \A m \in Range(outbox)' \cup reported' :
               \/ m \in Range(outbox) \cup reported
               \/ IF m.recorded THEN HasRow(m.rid) ELSE m.status = "REJECTED"
    PROVE  ReceiptInv'
  <1>1. \A r \in Requests : HasRow(r) => HasRow(r)'
    BY DEF HasRow
  <1>2. handler' = Idle \/ (handler # Idle /\ handler'.rid = handler.rid)
    OBVIOUS
  <1>3. OpenHasNoVerdict' /\ OneTrueVerdict'
    BY <1>1, <1>2, NoNewVerdict
  <1>4. StreamsInOrder' /\ MessagesHaveRows'
    BY QuietRest
  <1>5. HandlerKnows'
    BY DEF ReceiptInv, HandlerKnows
  <1> QED
    BY <1>3, <1>4, <1>5 DEF ReceiptInv

\* A forwarder passes its receipt to the caller channel.
LEMMA ForwardSendReceipts ==
    ASSUME ReceiptInv, NEW r \in Requests, ForwardSend(r)
    PROVE  ReceiptInv'
  <1>1. GatewayInv'
    BY ForwardSendInv DEF ReceiptInv
  <1>2. recorded[r] \in Status
    BY DEF ReceiptInv, GatewayInv, TypeOK, ForwardSend
  <1>3. \A q \in Requests :
            /\ Range(channel'[q]) \subseteq Range(channel[q]) \cup
                   (IF q = r THEN {recorded[r]} ELSE {})
            /\ recorded'[q] \in {recorded[q], "none"}
    BY <1>2, RangeAppend DEF ReceiptInv, GatewayInv, TypeOK, ForwardSend
  <1>4. UNCHANGED <<forward, store, handler, executions, reply, outbox, reported>>
    BY DEF ForwardSend, effects
  <1>5. \A q \in Requests, s \in Verdicts : Says(q, s)' => Says(q, s)
    BY <1>3, <1>4 DEF Says, Messages, Verdicts
  <1> QED
    BY <1>1, <1>4, <1>5, PassingOn

\* The receipt task turns the head of the channel into a message.
LEMMA ReportReceipts ==
    ASSUME ReceiptInv, NEW r \in Requests, ReportReceipt(r)
    PROVE  ReceiptInv'
  <1> DEFINE v == Head(channel[r])
  <1> DEFINE m == Result([rid |-> r, payload |-> store[r].payload], v, TRUE)
  <1>1. GatewayInv'
    BY ReportReceiptInv DEF ReceiptInv
  <1>2. channel[r] \in Seq(Status) /\ channel[r] # <<>> /\ HasRow(r)
    BY DEF ReceiptInv, GatewayInv, TypeOK, OpenHaveRows, ReportReceipt
  <1>3. v \in Status /\ v \in Range(channel[r])
        /\ Range(Tail(channel[r])) \subseteq Range(channel[r])
    BY <1>2, RangeSplit
  <1>4. m \in Message
    BY <1>2, <1>3
    DEF ReceiptInv, GatewayInv, TypeOK, HasRow, Rows, Result, Message
  <1>5. m.recorded /\ m.rid = r /\ m.status = v
    BY DEF Result
  <1>6. Range(outbox') \subseteq Range(outbox) \cup {m}
    <2>1. outbox \in Seq(Message)
      BY DEF ReceiptInv, GatewayInv, TypeOK
    <2>2. outbox' = Push(outbox, m)
      BY DEF ReportReceipt
    <2> HIDE DEF m
    <2> QED
      BY <1>4, <2>1, <2>2, RangePush
  <1>7. \A q \in Requests : Range(channel'[q]) \subseteq Range(channel[q])
    <2>1. \A q \in Requests :
              channel'[q] \in {channel[q], <<>>} \cup
                  (IF q = r THEN {Tail(channel[r])} ELSE {})
      BY DEF ReceiptInv, GatewayInv, TypeOK, ReportReceipt
    <2> QED
      BY <1>3, <2>1, RangeEmpty
  <1>8. UNCHANGED <<forward, store, handler, executions, reply, reported, recorded>>
    BY DEF ReportReceipt, effects
  <1> HIDE DEF m, v
  <1>9. \A q \in Requests, s \in Verdicts : Says(q, s)' => Says(q, s)
    <2> SUFFICES ASSUME NEW q \in Requests, NEW s \in Verdicts, Says(q, s)'
                 PROVE  Says(q, s)
      OBVIOUS
    <2>1. Messages(q, s)' => Messages(q, s) \/ (q = r /\ s = v)
      BY <1>5, <1>6, <1>8 DEF Messages
    <2> QED
      BY <1>3, <1>7, <1>8, <2>1 DEF Says
  <1> QED
    BY <1>1, <1>2, <1>5, <1>6, <1>8, <1>9, PassingOn

\* The transport hands a frame over.
LEMMA TransportReceipts ==
    ASSUME ReceiptInv, TransportSend
    PROVE  ReceiptInv'
  <1>1. GatewayInv'
    BY TransportSendInv DEF ReceiptInv
  <1>2. Head(outbox) \in Range(outbox) /\ Range(Tail(outbox)) \subseteq Range(outbox)
    BY RangeSplit DEF ReceiptInv, GatewayInv, TypeOK, TransportSend
  <1>3. Range(outbox') \cup reported' \subseteq Range(outbox) \cup reported
    BY <1>2 DEF TransportSend
  <1>4. UNCHANGED <<forward, store, handler, executions, reply, recorded, channel>>
    BY DEF TransportSend, receiptTasks, effects
  <1>5. \A q \in Requests, s \in Verdicts : Says(q, s)' => Says(q, s)
    BY <1>3, <1>4 DEF Says, Messages
  <1> QED
    BY <1>1, <1>3, <1>4, <1>5, PassingOn

\* Shutdown begins, or a new process starts: nothing is said.
LEMMA LifecycleReceipts ==
    ASSUME ReceiptInv, BeginShutdown \/ Restart
    PROVE  ReceiptInv'
  <1>1. GatewayInv'
    BY BeginShutdownInv, RestartInv DEF ReceiptInv
  <1>2. UNCHANGED <<forward, store, handler, executions, reply, recorded,
                    channel, outbox, reported>>
    BY DEF BeginShutdown, Restart, receiptTasks, effects
  <1>3. \A q \in Requests, s \in Verdicts : Says(q, s)' => Says(q, s)
    BY <1>2 DEF Says, Messages
  <1> QED
    BY <1>1, <1>2, <1>3, PassingOn

\* The process dies: what was only in memory is never said.
LEMMA DeathReceipts ==
    ASSUME ReceiptInv, Exit \/ Crash
    PROVE  ReceiptInv'
  <1>1. GatewayInv'
    BY DeathInv DEF ReceiptInv
  <1>2. LoseMemory
    BY DEF Exit, Crash
  <1>3. /\ \A r \in Requests :
               /\ forward'[r] = <<>> /\ channel'[r] = <<>>
               /\ recorded'[r] = "none"
        /\ outbox' = <<>> /\ reply' = "none" /\ handler' = Idle
        /\ UNCHANGED <<store, reported, executions>>
    BY <1>2 DEF LoseMemory, effects
  <1>4. \A q \in Requests, s \in Verdicts : Says(q, s)' => Says(q, s)
    BY <1>3, RangeEmpty DEF Says, Messages, Verdicts
  <1>5. \A r \in Requests : HasRow(r) => HasRow(r)'
    BY <1>3 DEF HasRow
  <1>6. OpenHasNoVerdict' /\ OneTrueVerdict'
    BY <1>3, <1>4, <1>5, NoNewVerdict
  <1>7. StreamsInOrder' /\ HandlerKnows'
    BY <1>3 DEF StreamsInOrder, Streams, HandlerKnows, Idle
  <1>8. MessagesHaveRows'
    BY <1>3, RangeEmpty DEF ReceiptInv, MessagesHaveRows, HasRow
  <1> QED
    BY <1>1, <1>6, <1>7, <1>8 DEF ReceiptInv

\* submit without a new row: the answer repeats the row, or is unrecorded.
LEMMA SubmitAnswers ==
    ASSUME ReceiptInv, Submit, NEW c \in Command,
           RejectUnrecorded(c) \/ (HasRow(c.rid) /\ Replay(c))
    PROVE  ReceiptInv'
  <1>1. GatewayInv'
    BY SubmitInv DEF ReceiptInv
  <1>2. c.rid \in Requests /\ c.payload \in Payloads
    BY DEF Command
  <1>3. outbox \in Seq(Message)
    BY DEF ReceiptInv, GatewayInv, TypeOK
  <1>4. UNCHANGED <<forward, store, handler, executions, reply, recorded,
                    channel, reported>>
    BY DEF Submit, RejectUnrecorded, Replay, effects
  <1>5. CASE RejectUnrecorded(c)
    <2> DEFINE m == Result(c, "REJECTED", FALSE)
    <2>1. m \in Message /\ ~m.recorded /\ m.status = "REJECTED"
      BY <1>2 DEF Result, Message, Status, Terminal
    <2>2. outbox' = Push(outbox, m)
      BY <1>5 DEF RejectUnrecorded
    <2> HIDE DEF m
    <2>3. Range(outbox') \subseteq Range(outbox) \cup {m}
      BY <1>3, <2>1, <2>2, RangePush
    <2>4. \A q \in Requests, s \in Verdicts : Says(q, s)' => Says(q, s)
      BY <1>4, <2>1, <2>3 DEF Says, Messages
    <2> QED
      BY <1>1, <1>4, <2>1, <2>3, <2>4, PassingOn
  <1>6. CASE HasRow(c.rid) /\ Replay(c)
    <2>1. PICK v \in {store[c.rid].status, "ACCEPTED_BY_BRIDGE"} :
             outbox' = Push(Push(outbox, Accepted(c)), Result(c, v, TRUE))
      BY <1>6 DEF Replay
    <2>2. v \in Status
      BY <1>2, <1>6 DEF ReceiptInv, GatewayInv, TypeOK, HasRow, Rows, Status
    <2> DEFINE a == Accepted(c)
    <2> DEFINE m == Result(c, v, TRUE)
    <2>3. /\ a \in Message /\ a.recorded /\ a.rid = c.rid
          /\ a.status \notin Verdicts
          /\ m \in Message /\ m.recorded /\ m.rid = c.rid /\ m.status = v
      BY <1>2, <2>2 DEF Accepted, Result, Message, Status, Verdicts
    <2>4. outbox' = Push(Push(outbox, a), m)
      BY <2>1
    <2> HIDE DEF a, m
    <2>5. Push(outbox, a) \in Seq(Message)
          /\ Range(Push(outbox, a)) \subseteq Range(outbox) \cup {a}
      BY <1>3, <2>3, PushType, RangePush
    <2>6. Range(outbox') \subseteq Range(outbox) \cup {a, m}
      BY <2>3, <2>4, <2>5, RangePush
    <2>7. "ACCEPTED_BY_BRIDGE" \notin Verdicts
      BY DEF Verdicts
    <2>8. ASSUME NEW q \in Requests, NEW s \in Verdicts, Says(q, s)'
          PROVE  Says(q, s)
      <3>1. Messages(q, s)'
            => Messages(q, s) \/ (q = c.rid /\ s = store[c.rid].status)
        BY <1>4, <2>1, <2>3, <2>6, <2>7 DEF Messages
      <3> QED
        BY <1>4, <2>8, <3>1 DEF Says
    <2> QED
      BY <1>1, <1>4, <1>6, <2>3, <2>6, <2>8, PassingOn
  <1> QED
    BY <1>5, <1>6

\* submit of a new request: its row says nothing yet.
LEMMA SubmitRecords ==
    ASSUME ReceiptInv, Submit, NEW c \in Command, ~HasRow(c.rid),
           RecordReceipt(c)
    PROVE  ReceiptInv'
  <1>1. GatewayInv'
    BY SubmitInv DEF ReceiptInv
  <1>2. c.rid \in Requests
    BY DEF Command
  <1>3. \A r \in Requests :
            /\ r # c.rid => store'[r] = store[r] /\ channel'[r] = channel[r]
            /\ r = c.rid => /\ store'[r].status = "ACCEPTED_BY_BRIDGE"
                            /\ HasRow(r)' /\ channel'[r] = <<>>
    BY <1>2 DEF ReceiptInv, GatewayInv, TypeOK, RecordReceipt, HasRow, NoRow
  <1>4. UNCHANGED <<forward, executions, reply, recorded, outbox, reported>>
    BY DEF Submit, RecordReceipt, effects
  <1>5. handler' = Handling("recorded", c) /\ handler = Idle
    BY DEF Submit, RecordReceipt
  <1>6. \A q \in Requests, s \in Verdicts : Says(q, s)' => Says(q, s)
    BY <1>3, <1>4, RangeEmpty DEF Says, Messages, Verdicts
  <1>7. \A r \in Requests : HasRow(r) => HasRow(r)'
    BY <1>3 DEF HasRow
  <1>8. ~HasRow(handler'.rid)
    BY <1>5 DEF Handling
  <1>9. OpenHasNoVerdict' /\ OneTrueVerdict'
    BY <1>4, <1>6, <1>7, <1>8, NoNewVerdict
  <1>10. StreamsInOrder'
    BY <1>3, <1>4 DEF ReceiptInv, StreamsInOrder, Verdicts
  <1>11. MessagesHaveRows'
    <2>1. \A m \in Range(outbox) \cup reported : m.rid \in Requests
      BY MessagesTyped DEF ReceiptInv, GatewayInv
    <2> QED
      BY <1>4, <1>7, <2>1 DEF ReceiptInv, MessagesHaveRows
  <1>12. HandlerKnows'
    BY <1>4, <1>5 DEF ReceiptInv, HandlerKnows, Handling, Idle
  <1> QED
    BY <1>1, <1>9, <1>10, <1>11, <1>12 DEF ReceiptInv

\* Every step of the Bridge keeps the receipts honest.
LEMMA NextReceipts == ReceiptInv /\ [Next]_vars => ReceiptInv'
  <1> SUFFICES ASSUME ReceiptInv, [Next]_vars PROVE ReceiptInv'
    OBVIOUS
  <1>1. CASE \E c \in Command : Deliver(c)
    BY <1>1, DeliverReceipts
  <1>2. CASE Submit
    <2>1. PICK c \in Command : c = Head(inbox)
      BY <1>2 DEF ReceiptInv, GatewayInv, TypeOK, Submit
    <2>2. \/ RejectUnrecorded(c) \/ (HasRow(c.rid) /\ Replay(c))
          \/ ~HasRow(c.rid) /\ RecordReceipt(c)
      BY <1>2, <2>1 DEF Submit, Admit
    <2> QED
      BY <1>2, <2>2, SubmitAnswers, SubmitRecords
  <1>3. CASE HandlerStep /\ ~Submit
    BY <1>3, HandlerMoves, AnswerReceipts, FinalizeReceipts DEF HandlerStep
  <1>4. CASE DesktopStep
    BY <1>4, DesktopReceipts
  <1>5. CASE \E r \in Requests : ReceiptStep(r)
    BY <1>5, ForwardRecordReceipts, ForwardSendReceipts, ReportReceipts
    DEF ReceiptStep
  <1>6. CASE TransportSend
    BY <1>6, TransportReceipts
  <1>7. CASE LifecycleStep
    BY <1>7, LifecycleReceipts, ShutdownReceipts, DeathReceipts
    DEF LifecycleStep
  <1>8. CASE UNCHANGED vars
    <2>1. GatewayInv'
      BY <1>8, NextInv DEF ReceiptInv
    <2>2. UNCHANGED <<forward, store, handler, executions, reply, recorded,
                      channel, outbox, reported>>
      BY <1>8 DEF vars
    <2>3. \A q \in Requests, s \in Verdicts : Says(q, s)' => Says(q, s)
      BY <2>2 DEF Says, Messages
    <2> QED
      BY <2>1, <2>2, <2>3, PassingOn
  <1> QED
    BY <1>1, <1>2, <1>3, <1>4, <1>5, <1>6, <1>7, <1>8 DEF Next

\* The receipts are honest in every reachable state.
THEOREM ReceiptInvariant == Spec => []ReceiptInv
  <1> QED
    BY InitReceipts, NextReceipts, PTL DEF Spec

\* COMPLETED in SQLite, or told to the Relay first or as a replay, is never
\* said of a request whose effect has not happened, for any number of
\* retries, crashes, shutdowns, lost messages and failing store writes.
THEOREM CompletedMeansDone == Spec => []CompletedIsTrue
  <1>1. ReceiptInv => CompletedIsTrue
    <2> SUFFICES ASSUME ReceiptInv, NEW r \in Requests,
                        \/ store[r].status = "COMPLETED"
                        \/ \E m \in reported :
                               m.rid = r /\ m.status = "COMPLETED"
                 PROVE  executions[r] = 1
      BY DEF CompletedIsTrue
    <2>1. \A m \in reported : m.status = "COMPLETED" => m.recorded
      BY DEF ReceiptInv, MessagesHaveRows
    <2>2. Says(r, "COMPLETED")
      BY <2>1 DEF Says, Messages
    <2> QED
      BY <2>2 DEF ReceiptInv, OneTrueVerdict
  <1> QED
    BY <1>1, ReceiptInvariant, PTL

-----------------------------------------------------------------------------
(* What a step may do to a settled receipt. *)

\* The store changes in four places only.
LEMMA StoreChanges ==
    ASSUME ReceiptInv, [Next]_vars, store' # store
    PROVE  \/ \E c \in Command : ~HasRow(c.rid) /\ RecordReceipt(c)
           \/ FinalizeReceipt
           \/ \E r \in Requests : ForwardRecord(r)
           \/ \E r \in Requests : ShutdownFinalize(r)
  <1>1. CASE Submit
    <2>1. PICK c \in Command : c = Head(inbox)
      BY <1>1 DEF ReceiptInv, GatewayInv, TypeOK, Submit
    <2>2. Admit(c)
      BY <1>1, <2>1 DEF Submit
    <2> QED
      BY <2>2 DEF Admit, RejectUnrecorded, Replay
  <1>2. CASE Validate \/ QueueOperation \/ AdapterRefuses \/ DispatchFails
                 \/ WriteNative \/ NativeSucceeded \/ NativeFailed
    BY <1>2 DEF Validate, QueueOperation, AdapterRefuses, DispatchFails,
       WriteNative, NativeSucceeded, NativeFailed
  <1>3. CASE DesktopStep
    BY <1>3 DEF DesktopStep, DesktopExecutes, DesktopRefuses, IpcLost
  <1>4. CASE TransportSend \/ (\E c \in Command : Deliver(c))
    BY <1>4 DEF TransportSend, Deliver
  <1>5. CASE \E r \in Requests : ReceiptStep(r)
    BY <1>5 DEF ReceiptStep, ForwardSend, ReportReceipt
  <1>6. CASE LifecycleStep
    BY <1>6 DEF LifecycleStep, BeginShutdown, Exit, Crash, LoseMemory, Restart
  <1>7. CASE UNCHANGED vars
    BY <1>7 DEF vars
  <1> QED
    BY <1>1, <1>2, <1>3, <1>4, <1>5, <1>6, <1>7 DEF Next, HandlerStep

\* A stored verdict stays, or becomes OUTCOME_UNKNOWN.
LEMMA SettledStep ==
    ASSUME ReceiptInv, [Next]_vars, NEW r \in Requests,
           store[r].status \in Verdicts
    PROVE  store'[r].status \in {store[r].status, "OUTCOME_UNKNOWN"}
  <1> USE DEF ReceiptInv, GatewayInv
  <1>1. HasRow(r) /\ Says(r, store[r].status)
    BY DEF HasRow, NoRow, Says, Verdicts
  <1>2. CASE UNCHANGED store
    BY <1>2
  <1>3. CASE \E c \in Command : ~HasRow(c.rid) /\ RecordReceipt(c)
    BY <1>1, <1>3 DEF RecordReceipt, TypeOK
  <1>4. CASE FinalizeReceipt
    <2>1. handler # Idle /\ handler.outcome \in Status
      BY <1>4, HandlerAtWork, HandlerFields DEF FinalizeReceipt, Status
    <2>2. handler.rid \in Requests /\ HasRow(handler.rid) /\ handler.rid # r
      BY <2>1, HandlerIsFirst
    <2> QED
      BY <1>4, <2>1, <2>2, UpdateSays DEF FinalizeReceipt
  <1>5. CASE \E q \in Requests : ForwardRecord(q)
    <2>1. PICK q \in Requests : ForwardRecord(q)
      BY <1>5
    <2>2. /\ forward[q] # <<>> /\ forward[q] \in Seq(Status) /\ HasRow(q)
          /\ UpdateReceiptStatus(q, Head(forward[q]))
      BY <2>1 DEF TypeOK, OpenHaveRows, ForwardRecord
    <2>3. Head(forward[q]) \in Status /\ Head(forward[q]) \in Range(forward[q])
      BY <2>2, RangeSplit
    <2>4. \/ store'[r].status = store[r].status
          \/ r = q /\ store'[r].status = Head(forward[q])
      BY <2>2, <2>3, UpdateSays
    <2>5. ASSUME r = q PROVE Head(forward[q]) = store[r].status
      <3>1. Len(forward[q]) # 2 /\ forward[q] \in Streams
        BY <2>5 DEF StreamsInOrder
      <3>2. /\ Len(<<"DISPATCHED_TO_CODEX", "COMPLETED">>) = 2
            /\ Head(<<"COMPLETED">>) = "COMPLETED"
            /\ Head(<<"REJECTED">>) = "REJECTED"
        OBVIOUS
      <3>3. Head(forward[q]) \in Verdicts
        BY <2>2, <3>1, <3>2 DEF Streams, Verdicts
      <3>4. Says(q, Head(forward[q]))
        BY <2>3 DEF Says
      <3> QED
        BY <1>1, <2>5, <3>3, <3>4 DEF OneTrueVerdict, Verdicts
    <2> QED
      BY <2>4, <2>5
  <1>6. CASE \E q \in Requests : ShutdownFinalize(q)
    <2>1. PICK q \in Requests : ShutdownFinalize(q)
      BY <1>6
    <2>2. HasRow(q) /\ UpdateReceiptStatus(q, "OUTCOME_UNKNOWN")
          /\ "OUTCOME_UNKNOWN" \in Status
      BY <2>1 DEF OpenHaveRows, ShutdownFinalize, Status, Terminal
    <2> QED
      BY <2>2, UpdateSays
  <1> QED
    BY <1>2, <1>3, <1>4, <1>5, <1>6, StoreChanges

\* No step takes a stored COMPLETED or REJECTED back, or turns one into the
\* other; graceful_shutdown alone may overwrite it with OUTCOME_UNKNOWN.
THEOREM VerdictsAreFinal == Spec => SettledStaysSettled
  <1>1. ReceiptInv /\ [Next]_vars
        => [\A r \in Requests :
               store[r].status \in {"COMPLETED", "REJECTED"}
               => store'[r].status \in {store[r].status, "OUTCOME_UNKNOWN"}]_vars
    BY SettledStep DEF Verdicts
  <1> QED
    BY <1>1, ReceiptInvariant, PTL DEF Spec, SettledStaysSettled

-----------------------------------------------------------------------------
(* BridgeGateway implements CommandService. *)

\* Nothing is accepted, done or told at first.
LEMMA InitService == Init => Service!Init
  BY DEF Init, Service!Init, NoRow

\* The payload of a row is a payload, and never that of no row.
LEMMA RowPayload ==
    ASSUME TypeOK, NEW r \in Requests
    PROVE  HasRow(r) <=> store[r].payload # NoRow.payload
  BY PayloadKinds DEF TypeOK, HasRow, Rows, NoRow

\* The effect of a step on the accepted payloads, effects and tellings.
LEMMA ServiceUnchanged ==
    ASSUME UNCHANGED <<store, executions, reported>>
    PROVE  UNCHANGED Service!vars
  BY DEF Service!vars

\* A new row accepts its request.
LEMMA RecordIsAccept ==
    ASSUME ReceiptInv, NEW c \in Command, ~HasRow(c.rid), RecordReceipt(c),
           UNCHANGED <<executions, reported>>
    PROVE  Service!Accept(c.rid, c.payload)
  <1>1. c.rid \in Requests /\ store[c.rid].payload = NoRow.payload
    BY RowPayload DEF Command, ReceiptInv, GatewayInv
  <1>2. \A r \in Requests :
            store'[r].payload = IF r = c.rid THEN c.payload
                                ELSE store[r].payload
    BY <1>1 DEF ReceiptInv, GatewayInv, TypeOK, RecordReceipt
  <1>3. [r \in Requests |-> store'[r].payload] =
            [[r \in Requests |-> store[r].payload] EXCEPT ![c.rid] = c.payload]
    BY <1>1, <1>2
  <1> QED
    BY <1>1, <1>3 DEF Service!Accept

\* Every other change of a row keeps what is accepted.
LEMMA UpdateIsStutter ==
    ASSUME ReceiptInv, NEW r \in Requests, HasRow(r), NEW v \in Status,
           UpdateReceiptStatus(r, v), UNCHANGED <<executions, reported>>
    PROVE  UNCHANGED Service!vars
  <1>1. \A q \in Requests : store'[q].payload = store[q].payload
    BY UpdateKeepsRows DEF ReceiptInv, GatewayInv
  <1> QED
    BY <1>1 DEF Service!vars

\* An execution is the effect of a request that is accepted and not done.
LEMMA ExecuteIsEffect ==
    ASSUME ReceiptInv, NEW r \in Requests, OnItsWay(r), HasRow(r),
           executions' = [executions EXCEPT ![r] = @ + 1],
           UNCHANGED <<store, reported>>
    PROVE  Service!Effect(r)
  <1>1. executions[r] = 0 /\ store[r].payload # NoRow.payload
    BY RowPayload DEF ReceiptInv, GatewayInv, SpentOnce
  <1>2. executions' = [executions EXCEPT ![r] = 1]
    BY <1>1
  <1> QED
    BY <1>1, <1>2 DEF Service!Effect

\* A message about a receipt that the transport hands over tells the truth
\* and contradicts nothing told before; the others tell nothing.
LEMMA SendIsTell ==
    ASSUME ReceiptInv, TransportSend
    PROVE  [Service!Next]_(Service!vars)
  <1> DEFINE m == Head(outbox)
  <1> DEFINE T(S) == {<<n.rid, n.status>> : n \in {k \in S : k.recorded}}
  <1>1. m \in Range(outbox) /\ m \in Message
    BY RangeSplit DEF ReceiptInv, GatewayInv, TypeOK, TransportSend
  <1>2. reported' = reported \cup {m} /\ UNCHANGED <<store, executions>>
    BY DEF TransportSend, effects
  <1>3. m.rid \in Requests /\ m.status \in Status
    BY <1>1 DEF Message
  <1> HIDE DEF m
  <1>4. CASE ~m.recorded
    <2>1. T(reported') = T(reported)
      BY <1>2, <1>4
    <2> QED
      BY <1>2, <2>1 DEF Service!vars
  <1>5. CASE m.recorded
    <2>1. HasRow(m.rid) /\ Says(m.rid, m.status)
      BY <1>1, <1>5 DEF ReceiptInv, MessagesHaveRows, Says, Messages
    <2>2. store[m.rid].payload # NoRow.payload
      BY <1>3, <2>1, RowPayload DEF ReceiptInv, GatewayInv
    <2>3. m.status = "COMPLETED" => executions[m.rid] = 1
      BY <1>3, <2>1 DEF ReceiptInv, OneTrueVerdict
    <2>4. ASSUME NEW k \in T(reported), k[1] = m.rid
          PROVE  ~Service!Contradicts(m.status, k[2])
      <3>1. PICK n \in reported : n.recorded /\ k = <<n.rid, n.status>>
        BY <2>4
      <3>2. Says(m.rid, k[2])
        BY <2>4, <3>1 DEF Says, Messages
      <3> QED
        BY <1>3, <2>1, <3>2 DEF ReceiptInv, OneTrueVerdict, Service!Contradicts
    <2>5. T(reported') = T(reported) \cup {<<m.rid, m.status>>}
      BY <1>2, <1>5
    <2>6. PICK r \in Requests, s \in Status : r = m.rid /\ s = m.status
      BY <1>3
    <2>7. Service!Tell(r, s)
      BY <1>2, <2>2, <2>3, <2>4, <2>5, <2>6 DEF Service!Tell
    <2> QED
      BY <2>7 DEF Service!Next, Status, Terminal
  <1> QED
    BY <1>4, <1>5

\* Every step of the Bridge is a step of the service, or none.
LEMMA NextService ==
    ReceiptInv /\ [Next]_vars => [Service!Next]_(Service!vars)
  <1> SUFFICES ASSUME ReceiptInv, [Next]_vars
               PROVE  [Service!Next]_(Service!vars)
    OBVIOUS
  <1>1. CASE Submit
    <2>1. PICK c \in Command : c = Head(inbox)
      BY <1>1 DEF ReceiptInv, GatewayInv, TypeOK, Submit
    <2>2. UNCHANGED <<executions, reported>>
      BY <1>1 DEF Submit, effects
    <2>3. c.rid \in Requests /\ c.payload \in Payloads
      BY DEF Command
    <2>4. CASE ~HasRow(c.rid) /\ RecordReceipt(c)
      <3>1. Service!Accept(c.rid, c.payload)
        BY <2>2, <2>4, RecordIsAccept
      <3> QED
        BY <2>3, <3>1 DEF Service!Next
    <2>5. CASE UNCHANGED store
      BY <2>2, <2>5, ServiceUnchanged
    <2>6. Admit(c)
      BY <1>1, <2>1 DEF Submit
    <2> QED
      BY <2>4, <2>5, <2>6 DEF Admit, RejectUnrecorded, Replay
  <1>2. CASE Validate \/ AdapterRefuses \/ DispatchFails \/ WriteNative
                 \/ NativeSucceeded \/ NativeFailed
    <2>1. UNCHANGED <<store, executions, reported>>
      BY <1>2 DEF Validate, AdapterRefuses, DispatchFails, WriteNative,
         NativeSucceeded, NativeFailed, effects
    <2> QED
      BY <2>1, ServiceUnchanged
  <1>3. CASE QueueOperation
    <2>1. handler # Idle /\ handler.rid \in Requests
      BY <1>3, HandlerAtWork, HandlerFields
      DEF ReceiptInv, GatewayInv, QueueOperation
    <2>2. HasRow(handler.rid) /\ OnItsWay(handler.rid)
      BY <1>3, <2>1, HandlerIsFirst DEF QueueOperation, OnItsWay
    <2>3. UNCHANGED <<store, reported>>
      BY <1>3 DEF QueueOperation
    <2>4. CASE UNCHANGED executions
      BY <2>3, <2>4, ServiceUnchanged
    <2>5. CASE executions' = [executions EXCEPT ![handler.rid] = @ + 1]
      <3>1. Service!Effect(handler.rid)
        BY <2>1, <2>2, <2>3, <2>5, ExecuteIsEffect
      <3> QED
        BY <2>1, <3>1 DEF Service!Next
    <2> QED
      BY <1>3, <2>4, <2>5 DEF QueueOperation, Execute, effects
  <1>4. CASE FinalizeReceipt
    <2>1. handler # Idle /\ handler.outcome \in Status
      BY <1>4, HandlerAtWork, HandlerFields
      DEF ReceiptInv, GatewayInv, FinalizeReceipt, Status
    <2>2. handler.rid \in Requests /\ HasRow(handler.rid)
      BY <2>1, HandlerIsFirst
    <2>3. UpdateReceiptStatus(handler.rid, handler.outcome)
          /\ UNCHANGED <<executions, reported>>
      BY <1>4 DEF FinalizeReceipt, effects
    <2> QED
      BY <2>1, <2>2, <2>3, UpdateIsStutter
  <1>5. CASE IpcLost \/ (\E w \in wire : DesktopRefuses(w))
    <2>1. UNCHANGED <<store, executions, reported>>
      BY <1>5 DEF IpcLost, DesktopRefuses, effects
    <2> QED
      BY <2>1, ServiceUnchanged
  <1>6. CASE \E w \in wire : DesktopExecutes(w)
    <2>1. PICK w \in wire : DesktopExecutes(w)
      BY <1>6
    <2>2. w.rid \in Requests /\ HasRow(w.rid) /\ OnItsWay(w.rid)
      BY DEF ReceiptInv, GatewayInv, TypeOK, Command, WireIsRecorded,
         RecordedAs, OnItsWay
    <2>3. /\ executions' = [executions EXCEPT ![w.rid] = @ + 1]
          /\ UNCHANGED <<store, reported>>
      BY <2>1 DEF DesktopExecutes, Execute
    <2>4. Service!Effect(w.rid)
      BY <2>2, <2>3, ExecuteIsEffect
    <2> QED
      BY <2>2, <2>4 DEF Service!Next
  <1>7. CASE \E r \in Requests : ForwardRecord(r)
    <2>1. PICK r \in Requests : ForwardRecord(r)
      BY <1>7
    <2>2. /\ HasRow(r) /\ Head(forward[r]) \in Status
          /\ UpdateReceiptStatus(r, Head(forward[r]))
          /\ UNCHANGED <<executions, reported>>
      BY <2>1
      DEF ReceiptInv, GatewayInv, TypeOK, OpenHaveRows, ForwardRecord, effects
    <2> QED
      BY <2>2, UpdateIsStutter
  <1>8. CASE \E r \in Requests : ShutdownFinalize(r)
    <2>1. PICK r \in Requests : ShutdownFinalize(r)
      BY <1>8
    <2>2. /\ HasRow(r) /\ "OUTCOME_UNKNOWN" \in Status
          /\ UpdateReceiptStatus(r, "OUTCOME_UNKNOWN")
          /\ UNCHANGED <<executions, reported>>
      BY <2>1
      DEF ReceiptInv, GatewayInv, OpenHaveRows, ShutdownFinalize, Status,
          Terminal, effects
    <2> QED
      BY <2>2, UpdateIsStutter
  <1>9. CASE TransportSend
    BY <1>9, SendIsTell
  <1>10. CASE \/ \E c \in Command : Deliver(c)
              \/ \E r \in Requests : ForwardSend(r) \/ ReportReceipt(r)
              \/ BeginShutdown \/ Exit \/ Crash \/ Restart
              \/ UNCHANGED vars
    <2>1. UNCHANGED <<store, executions, reported>>
      BY <1>10
      DEF Deliver, ForwardSend, ReportReceipt, BeginShutdown, Exit, Crash,
          LoseMemory, Restart, vars, effects
    <2> QED
      BY <2>1, ServiceUnchanged
  <1> QED
    BY <1>1, <1>2, <1>3, <1>4, <1>5, <1>6, <1>7, <1>8, <1>9, <1>10
    DEF Next, HandlerStep, DesktopStep, ReceiptStep, LifecycleStep

\* The Bridge keeps the promise of CommandService: one payload per request
\* id, its effect at most once and only after the receipt is durable,
\* COMPLETED told only of effects, and never COMPLETED and REJECTED of one
\* accepted request.
THEOREM GatewayImplementsService == Spec => ImplementsService
  <1> QED
    BY InitService, NextService, ReceiptInvariant, PTL
    DEF Spec, ImplementsService, Service!Spec
=============================================================================
