--------------------------- MODULE NextTurnQueue ---------------------------
(***************************************************************************)
(* The single next-turn queue of one session (QueueManager): the queue     *)
(* commands of the gateway, the watcher task that sends the queued prompt  *)
(* when the current turn completes, resume, the Codex adapter's projection *)
(* of Desktop, and Desktop itself.                                         *)
(*                                                                         *)
(* Gateway commands come one at a time from the inbound loop; the watcher  *)
(* task, a caller of resume, Desktop and the adapter's pump interleave     *)
(* with them at every await.  Turn 0 stands for "no turn" and, as a        *)
(* binding, for IDLE_AFTER_TURN.                                           *)
(***************************************************************************)
EXTENDS Integers, Sequences, FiniteSets

CONSTANTS
    Prompts,          \* queued texts, one per QueueNextTurn command
    MaxTurns,         \* bound: turns Desktop starts
    Setups,           \* bounds and failures of a behaviour, see bounds
    StoreMayFail      \* TRUE if a store write may fail after its retries

ASSUME QueueBounds ==
    /\ MaxTurns \in Nat \ {0}
    /\ Setups \subseteq [prompts : SUBSET Prompts, turns : 1 .. MaxTurns,
                         attentions : Nat, resumes : Nat, crashes : Nat,
                         disconnects : BOOLEAN]
    /\ StoreMayFail \in BOOLEAN
    /\ "no prompt" \notin Prompts

VARIABLES
    desktop,      \* Desktop: the running turn and the last one started
    stream,       \* lifecycle changes on their way to the adapter's mapper
    mapped,       \* the mapper: its running turn and the last it has seen
    attention,    \* the mapper's snapshot holds a question or an approval
    entry,        \* the row of next_turn_queue
    op,           \* the queue command in the gateway
    watching,     \* the watcher task exists
    events,       \* TurnLifecycle events not yet taken by the watcher
    task,         \* maybe_auto_send / mark_paused of the watcher and resume
    sending,      \* auto_send_inflight
    wire,         \* StartTurn requests a task waits for: task -> prompt
    late,         \* StartTurn requests nobody waits for any more: how many
    used,         \* prompts of the QueueNextTurn commands so far
    started,      \* how often Desktop has started a turn for a prompt
    current,      \* the prompt written to the queue last
    exposed,      \* prompts written while a task held an older entry
    timely,       \* prompts whose watcher stood while their turn was running
    withdrawn,    \* prompts paused or cancelled before a send was decided
    cancelled,    \* prompts a completed CancelQueue was meant for
    attentions,   \* attention raised so far
    resumes,      \* calls of resume so far
    crashes,      \* crashes so far
    bounds        \* the bounds of this behaviour (constant)

adapter == <<stream, mapped, attention, attentions>>
queue == <<entry, op, watching>>
sender == <<events, task, sending, wire, late>>
ghosts == <<used, current, exposed, timely, withdrawn, cancelled>>
vars == <<desktop, stream, mapped, attention, entry, op, watching, events, task,
          sending, wire, late, used, started, current, exposed, timely,
          withdrawn, cancelled, attentions, resumes, crashes, bounds>>

\* What a behaviour may use: prompts, turns, questions and approvals of Desktop,
\* calls of resume, crashes of the Bridge, and whether Desktop's IPC may be out
\* of reach.
MayQueue == bounds.prompts
MaxAttentions == bounds.attentions
MaxResumes == bounds.resumes
MaxCrashes == bounds.crashes
MayDisconnect == bounds.disconnects

Turns == 0 .. MaxTurns
Tasks == {"watcher", "resumer"}
NoPrompt == "no prompt"
NoEntry == [prompt |-> NoPrompt, after |-> 0, status |-> "EMPTY"]
Entries == [prompt : Prompts, after : Turns, status : {"QUEUED", "PAUSED"}]
Rows == Entries \cup {NoEntry}
Queued(e) == e.status = "QUEUED"

Change == [kind : {"running", "completed", "failed"}, turn : Turns]
NoOp == [at |-> "idle", entry |-> NoEntry, replace |-> FALSE]
NoTask == [at |-> "idle", entry |-> NoEntry, seen |-> 0, sent |-> FALSE]
Ops == [at : {"idle", "set", "watch", "pause"}, entry : Rows, replace : BOOLEAN]
Jobs == [at : {"idle", "decide", "snapshot", "send", "wait", "clear", "mark",
               "pause", "rebind", "resume"},
         entry : Rows, seen : Turns, sent : BOOLEAN]

TypeOK ==
    /\ desktop \in [turn : Turns, last : Turns]
    /\ stream \in Seq(Change)
    /\ mapped \in [turn : Turns, last : Turns]
    /\ attention \in BOOLEAN
    /\ entry \in Rows
    /\ op \in Ops
    /\ watching \in BOOLEAN
    /\ events \in Seq(Change)
    /\ task \in [Tasks -> Jobs]
    /\ sending \in BOOLEAN
    /\ wire \in [Tasks -> Prompts \cup {NoPrompt}]
    /\ late \in [Prompts -> Nat]
    /\ used \subseteq Prompts
    /\ started \in [Prompts -> Nat]
    /\ current \in Prompts \cup {NoPrompt}
    /\ exposed \subseteq Prompts
    /\ timely \subseteq Prompts
    /\ withdrawn \subseteq Prompts
    /\ cancelled \subseteq Prompts
    /\ attentions \in Nat
    /\ resumes \in Nat
    /\ crashes \in Nat
    /\ bounds \in Setups

-----------------------------------------------------------------------------
(* LocalStore: single statements and transactions, retried while SQLite is *)
(* busy.                                                                   *)

\* set_next_turn with replace, and clear_next_turn.
Store(e) == entry' = e \/ (StoreMayFail /\ UNCHANGED entry)

\* A task works on a copy of the entry: to send it or to pause it.
Sends(t) == task[t].at \in {"snapshot", "send", "wait", "clear"}
Holds(t) == Sends(t) \/ task[t].at \in {"pause", "rebind", "resume"}

\* No task has read the entry of this prompt as one to send.
Undecided(p) == \A t \in Tasks : Sends(t) => task[t].entry.prompt # p

\* What a store write withdraws: the prompt it deletes or pauses.
Withdraw(p) ==
    withdrawn' = withdrawn \cup
        (IF p \in Prompts /\ Undecided(p) /\ entry' # entry THEN {p} ELSE {})

-----------------------------------------------------------------------------
(* Desktop (outside the repository) and the adapter's pump. *)

\* The user of Desktop, or a StartTurn request, starts a turn.
StartsTurn ==
    /\ desktop.turn = 0
    /\ desktop.last < bounds.turns
    /\ desktop' = [turn |-> desktop.last + 1, last |-> desktop.last + 1]
    /\ stream' = Append(stream, [kind |-> "running", turn |-> desktop.last + 1])

UserStarts ==
    /\ StartsTurn
    /\ UNCHANGED <<mapped, attention, attentions, queue, sender, started,
                   ghosts, resumes, crashes>>

TurnEnds(kind) ==
    /\ desktop.turn # 0
    /\ desktop' = [desktop EXCEPT !.turn = 0]
    /\ stream' = Append(stream, [kind |-> kind, turn |-> desktop.turn])
    /\ UNCHANGED <<mapped, attention, attentions, queue, sender, started,
                   ghosts, resumes, crashes>>

Attention ==
    /\ \/ attention /\ UNCHANGED attentions
       \/ ~attention /\ attentions < MaxAttentions
          /\ attentions' = attentions + 1
    /\ attention' = ~attention
    /\ UNCHANGED <<desktop, stream, mapped, queue, sender, started, ghosts,
                   resumes, crashes>>

\* StreamChanged: one snapshot or patch may carry several changes; the mapper
\* is updated first, and a TurnLifecycle event goes to the watcher only if the
\* running turn is not the one it had.
PumpApplies(n) ==
    /\ n \in 1 .. Len(stream)
    /\ LET c == stream[n]
           turn == IF c.kind = "running" THEN c.turn ELSE 0
       IN  /\ mapped' = [turn |-> turn, last |-> c.turn]
           /\ events' = IF watching /\ turn # mapped.turn
                        THEN Append(events, c) ELSE events
    /\ stream' = SubSeq(stream, n + 1, Len(stream))
    /\ UNCHANGED <<desktop, attention, attentions, queue, task, sending, wire,
                   late, started, ghosts, resumes, crashes>>

-----------------------------------------------------------------------------
(* Queue commands of the gateway. *)

\* QueueNextTurn: the snapshot that is validated is the one the entry will be
\* bound to.
SetSnapshot(p, replace) ==
    /\ op = NoOp
    /\ p \notin used
    /\ used' = used \cup {p}
    /\ op' = [at |-> "set", replace |-> replace,
              entry |-> [prompt |-> p, after |-> mapped.turn,
                         status |-> "QUEUED"]]
    /\ UNCHANGED <<desktop, adapter, entry, watching, sender, started, current,
                   exposed, timely, withdrawn, cancelled, resumes, crashes>>

\* set: an existing entry is only overwritten by a replace.
SetWrite ==
    /\ op.at = "set"
    /\ \/ /\ entry = NoEntry \/ op.replace
          /\ entry' = op.entry
          /\ op' = [op EXCEPT !.at = "watch"]
          /\ current' = op.entry.prompt
          /\ exposed' = exposed \cup
                (IF \E t \in Tasks : Holds(t) THEN {op.entry.prompt} ELSE {})
       \/ /\ (entry # NoEntry /\ ~op.replace) \/ StoreMayFail
          /\ op' = NoOp
          /\ UNCHANGED <<entry, current, exposed>>
    /\ UNCHANGED <<desktop, adapter, watching, sender, started, used, timely,
                   withdrawn, cancelled, resumes, crashes>>

\* ensure_watcher; a subscription that fails leaves no watcher.
EnsureWatcher == watching' = TRUE \/ (MayDisconnect /\ UNCHANGED watching)

SetWatch ==
    /\ op.at = "watch"
    /\ EnsureWatcher
    /\ op' = NoOp
    /\ timely' = timely \cup
          (IF watching' /\ mapped.turn # 0 /\ mapped.turn = op.entry.after
           THEN {op.entry.prompt} ELSE {})
    /\ UNCHANGED <<desktop, adapter, entry, sender, started, used, current,
                   exposed, withdrawn, cancelled, resumes, crashes>>

\* CancelQueue: COMPLETED whether or not a row was deleted.
Cancel ==
    /\ op = NoOp
    /\ Store(NoEntry)
    /\ Withdraw(entry.prompt)
    /\ cancelled' = IF entry' = NoEntry /\ current # NoPrompt
                    THEN cancelled \cup {current} ELSE cancelled
    /\ UNCHANGED <<desktop, adapter, op, watching, sender, started, used,
                   current, exposed, timely, resumes, crashes>>

\* PauseQueue: read the entry, then write it back as PAUSED.
PauseRead ==
    /\ op = NoOp
    /\ Queued(entry)
    /\ op' = [at |-> "pause", entry |-> entry, replace |-> TRUE]
    /\ UNCHANGED <<desktop, adapter, entry, watching, sender, started, ghosts,
                   resumes, crashes>>

\* Faulty variant: the row is kept with the status of an empty queue.
PauseWritesEmpty ==
    /\ op.at = "pause"
    /\ Store([op.entry EXCEPT !.status = "EMPTY"])
    /\ Withdraw(op.entry.prompt)
    /\ op' = NoOp
    /\ UNCHANGED <<desktop, adapter, watching, sender, started, used, current,
                   exposed, timely, cancelled, resumes, crashes>>

PauseWrite ==
    /\ op.at = "pause"
    /\ Store([op.entry EXCEPT !.status = "PAUSED"])
    /\ Withdraw(op.entry.prompt)
    /\ op' = NoOp
    /\ UNCHANGED <<desktop, adapter, watching, sender, started, used, current,
                   exposed, timely, cancelled, resumes, crashes>>

-----------------------------------------------------------------------------
(* The watcher task: on_event. *)

\* Faulty variant: a turn started by the Desktop user is not noticed.
OnEventIgnoresForeign ==
    /\ events # <<>>
    /\ task["watcher"] = NoTask
    /\ events' = Tail(events)
    /\ sending' = FALSE
    /\ task' = [task EXCEPT !["watcher"].at =
                   CASE Head(events).kind = "completed" -> "decide"
                     [] Head(events).kind = "failed" -> "mark"
                     [] Head(events).kind = "running" -> "idle"]
    /\ UNCHANGED <<desktop, adapter, queue, wire, late, started, ghosts,
                   resumes, crashes>>

OnEvent ==
    /\ events # <<>>
    /\ task["watcher"] = NoTask
    /\ events' = Tail(events)
    /\ LET e == Head(events) IN
          \/ /\ e.kind = "completed"
             /\ sending' = FALSE
             /\ task' = [task EXCEPT !["watcher"].at = "decide"]
          \/ /\ e.kind = "failed"
             /\ sending' = FALSE
             /\ task' = [task EXCEPT !["watcher"].at = "mark"]
          \/ /\ e.kind = "running"
             /\ sending' = FALSE
             /\ task' = IF ~sending /\ Queued(entry) /\ entry.after # e.turn
                        THEN [task EXCEPT !["watcher"].at = "mark"] ELSE task
    /\ UNCHANGED <<desktop, adapter, queue, wire, late, started, ghosts,
                   resumes, crashes>>

\* Faulty variant: a paused entry is sent too.
DecideAnyEntry(t) ==
    /\ task[t].at = "decide"
    /\ task' = [task EXCEPT ![t] = IF entry # NoEntry
                    THEN [@ EXCEPT !.at = "snapshot", !.entry = entry]
                    ELSE NoTask]
    /\ UNCHANGED <<desktop, adapter, queue, events, sending, wire, late, started,
                   ghosts, resumes, crashes>>

\* maybe_auto_send: read the entry.
Decide(t) ==
    /\ task[t].at = "decide"
    /\ task' = [task EXCEPT ![t] = IF Queued(entry)
                    THEN [@ EXCEPT !.at = "snapshot", !.entry = entry]
                    ELSE NoTask]
    /\ UNCHANGED <<desktop, adapter, queue, events, sending, wire, late, started,
                   ghosts, resumes, crashes>>

\* Then the runtime snapshot: gone, a turn is running, attention, or clear.
CheckSnapshot(t) ==
    /\ task[t].at = "snapshot"
    /\ \/ /\ MayDisconnect
          /\ task' = [task EXCEPT ![t].at = "mark"]
          /\ UNCHANGED sending
       \/ /\ mapped.turn # 0 \/ attention
          /\ task' = [task EXCEPT ![t] = NoTask]
          /\ UNCHANGED sending
       \/ /\ mapped.turn = 0 /\ ~attention
          /\ task' = [task EXCEPT ![t].at = "send", ![t].seen = mapped.last]
          /\ sending' = TRUE
    /\ UNCHANGED <<desktop, adapter, queue, events, wire, late, started, ghosts,
                   resumes, crashes>>

\* execute_command: fails before the write, or StartTurn goes to Desktop.
SendStart(t) ==
    /\ task[t].at = "send"
    /\ \/ /\ wire' = [wire EXCEPT ![t] = task[t].entry.prompt]
          /\ task' = [task EXCEPT ![t].at = "wait"]
       \/ /\ MayDisconnect
          /\ task' = [task EXCEPT ![t].at = "mark", ![t].sent = TRUE]
          /\ UNCHANGED wire
    /\ UNCHANGED <<desktop, adapter, queue, events, sending, late, started,
                   ghosts, resumes, crashes>>

\* Desktop starts the turn and tells the task that waits for it.
DesktopStarts(t) ==
    /\ wire[t] # NoPrompt
    /\ StartsTurn
    /\ started' = [started EXCEPT ![wire[t]] = @ + 1]
    /\ wire' = [wire EXCEPT ![t] = NoPrompt]
    /\ task' = [task EXCEPT ![t].at = "clear"]
    /\ UNCHANGED <<mapped, attention, attentions, queue, events, sending, late,
                   ghosts, resumes, crashes>>

DesktopStartsLate(p) ==
    /\ late[p] > 0
    /\ StartsTurn
    /\ started' = [started EXCEPT ![p] = @ + 1]
    /\ late' = [late EXCEPT ![p] = @ - 1]
    /\ UNCHANGED <<mapped, attention, attentions, queue, events, task, sending,
                   wire, ghosts, resumes, crashes>>

\* Faulty variant: a send without an answer is tried again.
SendRetries(t) ==
    /\ task[t].at = "wait"
    /\ wire' = [wire EXCEPT ![t] = NoPrompt]
    /\ \/ UNCHANGED late
       \/ MayDisconnect /\ late' = [late EXCEPT ![wire[t]] = @ + 1]
    /\ task' = [task EXCEPT ![t].at = "snapshot"]
    /\ UNCHANGED <<desktop, adapter, queue, events, sending, started, ghosts,
                   resumes, crashes>>

\* Desktop refuses, the socket breaks, or no answer comes in time; in the last
\* two cases Desktop may still act on the request.
SendFails(t) ==
    /\ task[t].at = "wait"
    /\ wire' = [wire EXCEPT ![t] = NoPrompt]
    /\ \/ UNCHANGED late
       \/ MayDisconnect /\ late' = [late EXCEPT ![wire[t]] = @ + 1]
    /\ task' = [task EXCEPT ![t].at = "mark", ![t].sent = TRUE]
    /\ UNCHANGED <<desktop, adapter, queue, events, sending, started, ghosts,
                   resumes, crashes>>

\* After COMPLETED the entry is deleted, whichever entry it is by now.
ClearSent(t) ==
    /\ task[t].at = "clear"
    /\ Store(NoEntry)
    /\ task' = [task EXCEPT ![t] = NoTask]
    /\ sending' = FALSE
    /\ UNCHANGED <<desktop, adapter, op, watching, events, wire, late, started, ghosts,
                   resumes, crashes>>

\* mark_paused: read the entry, then write it back as PAUSED.
MarkRead(t) ==
    /\ task[t].at = "mark"
    /\ \/ /\ Queued(entry)
          /\ task' = [task EXCEPT ![t].at = "pause", ![t].entry = entry]
          /\ UNCHANGED sending
       \/ /\ ~Queued(entry)
          /\ task' = [task EXCEPT ![t] = NoTask]
          /\ sending' = (sending /\ ~task[t].sent)
    /\ UNCHANGED <<desktop, adapter, queue, events, wire, late, started, ghosts,
                   resumes, crashes>>

\* Faulty variant: the entry is deleted instead of paused.
MarkDeletes(t) ==
    /\ task[t].at = "pause"
    /\ Store(NoEntry)
    /\ Withdraw(task[t].entry.prompt)
    /\ task' = [task EXCEPT ![t] = NoTask]
    /\ sending' = (sending /\ ~task[t].sent)
    /\ UNCHANGED <<desktop, adapter, op, watching, events, wire, late, started,
                   used, current, exposed, timely, cancelled, resumes, crashes>>

MarkWrite(t) ==
    /\ task[t].at = "pause"
    /\ Store([task[t].entry EXCEPT !.status = "PAUSED"])
    /\ Withdraw(task[t].entry.prompt)
    /\ task' = [task EXCEPT ![t] = NoTask]
    /\ sending' = (sending /\ ~task[t].sent)
    /\ UNCHANGED <<desktop, adapter, op, watching, events, wire, late, started,
                   used, current, exposed, timely, cancelled, resumes, crashes>>

-----------------------------------------------------------------------------
(* resume: rebinds the entry to the current snapshot and tries to send. *)

ResumeRead ==
    /\ resumes < MaxResumes
    /\ task["resumer"] = NoTask
    /\ entry # NoEntry
    /\ task' = [task EXCEPT !["resumer"].at = "rebind",
                            !["resumer"].entry = entry]
    /\ resumes' = resumes + 1
    /\ UNCHANGED <<desktop, adapter, queue, events, sending, wire, late, started,
                   ghosts, crashes>>

ResumeSnapshot ==
    /\ task["resumer"].at = "rebind"
    /\ \/ task' = [task EXCEPT !["resumer"].at = "resume",
            !["resumer"].entry = [@ EXCEPT !.after = mapped.turn, !.status = "QUEUED"]]
       \/ MayDisconnect /\ task' = [task EXCEPT !["resumer"] = NoTask]
    /\ UNCHANGED <<desktop, adapter, queue, events, sending, wire, late, started,
                   ghosts, resumes, crashes>>

ResumeWrite ==
    /\ task["resumer"].at = "resume"
    /\ \/ /\ entry' = task["resumer"].entry
          /\ EnsureWatcher
          /\ withdrawn' = withdrawn \ {entry'.prompt}
          /\ task' = [task EXCEPT !["resumer"] = [NoTask EXCEPT !.at = "decide"]]
       \/ /\ StoreMayFail
          /\ task' = [task EXCEPT !["resumer"] = NoTask]
          /\ UNCHANGED <<entry, watching, withdrawn>>
    /\ UNCHANGED <<desktop, adapter, op, events, sending, wire, late, started,
                   used, current, exposed, timely, cancelled, resumes, crashes>>

-----------------------------------------------------------------------------
\* The Bridge crashes and a new process starts: SQLite and Desktop stay, the
\* mapper follows Desktop anew, and no watcher stands until a command asks for
\* one.
CrashAndRestart ==
    /\ crashes < MaxCrashes
    /\ crashes' = crashes + 1
    /\ stream' = <<>>
    /\ mapped' = desktop
    /\ op' = NoOp
    /\ watching' = FALSE
    /\ events' = <<>>
    /\ task' = [t \in Tasks |-> NoTask]
    /\ sending' = FALSE
    /\ wire' = [t \in Tasks |-> NoPrompt]
    /\ late' \in {[p \in Prompts |->
                      late[p] + Cardinality({t \in Tasks : t \in sent /\ wire[t] = p})] :
                   sent \in SUBSET Tasks}
    /\ UNCHANGED <<desktop, attention, attentions, entry, started, ghosts,
                   resumes>>

Init ==
    /\ desktop \in {[turn |-> 0, last |-> 0], [turn |-> 1, last |-> 1]}
    /\ stream = <<>>
    /\ mapped = desktop
    /\ attention = FALSE
    /\ entry = NoEntry
    /\ op = NoOp
    /\ watching = FALSE
    /\ events = <<>>
    /\ task = [t \in Tasks |-> NoTask]
    /\ sending = FALSE
    /\ wire = [t \in Tasks |-> NoPrompt]
    /\ late = [p \in Prompts |-> 0]
    /\ used = {}
    /\ started = [p \in Prompts |-> 0]
    /\ current = NoPrompt
    /\ exposed = {}
    /\ timely = {}
    /\ withdrawn = {}
    /\ cancelled = {}
    /\ attentions = 0
    /\ resumes = 0
    /\ crashes = 0
    /\ bounds \in Setups

DesktopStep ==
    \/ UserStarts \/ TurnEnds("completed") \/ TurnEnds("failed") \/ Attention
    \/ \E p \in Prompts : DesktopStartsLate(p)

Pump == \E n \in 1 .. Len(stream) : PumpApplies(n)

Command ==
    \/ \E p \in MayQueue, replace \in BOOLEAN : SetSnapshot(p, replace)
    \/ Cancel \/ PauseRead \/ ResumeRead

CommandStep == SetWrite \/ SetWatch \/ PauseWrite

TaskStep(t) ==
    \/ Decide(t) \/ CheckSnapshot(t) \/ SendStart(t) \/ DesktopStarts(t)
    \/ SendFails(t) \/ ClearSent(t) \/ MarkRead(t) \/ MarkWrite(t)

ResumeStep == ResumeSnapshot \/ ResumeWrite

Within(A) == A /\ UNCHANGED bounds

Next ==
    \/ Within(DesktopStep) \/ Within(Pump)
    \/ Within(Command) \/ Within(CommandStep)
    \/ Within(OnEvent) \/ (\E t \in Tasks : Within(TaskStep(t)))
    \/ Within(ResumeStep) \/ Within(CrashAndRestart)

Spec == Init /\ [][Next]_vars

\* The pump, the watcher and the handler of a command are Tokio tasks that are
\* polled whenever they are ready; an IPC request is answered or times out.
Fairness ==
    /\ WF_vars(Within(Pump))
    /\ WF_vars(Within(CommandStep))
    /\ WF_vars(Within(OnEvent))
    /\ \A t \in Tasks : WF_vars(Within(TaskStep(t)))
    /\ WF_vars(Within(ResumeStep))

FairSpec == Spec /\ Fairness

-----------------------------------------------------------------------------
(* Properties. *)

(* Desktop starts a turn for a queued prompt at most once, and at most     *)
(* twice more for every resume, which writes the entry anew and sends it   *)
(* beside the watcher: across completion events, races of the watcher with *)
(* queue commands, lost answers and crashes (queue.rs: "naturally avoids   *)
(* double sending").                                                       *)
SentAtMostOnce == \A p \in Prompts : started[p] <= 1 + 2 * resumes

(* PAUSED needs the user, and a cancelled entry is gone: once a prompt has *)
(* been paused or deleted while no task was sending it, no task ever sends *)
(* it, unless it is resumed.                                               *)
WithdrawnIsNotSent ==
    \A t \in Tasks : Sends(t) => task[t].entry.prompt \notin withdrawn

(* An accepted prompt stays in the queue until it is started, cancelled or *)
(* replaced, unless the watcher was still working on an older entry when   *)
(* the prompt was written.                                                 *)
AcceptedIsKept ==
    current \notin exposed \cup cancelled \cup {NoPrompt}
    => entry.prompt = current \/ started[current] > 0

\* The prompt is QUEUED behind a turn that is over.
Overdue(p, t) ==
    entry = [prompt |-> p, after |-> t, status |-> "QUEUED"] /\ mapped.turn # t

(* An entry whose watcher stood while its turn was running does not stay   *)
(* QUEUED for ever once the turn it is bound to is over: it is sent or     *)
(* paused, unless a question or an approval holds it back, resume writes   *)
(* it again, or the Bridge restarts without a watcher.                     *)
TimelyEntryResolves ==
    []<>( \/ ~ \E p \in timely, t \in 1 .. MaxTurns : Overdue(p, t)
          \/ attentions > 0 \/ resumes > 0 \/ crashes > 0 )
=============================================================================
