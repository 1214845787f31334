------------------------ MODULE NextTurnQueueProofs -------------------------
(***************************************************************************)
(* TLAPS proofs about NextTurnQueue: how often a queued prompt is sent,    *)
(* that an accepted prompt is kept and that a withdrawn one is not sent.   *)
(***************************************************************************)
EXTENDS NextTurnQueue, FiniteSetTheorems, TLAPS

\* A task that waits has its request at Desktop; one that holds an entry has
\* one; only resume rebinds; an answer means a turn was started.
Working(t) ==
    /\ task[t].at = "wait" <=> wire[t] # NoPrompt
    /\ wire[t] # NoPrompt => wire[t] = task[t].entry.prompt
    /\ Holds(t) => task[t].entry \in Entries
    /\ task[t].at = "clear" => started[task[t].entry.prompt] > 0
    /\ t = "watcher" => task[t].at \notin {"rebind", "resume"}
    /\ t = "resumer" /\ task[t].at # "idle" => resumes > 0

\* There is work for the watcher only if it stands; a command has an entry.
Standing ==
    /\ events # <<>> \/ task["watcher"].at # "idle" => watching
    /\ op.at # "idle" => op.entry \in Entries
    /\ op.at = "set" => Queued(op.entry) /\ op.entry.prompt \in used

\* Nothing is known of a prompt before it is written to the queue.
Unwritten(p) == p \notin used \/ (op.at = "set" /\ op.entry.prompt = p)
Fresh(p) ==
    Unwritten(p) =>
        /\ p \notin withdrawn /\ started[p] = 0 /\ late[p] = 0
        /\ entry.prompt # p
        /\ \A t \in Tasks : task[t].entry.prompt # p
        /\ p \notin used => op.entry.prompt # p

\* What is QUEUED was not withdrawn.
QueuedIsWanted == Queued(entry) => entry.prompt \notin withdrawn

\* The prompt written last is excused, or it is the one everybody works on.
Excused == current \in exposed \cup cancelled \cup {NoPrompt} \/ started[current] > 0
KeptOrExcused ==
    \/ Excused
    \/ /\ entry.prompt = current
       /\ \A t \in Tasks : Holds(t) => task[t].entry.prompt = current
       /\ op.at = "pause" => op.entry.prompt = current

\* The task may yet send the prompt without another write to the queue.
Reads(t) ==
    \/ t = "watcher" /\ (watching \/ op.at = "watch")
                     /\ task[t].at \in {"idle", "decide", "snapshot"}
    \/ t = "resumer" /\ task[t].at = "decide"
MaySend(t, p) ==
    \/ wire[t] = p
    \/ task[t].at \in {"snapshot", "send"} /\ task[t].entry.prompt = p
    \/ Reads(t) /\ Queued(entry) /\ entry.prompt = p
Rebinding == task["resumer"].at \in {"rebind", "resume"}
Count(b) == IF b THEN 1 ELSE 0
Allowed(p) ==
    started[p] + late[p] + Count(MaySend("watcher", p)) + Count(MaySend("resumer", p))
        + 2 * Count(Rebinding) <= 1 + 2 * resumes

QueueInv ==
    /\ TypeOK
    /\ \A t \in Tasks : Working(t)
    /\ Standing
    /\ \A p \in Prompts : Fresh(p)
    /\ WithdrawnIsNotSent /\ QueuedIsWanted
    /\ KeptOrExcused
    /\ ~StoreMayFail => \A p \in Prompts : Allowed(p)

-----------------------------------------------------------------------------
(* The values. *)

\* No entry, no command and no task.
LEMMA Nones ==
    /\ NoPrompt \notin Prompts /\ NoEntry \in Rows /\ NoEntry.prompt = NoPrompt
    /\ ~Queued(NoEntry) /\ NoEntry.status = "EMPTY"
    /\ NoTask \in Jobs /\ NoTask.at = "idle" /\ NoTask.entry = NoEntry /\ NoTask.sent = FALSE
    /\ NoOp \in Ops /\ NoOp.at = "idle" /\ NoOp.entry = NoEntry
    /\ "watcher" \in Tasks /\ "resumer" \in Tasks /\ 0 \in Turns
  <1>1. NoPrompt \notin Prompts /\ "watcher" \in Tasks /\ "resumer" \in Tasks
    BY QueueBounds DEF NoPrompt, Tasks
  <1>2. /\ NoEntry \in Rows /\ NoEntry.prompt = NoPrompt /\ ~Queued(NoEntry)
        /\ NoEntry.status = "EMPTY"
    <2>1. NoEntry \in Rows
      BY DEF Rows
    <2>2. NoEntry.prompt = NoPrompt /\ NoEntry.status = "EMPTY"
      BY DEF NoEntry
    <2> QED
      BY <2>1, <2>2 DEF Queued
  <1>3. 0 \in Turns
    <2>1. MaxTurns \in Nat
      BY QueueBounds
    <2>2. 0 \in 0 .. MaxTurns
      BY <2>1
    <2> QED
      BY <2>2 DEF Turns
  <1>4. NoTask \in Jobs /\ NoTask.at = "idle" /\ NoTask.entry = NoEntry /\ NoTask.sent = FALSE
    BY <1>2, <1>3 DEF NoTask, Jobs
  <1>5. NoOp \in Ops /\ NoOp.at = "idle" /\ NoOp.entry = NoEntry
    BY <1>2 DEF NoOp, Ops
  <1> QED
    BY <1>1, <1>2, <1>3, <1>4, <1>5

\* The row and its parts.
LEMMA RowParts ==
    ASSUME NEW e \in Rows
    PROVE  /\ e.prompt \in Prompts \cup {NoPrompt}
           /\ e \in Entries <=> e.prompt \in Prompts
           /\ e \in Entries <=> e # NoEntry
           /\ Queued(e) => e \in Entries
           /\ [e EXCEPT !.status = "PAUSED"].prompt = e.prompt
           /\ ~Queued([e EXCEPT !.status = "PAUSED"])
           /\ e \in Entries => [e EXCEPT !.status = "PAUSED"] \in Entries
  <1>1. CASE e = NoEntry
    <2>1. e \notin Entries
      BY <1>1, Nones DEF NoEntry, Entries
    <2>2. /\ [e EXCEPT !.status = "PAUSED"].prompt = e.prompt
          /\ [e EXCEPT !.status = "PAUSED"].status = "PAUSED"
      BY <1>1 DEF NoEntry
    <2> QED
      BY <1>1, <2>1, <2>2, Nones DEF Queued
  <1>2. CASE e \in Entries
    <2>1. /\ e.prompt \in Prompts
          /\ [e EXCEPT !.status = "PAUSED"].prompt = e.prompt
          /\ [e EXCEPT !.status = "PAUSED"].status = "PAUSED"
          /\ [e EXCEPT !.status = "PAUSED"] \in Entries
      BY <1>2 DEF Entries
    <2> QED
      BY <1>2, <2>1, Nones DEF Queued
  <1> QED
    BY <1>1, <1>2 DEF Rows

\* The types of the invariant's variables.
LEMMA TypesOf ==
    ASSUME TypeOK
    PROVE  /\ entry \in Rows /\ op \in Ops /\ op.entry \in Rows
           /\ task \in [Tasks -> Jobs] /\ \A t \in Tasks : task[t] \in Jobs /\ task[t].entry \in Rows
           /\ wire \in [Tasks -> Prompts \cup {NoPrompt}]
           /\ late \in [Prompts -> Nat] /\ started \in [Prompts -> Nat] /\ resumes \in Nat
           /\ \A p \in Prompts : late[p] \in Nat /\ started[p] \in Nat
  <1>1. /\ entry \in Rows /\ op \in Ops /\ task \in [Tasks -> Jobs] /\ resumes \in Nat
        /\ wire \in [Tasks -> Prompts \cup {NoPrompt}]
        /\ late \in [Prompts -> Nat] /\ started \in [Prompts -> Nat]
    BY DEF TypeOK
  <1>2. op.entry \in Rows
    BY <1>1 DEF Ops
  <1>3. \A t \in Tasks : task[t] \in Jobs /\ task[t].entry \in Rows
    BY <1>1 DEF Jobs
  <1>4. \A p \in Prompts : late[p] \in Nat /\ started[p] \in Nat
    BY <1>1
  <1> QED
    BY <1>1, <1>2, <1>3, <1>4

\* Counts are 0 or 1.
LEMMA Counts ==
    /\ \A b \in BOOLEAN : Count(b) \in 0..1
    /\ Count(TRUE) = 1 /\ Count(FALSE) = 0
    /\ \A t, p : MaySend(t, p) \in BOOLEAN
    /\ Rebinding \in BOOLEAN
  BY DEF Count, MaySend, Rebinding

\* One task moves.
LEMMA JobMoves ==
    ASSUME task \in [Tasks -> Jobs], NEW t \in Tasks, NEW j \in Jobs,
           task' = [task EXCEPT ![t] = j]
    PROVE  /\ task' \in [Tasks -> Jobs] /\ task'[t] = j
           /\ \A u \in Tasks : u # t => task'[u] = task[u]
  OBVIOUS

\* A task that stays as it is.
LEMMA SameJob ==
    ASSUME task \in [Tasks -> Jobs], NEW t \in Tasks
    PROVE  task = [task EXCEPT ![t] = task[t]]
  OBVIOUS

-----------------------------------------------------------------------------
(* Steps of the tasks. *)

\* What may still be sent does not grow.
LEMMA AllowedKeeps ==
    ASSUME QueueInv, TypeOK', NEW p \in Prompts, Allowed(p),
           started'[p] + late'[p] + Count(MaySend("watcher", p))' + Count(MaySend("resumer", p))'
             <= started[p] + late[p] + Count(MaySend("watcher", p)) + Count(MaySend("resumer", p)),
           Count(Rebinding)' + resumes <= Count(Rebinding) + resumes'
    PROVE  Allowed(p)'
  <1>1. /\ started[p] \in Nat /\ late[p] \in Nat /\ resumes \in Nat
        /\ started'[p] \in Nat /\ late'[p] \in Nat /\ resumes' \in Nat
    BY TypesOf DEF QueueInv, TypeOK
  <1>2. /\ Count(MaySend("watcher", p)) \in 0..1 /\ Count(MaySend("resumer", p)) \in 0..1
        /\ Count(Rebinding) \in 0..1
    BY DEF Count
  <1>3. /\ Count(MaySend("watcher", p))' \in 0..1 /\ Count(MaySend("resumer", p))' \in 0..1
        /\ Count(Rebinding)' \in 0..1
    BY DEF Count
  <1>4. started[p] + late[p] + Count(MaySend("watcher", p)) + Count(MaySend("resumer", p))
          + 2 * Count(Rebinding) <= 1 + 2 * resumes
    BY DEF Allowed
  <1>5. PICK w \in 0..1, r \in 0..1, b \in 0..1 :
           /\ w = Count(MaySend("watcher", p))' /\ r = Count(MaySend("resumer", p))'
           /\ b = Count(Rebinding)'
    BY <1>3
  <1>6. started'[p] + late'[p] + w + r + 2 * b <= 1 + 2 * resumes'
    BY <1>1, <1>2, <1>4, <1>5
  <1> QED
    BY <1>5, <1>6 DEF Allowed

\* A step of one task that leaves the queue alone: what the task then works on
\* it had before, or has just read from the row.
LEMMA TaskMoves ==
    ASSUME QueueInv, TypeOK', NEW t \in Tasks, NEW j \in Jobs,
           task' = [task EXCEPT ![t] = j],
           UNCHANGED <<entry, op, watching, used, current, exposed, withdrawn, cancelled>>,
           events' # <<>> => events # <<>> \/ watching,
           t = "watcher" /\ j.at # "idle" => watching,
           Working(t)',
           j.entry.prompt \in {task[t].entry.prompt, entry.prompt, NoPrompt},
           Sends(t)' => \/ Sends(t) /\ j.entry.prompt = task[t].entry.prompt
                        \/ Queued(entry) /\ j.entry.prompt = entry.prompt,
           Holds(t)' => \/ Holds(t) /\ j.entry.prompt = task[t].entry.prompt
                        \/ j.entry.prompt = entry.prompt,
           \A u \in Tasks : u # t => wire'[u] = wire[u],
           resumes' >= resumes,
           \A p \in Prompts : /\ started'[p] >= started[p]
                              /\ Unwritten(p) => started'[p] = 0 /\ late'[p] = 0,
           \A p \in Prompts : started'[p] + late'[p] + Count(MaySend(t, p))'
                                <= started[p] + late[p] + Count(MaySend(t, p)),
           Count(Rebinding)' + resumes <= Count(Rebinding) + resumes'
    PROVE  QueueInv'
  <1>0. /\ task \in [Tasks -> Jobs] /\ resumes \in Nat /\ resumes' \in Nat
        /\ \A p \in Prompts : /\ started[p] \in Nat /\ late[p] \in Nat
                              /\ started'[p] \in Nat /\ late'[p] \in Nat
        /\ entry \in Rows
    BY TypesOf DEF QueueInv, TypeOK
  <1>1. task'[t] = j /\ \A u \in Tasks : u # t => task'[u] = task[u]
    BY <1>0, JobMoves
  <1>2. \A u \in Tasks : Working(u)'
    <2> SUFFICES ASSUME NEW u \in Tasks, u # t PROVE Working(u)'
      OBVIOUS
    <2>1. Working(u) /\ task'[u] = task[u] /\ wire'[u] = wire[u]
      BY <1>1 DEF QueueInv
    <2>2. task[u].at = "clear" => started'[task[u].entry.prompt] > 0
      <3>1. task[u].at = "clear" => task[u].entry.prompt \in Prompts
                                    /\ started[task[u].entry.prompt] > 0
        BY <2>1 DEF Working, Holds, Sends, Entries
      <3> QED
        BY <1>0, <3>1
    <2>3. u = "resumer" /\ task[u].at # "idle" => resumes' > 0
      BY <1>0, <2>1 DEF Working
    <2> QED
      BY <2>1, <2>2, <2>3 DEF Working, Holds, Sends
  <1>3. Standing'
    BY <1>1, Nones DEF QueueInv, Standing, Working, Tasks
  <1>4. \A p \in Prompts : Fresh(p)'
    <2> SUFFICES ASSUME NEW p \in Prompts, Unwritten(p)'
                 PROVE  /\ p \notin withdrawn' /\ started'[p] = 0 /\ late'[p] = 0
                        /\ entry'.prompt # p
                        /\ \A u \in Tasks : task'[u].entry.prompt # p
                        /\ p \notin used' => op'.entry.prompt # p
      BY DEF Fresh
    <2>1. Unwritten(p)
      BY DEF Unwritten
    <2>2. Fresh(p)
      BY DEF QueueInv
    <2> QED
      BY <1>1, <2>1, <2>2, Nones DEF Fresh
  <1>5. WithdrawnIsNotSent' /\ QueuedIsWanted'
    <2>1. \A u \in Tasks : Sends(u) => task[u].entry.prompt \notin withdrawn
      BY DEF QueueInv, WithdrawnIsNotSent
    <2>2. Queued(entry) => entry.prompt \notin withdrawn
      BY DEF QueueInv, QueuedIsWanted
    <2>3. \A u \in Tasks : u # t => (Sends(u)' <=> Sends(u))
      BY <1>1 DEF Sends
    <2> QED
      BY <1>1, <2>1, <2>2, <2>3 DEF WithdrawnIsNotSent, QueuedIsWanted
  <1>6. KeptOrExcused'
    <2>1. CASE Excused
      <3>1. started[current] > 0 => current \in Prompts \/ current = NoPrompt
        BY DEF QueueInv, TypeOK
      <3>2. Excused'
        BY <1>0, <2>1, <3>1 DEF Excused
      <3> QED
        BY <3>2 DEF KeptOrExcused
    <2>2. CASE /\ entry.prompt = current
               /\ \A u \in Tasks : Holds(u) => task[u].entry.prompt = current
               /\ op.at = "pause" => op.entry.prompt = current
      <3>1. \A u \in Tasks : u # t => (Holds(u)' <=> Holds(u))
        BY <1>1 DEF Holds, Sends
      <3>2. \A u \in Tasks : Holds(u)' => task'[u].entry.prompt = current'
        BY <1>1, <2>2, <3>1
      <3> QED
        BY <2>2, <3>2 DEF KeptOrExcused
    <2> QED
      BY <2>1, <2>2 DEF QueueInv, KeptOrExcused
  <1>7. ASSUME ~StoreMayFail, NEW p \in Prompts PROVE Allowed(p)'
    <2>1. Allowed(p)
      BY <1>7 DEF QueueInv
    <2>2. \A u \in Tasks : u # t => (MaySend(u, p)' <=> MaySend(u, p))
      BY <1>1 DEF MaySend, Reads
    <2>3. \A u \in Tasks : u # t => Count(MaySend(u, p))' = Count(MaySend(u, p))
      BY <2>2 DEF Count
    <2>4. /\ Count(MaySend("watcher", p)) \in Nat /\ Count(MaySend("resumer", p)) \in Nat
          /\ Count(MaySend("watcher", p))' \in Nat /\ Count(MaySend("resumer", p))' \in Nat
      BY DEF Count
    <2>5. CASE t = "watcher"
      <3>1. Count(MaySend("resumer", p))' = Count(MaySend("resumer", p))
        BY <2>3, <2>5, Nones
      <3>2. started'[p] + late'[p] + Count(MaySend("watcher", p))'
              <= started[p] + late[p] + Count(MaySend("watcher", p))
        BY <2>5
      <3>3. started'[p] + late'[p] + Count(MaySend("watcher", p))' + Count(MaySend("resumer", p))'
              <= started[p] + late[p] + Count(MaySend("watcher", p)) + Count(MaySend("resumer", p))
        BY <1>0, <2>4, <3>1, <3>2
      <3> QED
        BY <2>1, <3>3, AllowedKeeps
    <2>6. CASE t = "resumer"
      <3>1. Count(MaySend("watcher", p))' = Count(MaySend("watcher", p))
        BY <2>3, <2>6, Nones
      <3>2. started'[p] + late'[p] + Count(MaySend("resumer", p))'
              <= started[p] + late[p] + Count(MaySend("resumer", p))
        BY <2>6
      <3>3. started'[p] + late'[p] + Count(MaySend("watcher", p))' + Count(MaySend("resumer", p))'
              <= started[p] + late[p] + Count(MaySend("watcher", p)) + Count(MaySend("resumer", p))
        BY <1>0, <2>4, <3>1, <3>2
      <3> QED
        BY <2>1, <3>3, AllowedKeeps
    <2> QED
      BY <2>5, <2>6 DEF Tasks
  <1> QED
    BY <1>2, <1>3, <1>4, <1>5, <1>6, <1>7 DEF QueueInv

\* The same for a step that starts nothing and loses no request.
LEMMA ControlMoves ==
    ASSUME QueueInv, TypeOK', NEW t \in Tasks, NEW j \in Jobs,
           task' = [task EXCEPT ![t] = j],
           UNCHANGED <<entry, op, watching, used, current, exposed, withdrawn, cancelled, late,
                       started, resumes>>,
           events' # <<>> => events # <<>> \/ watching,
           t = "watcher" /\ j.at # "idle" => watching,
           Working(t)',
           j.entry.prompt \in {task[t].entry.prompt, entry.prompt, NoPrompt},
           Sends(t)' => \/ Sends(t) /\ j.entry.prompt = task[t].entry.prompt
                        \/ Queued(entry) /\ j.entry.prompt = entry.prompt,
           Holds(t)' => \/ Holds(t) /\ j.entry.prompt = task[t].entry.prompt
                        \/ j.entry.prompt = entry.prompt,
           \A u \in Tasks : u # t => wire'[u] = wire[u],
           \A p \in Prompts : MaySend(t, p)' => MaySend(t, p),
           t = "resumer" /\ j.at \in {"rebind", "resume"} => Rebinding
    PROVE  QueueInv'
  <1>0. /\ task \in [Tasks -> Jobs] /\ resumes \in Nat
        /\ \A p \in Prompts : started[p] \in Nat /\ late[p] \in Nat
    BY TypesOf DEF QueueInv
  <1>1. task'[t] = j /\ \A u \in Tasks : u # t => task'[u] = task[u]
    BY <1>0, JobMoves
  <1>2. Rebinding' => Rebinding
    BY <1>1, Nones DEF Rebinding
  <1>3. Count(Rebinding)' + resumes <= Count(Rebinding) + resumes'
    BY <1>0, <1>2 DEF Count
  <1>4. \A p \in Prompts : started'[p] + late'[p] + Count(MaySend(t, p))'
                             <= started[p] + late[p] + Count(MaySend(t, p))
    BY <1>0 DEF Count
  <1>5. /\ \A p \in Prompts : Unwritten(p) => started[p] = 0 /\ late[p] = 0
        /\ resumes' >= resumes
        /\ \A p \in Prompts : started'[p] >= started[p]
    BY <1>0 DEF QueueInv, Fresh
  <1> QED
    BY <1>3, <1>4, <1>5, TaskMoves

\* The watcher takes an event.
LEMMA OnEventInv == QueueInv /\ Within(OnEvent) => QueueInv'
  <1> SUFFICES ASSUME QueueInv, Within(OnEvent) PROVE QueueInv'
    OBVIOUS
  <1>1. /\ events # <<>> /\ task["watcher"] = NoTask /\ events' = Tail(events) /\ sending' = FALSE
        /\ UNCHANGED <<desktop, stream, mapped, attention, attentions, entry, op, watching, wire,
                       late, started, used, current, exposed, timely, withdrawn, cancelled,
                       resumes, crashes, bounds>>
    BY DEF Within, OnEvent, adapter, queue, ghosts
  <1>2. /\ task \in [Tasks -> Jobs] /\ events \in Seq(Change) /\ watching
        /\ wire["watcher"] = NoPrompt
    BY <1>1, Nones DEF QueueInv, TypeOK, Standing, Working
  <1>3. PICK j \in Jobs :
           /\ task' = [task EXCEPT !["watcher"] = j]
           /\ j.at \in {"decide", "mark", "idle"} /\ j.entry = NoEntry
    <2>1. \A a \in {"decide", "mark"} :
             /\ [NoTask EXCEPT !.at = a] \in Jobs /\ [NoTask EXCEPT !.at = a].at = a
             /\ [NoTask EXCEPT !.at = a].entry = NoEntry
      <3>1. NoTask \in Jobs /\ NoTask.entry = NoEntry
        BY Nones
      <3> QED
        BY <3>1 DEF Jobs
    <2>2. CASE task' = task
      <3>1. task = [task EXCEPT !["watcher"] = task["watcher"]]
        BY <1>2, SameJob, Nones
      <3> QED
        BY <1>1, <2>2, <3>1, Nones
    <2>3. CASE task' = [task EXCEPT !["watcher"].at = "decide"]
      BY <1>1, <2>1, <2>3
    <2>4. CASE task' = [task EXCEPT !["watcher"].at = "mark"]
      BY <1>1, <2>1, <2>4
    <2> QED
      BY <2>2, <2>3, <2>4 DEF Within, OnEvent
  <1>5. task' \in [Tasks -> Jobs] /\ task'["watcher"] = j
    BY <1>2, <1>3, JobMoves, Nones
  <1>6. events' \in Seq(Change)
    BY <1>1, <1>2
  <1>7. TypeOK'
    BY <1>1, <1>5, <1>6 DEF QueueInv, TypeOK
  <1>8. Working("watcher")'
    BY <1>1, <1>2, <1>3, <1>5 DEF Working, Holds, Sends
  <1>9. \A p \in Prompts : MaySend("watcher", p)' => MaySend("watcher", p)
    BY <1>1, <1>2, <1>3, <1>5, Nones DEF MaySend, Reads
  <1>10. ~Sends("watcher")' /\ ~Holds("watcher")' /\ j.entry.prompt = NoPrompt
    BY <1>3, <1>5, Nones DEF Sends, Holds
  <1> QED
    BY <1>1, <1>2, <1>3, <1>7, <1>8, <1>9, <1>10, ControlMoves, Nones

\* maybe_auto_send reads the row.
LEMMA DecideInv ==
    ASSUME QueueInv, NEW t \in Tasks, Within(Decide(t))
    PROVE  QueueInv'
  <1>1. /\ task[t].at = "decide"
        /\ task' = [task EXCEPT ![t] = IF Queued(entry)
                       THEN [task[t] EXCEPT !.at = "snapshot", !.entry = entry] ELSE NoTask]
        /\ UNCHANGED <<desktop, stream, mapped, attention, attentions, entry, op, watching, events,
                       sending, wire, late, started, used, current, exposed, timely, withdrawn,
                       cancelled, resumes, crashes, bounds>>
    BY DEF Within, Decide, adapter, queue, ghosts
  <1>2. /\ task \in [Tasks -> Jobs] /\ task[t] \in Jobs /\ entry \in Rows /\ Working(t)
        /\ t = "watcher" => watching
    BY <1>1, TypesOf DEF QueueInv, Standing
  <1>3. PICK j \in Jobs :
           /\ task' = [task EXCEPT ![t] = j]
           /\ \/ Queued(entry) /\ j.at = "snapshot" /\ j.entry = entry
              \/ ~Queued(entry) /\ j.at = "idle" /\ j.entry = NoEntry
    <2>1. CASE Queued(entry)
      <3>1. /\ [task[t] EXCEPT !.at = "snapshot", !.entry = entry] \in Jobs
            /\ [task[t] EXCEPT !.at = "snapshot", !.entry = entry].at = "snapshot"
            /\ [task[t] EXCEPT !.at = "snapshot", !.entry = entry].entry = entry
        BY <1>2 DEF Jobs
      <3> QED
        BY <1>1, <2>1, <3>1
    <2>2. CASE ~Queued(entry)
      BY <1>1, <2>2, Nones
    <2> QED
      BY <2>1, <2>2
  <1>4. task' \in [Tasks -> Jobs] /\ task'[t] = j
    BY <1>2, <1>3, JobMoves
  <1>5. TypeOK'
    BY <1>1, <1>4 DEF QueueInv, TypeOK
  <1>6. wire[t] = NoPrompt /\ (t = "resumer" => resumes > 0)
    BY <1>1, <1>2 DEF Working
  <1>7. Queued(entry) => entry \in Entries
    BY <1>2, RowParts
  <1>8. Working(t)'
    BY <1>1, <1>3, <1>4, <1>6, <1>7 DEF Working, Holds, Sends
  <1>9. \A p \in Prompts : MaySend(t, p)' => MaySend(t, p)
    BY <1>1, <1>2, <1>3, <1>4, <1>6, Nones DEF MaySend, Reads, Tasks
  <1>10. /\ j.entry.prompt \in {entry.prompt, NoPrompt} /\ j.at \notin {"rebind", "resume"}
         /\ Sends(t)' => Queued(entry) /\ j.entry.prompt = entry.prompt
         /\ Holds(t)' => j.entry.prompt = entry.prompt
    BY <1>3, <1>4, Nones DEF Sends, Holds
  <1> QED
    BY <1>1, <1>2, <1>3, <1>5, <1>8, <1>9, <1>10, ControlMoves

\* Parts of a task change.
LEMMA JobAt ==
    ASSUME NEW j \in Jobs, NEW a \in {"mark", "send", "wait", "clear", "pause", "resume"}
    PROVE  \E k \in Jobs : k = [j EXCEPT !.at = a] /\ k.at = a /\ k.entry = j.entry
  <1>1. /\ [j EXCEPT !.at = a] \in Jobs /\ [j EXCEPT !.at = a].at = a
        /\ [j EXCEPT !.at = a].entry = j.entry
    BY DEF Jobs
  <1> QED
    BY <1>1

\* Its place and that it has sent.
LEMMA JobSent ==
    ASSUME NEW j \in Jobs, NEW a \in {"mark", "send"}
    PROVE  \E k \in Jobs : k = [j EXCEPT !.at = a, !.sent = TRUE] /\ k.at = a /\ k.entry = j.entry
  <1>1. /\ [j EXCEPT !.at = a, !.sent = TRUE] \in Jobs
        /\ [j EXCEPT !.at = a, !.sent = TRUE].at = a
        /\ [j EXCEPT !.at = a, !.sent = TRUE].entry = j.entry
    BY DEF Jobs
  <1> QED
    BY <1>1

\* The snapshot: gone, a turn is running, attention, or clear.
LEMMA CheckSnapshotInv ==
    ASSUME QueueInv, NEW t \in Tasks, Within(CheckSnapshot(t))
    PROVE  QueueInv'
  <1>1. /\ task[t].at = "snapshot"
        /\ UNCHANGED <<desktop, stream, mapped, attention, attentions, entry, op, watching, events,
                       wire, late, started, used, current, exposed, timely, withdrawn,
                       cancelled, resumes, crashes, bounds>>
    BY DEF Within, CheckSnapshot, adapter, queue, ghosts
  <1>2. /\ task \in [Tasks -> Jobs] /\ task[t] \in Jobs /\ Working(t) /\ task[t].entry \in Rows
        /\ t = "watcher" => watching
        /\ mapped.last \in Turns /\ sending \in BOOLEAN
    BY <1>1, TypesOf DEF QueueInv, Standing, TypeOK
  <1>3. PICK j \in Jobs :
           /\ task' = [task EXCEPT ![t] = j]
           /\ \/ j.at = "mark" /\ j.entry = task[t].entry
              \/ j.at = "send" /\ j.entry = task[t].entry
              \/ j.at = "idle" /\ j.entry = NoEntry
    <2>1. CASE task' = [task EXCEPT ![t].at = "mark"]
      <3>1. PICK k \in Jobs : /\ k = [task[t] EXCEPT !.at = "mark"]
                              /\ k.at = "mark" /\ k.entry = task[t].entry
        BY <1>2, JobAt
      <3>2. task' = [task EXCEPT ![t] = k]
        BY <2>1, <3>1
      <3> QED
        BY <2>1, <3>1, <3>2
    <2>2. CASE task' = [task EXCEPT ![t] = NoTask]
      BY <2>2, Nones
    <2>3. CASE task' = [task EXCEPT ![t].at = "send", ![t].seen = mapped.last]
      <3>1. PICK k \in Jobs : /\ k = [task[t] EXCEPT !.at = "send", !.seen = mapped.last]
                              /\ k.at = "send" /\ k.entry = task[t].entry
        <4>1. task[t] \in Jobs /\ mapped.last \in Turns
          BY <1>2
        <4>2. /\ [task[t] EXCEPT !.at = "send", !.seen = mapped.last] \in Jobs
              /\ [task[t] EXCEPT !.at = "send", !.seen = mapped.last].at = "send"
              /\ [task[t] EXCEPT !.at = "send", !.seen = mapped.last].entry = task[t].entry
          BY <4>1 DEF Jobs
        <4> QED
          BY <4>2
      <3>2. task' = [task EXCEPT ![t] = k]
        BY <2>3, <3>1
      <3> QED
        BY <2>3, <3>1, <3>2
    <2> QED
      BY <2>1, <2>2, <2>3 DEF Within, CheckSnapshot
  <1>4. task' \in [Tasks -> Jobs] /\ task'[t] = j
    BY <1>2, <1>3, JobMoves
  <1>40. sending' \in BOOLEAN
    BY <1>2 DEF Within, CheckSnapshot
  <1>5. TypeOK'
    BY <1>1, <1>4, <1>40 DEF QueueInv, TypeOK
  <1>6. /\ wire[t] = NoPrompt /\ (t = "resumer" => resumes > 0) /\ task[t].entry \in Entries
    BY <1>1, <1>2 DEF Working, Holds, Sends
  <1>8. Working(t)'
    BY <1>1, <1>3, <1>4, <1>6 DEF Working, Holds, Sends
  <1>9. \A p \in Prompts : MaySend(t, p)' => MaySend(t, p)
    BY <1>1, <1>2, <1>3, <1>4, <1>6, Nones DEF MaySend, Reads, Tasks
  <1>10. /\ j.entry.prompt \in {task[t].entry.prompt, NoPrompt} /\ j.at \notin {"rebind", "resume"}
         /\ Sends(t)' => Sends(t) /\ j.entry.prompt = task[t].entry.prompt
         /\ Holds(t)' => Holds(t) /\ j.entry.prompt = task[t].entry.prompt
    BY <1>1, <1>3, <1>4, Nones DEF Sends, Holds
  <1> QED
    BY <1>1, <1>2, <1>3, <1>5, <1>8, <1>9, <1>10, ControlMoves

\* StartTurn goes to Desktop, or fails before.
LEMMA SendStartInv ==
    ASSUME QueueInv, NEW t \in Tasks, Within(SendStart(t))
    PROVE  QueueInv'
  <1>1. /\ task[t].at = "send"
        /\ UNCHANGED <<desktop, stream, mapped, attention, attentions, entry, op, watching, events,
                       sending, late, started, used, current, exposed, timely, withdrawn,
                       cancelled, resumes, crashes, bounds>>
    BY DEF Within, SendStart, adapter, queue, ghosts
  <1>2. /\ task \in [Tasks -> Jobs] /\ task[t] \in Jobs /\ Working(t) /\ task[t].entry \in Rows
        /\ t = "watcher" => watching
        /\ wire \in [Tasks -> Prompts \cup {NoPrompt}]
    BY <1>1, TypesOf DEF QueueInv, Standing
  <1>3. PICK j \in Jobs :
           /\ task' = [task EXCEPT ![t] = j] /\ j.entry = task[t].entry
           /\ \/ j.at = "wait" /\ wire' = [wire EXCEPT ![t] = task[t].entry.prompt]
              \/ j.at = "mark" /\ wire' = wire
    <2>1. CASE /\ wire' = [wire EXCEPT ![t] = task[t].entry.prompt]
               /\ task' = [task EXCEPT ![t].at = "wait"]
      <3>1. PICK k \in Jobs : /\ k = [task[t] EXCEPT !.at = "wait"]
                              /\ k.at = "wait" /\ k.entry = task[t].entry
        BY <1>2, JobAt
      <3>2. task' = [task EXCEPT ![t] = k]
        BY <2>1, <3>1
      <3> QED
        BY <2>1, <3>1, <3>2
    <2>2. CASE wire' = wire /\ task' = [task EXCEPT ![t].at = "mark", ![t].sent = TRUE]
      <3>1. PICK k \in Jobs : /\ k = [task[t] EXCEPT !.at = "mark", !.sent = TRUE]
                              /\ k.at = "mark" /\ k.entry = task[t].entry
        BY <1>2, JobSent
      <3>2. task' = [task EXCEPT ![t] = k]
        BY <2>2, <3>1
      <3> QED
        BY <2>2, <3>1, <3>2
    <2> QED
      BY <2>1, <2>2 DEF Within, SendStart
  <1>4. task' \in [Tasks -> Jobs] /\ task'[t] = j
    BY <1>2, <1>3, JobMoves
  <1>6. /\ wire[t] = NoPrompt /\ (t = "resumer" => resumes > 0) /\ task[t].entry \in Entries
        /\ task[t].entry.prompt \in Prompts
    BY <1>1, <1>2 DEF Working, Holds, Sends, Entries
  <1>7. /\ wire' \in [Tasks -> Prompts \cup {NoPrompt}]
        /\ \A u \in Tasks : u # t => wire'[u] = wire[u]
        /\ j.at = "wait" => wire'[t] = task[t].entry.prompt
        /\ j.at = "mark" => wire'[t] = NoPrompt
    BY <1>2, <1>3, <1>6
  <1>5. TypeOK'
    BY <1>1, <1>4, <1>7 DEF QueueInv, TypeOK
  <1>8. Working(t)'
    BY <1>1, <1>3, <1>4, <1>6, <1>7, Nones DEF Working, Holds, Sends
  <1>9. \A p \in Prompts : MaySend(t, p)' => MaySend(t, p)
    BY <1>1, <1>2, <1>3, <1>4, <1>6, <1>7, Nones DEF MaySend, Reads, Tasks
  <1>10. /\ j.at \notin {"rebind", "resume"}
         /\ Sends(t)' => Sends(t)
         /\ Holds(t)' => Holds(t)
    BY <1>1, <1>3, <1>4 DEF Sends, Holds
  <1> QED
    BY <1>1, <1>2, <1>3, <1>5, <1>7, <1>8, <1>9, <1>10, ControlMoves

\* mark_paused reads the row.
LEMMA MarkReadInv ==
    ASSUME QueueInv, NEW t \in Tasks, Within(MarkRead(t))
    PROVE  QueueInv'
  <1>1. /\ task[t].at = "mark"
        /\ UNCHANGED <<desktop, stream, mapped, attention, attentions, entry, op, watching, events,
                       wire, late, started, used, current, exposed, timely, withdrawn,
                       cancelled, resumes, crashes, bounds>>
    BY DEF Within, MarkRead, adapter, queue, ghosts
  <1>2. /\ task \in [Tasks -> Jobs] /\ task[t] \in Jobs /\ Working(t) /\ entry \in Rows
        /\ t = "watcher" => watching
        /\ sending \in BOOLEAN /\ 0 \in Turns
    BY <1>1, TypesOf, Nones DEF QueueInv, Standing, TypeOK
  <1>3. PICK j \in Jobs :
           /\ task' = [task EXCEPT ![t] = j]
           /\ \/ j.at = "pause" /\ j.entry = entry /\ Queued(entry)
              \/ j.at = "idle" /\ j.entry = NoEntry /\ ~Queued(entry)
    <2>1. CASE Queued(entry) /\ task' = [task EXCEPT ![t].at = "pause", ![t].entry = entry]
      <3>1. PICK k \in Jobs : /\ k = [task[t] EXCEPT !.at = "pause", !.entry = entry]
                              /\ k.at = "pause" /\ k.entry = entry
        <4>1. task[t] \in Jobs /\ entry \in Rows
          BY <1>2
        <4>2. /\ [task[t] EXCEPT !.at = "pause", !.entry = entry] \in Jobs
              /\ [task[t] EXCEPT !.at = "pause", !.entry = entry].at = "pause"
              /\ [task[t] EXCEPT !.at = "pause", !.entry = entry].entry = entry
          BY <4>1 DEF Jobs
        <4> QED
          BY <4>2
      <3>2. task' = [task EXCEPT ![t] = k]
        BY <2>1, <3>1
      <3> QED
        BY <2>1, <3>1, <3>2
    <2>2. CASE ~Queued(entry) /\ task' = [task EXCEPT ![t] = NoTask]
      BY <2>2, Nones
    <2> QED
      BY <2>1, <2>2 DEF Within, MarkRead
  <1>4. task' \in [Tasks -> Jobs] /\ task'[t] = j
    BY <1>2, <1>3, JobMoves
  <1>40. sending' \in BOOLEAN
    <2>1. sending' = sending \/ sending' = (sending /\ ~task[t].sent)
      BY DEF Within, MarkRead
    <2> QED
      BY <1>2, <2>1
  <1>5. TypeOK'
    BY <1>1, <1>4, <1>40 DEF QueueInv, TypeOK
  <1>6. /\ wire[t] = NoPrompt /\ (t = "resumer" => resumes > 0) /\ (Queued(entry) => entry \in Entries)
    BY <1>1, <1>2, RowParts DEF Working
  <1>8. Working(t)'
    BY <1>1, <1>3, <1>4, <1>6 DEF Working, Holds, Sends
  <1>9. \A p \in Prompts : MaySend(t, p)' => MaySend(t, p)
    BY <1>1, <1>3, <1>4, <1>6, Nones DEF MaySend, Reads, Tasks
  <1>10. /\ j.entry.prompt \in {entry.prompt, NoPrompt} /\ j.at \notin {"rebind", "resume"}
         /\ ~Sends(t)'
         /\ Holds(t)' => j.entry.prompt = entry.prompt
    BY <1>3, <1>4, Nones DEF Sends, Holds
  <1> QED
    BY <1>1, <1>2, <1>3, <1>5, <1>8, <1>9, <1>10, ControlMoves

\* resume reads the row: it may send twice more.
LEMMA ResumeReadInv == QueueInv /\ Within(ResumeRead) => QueueInv'
  <1> SUFFICES ASSUME QueueInv, Within(ResumeRead) PROVE QueueInv'
    OBVIOUS
  <1>1. /\ task["resumer"] = NoTask /\ entry # NoEntry /\ resumes' = resumes + 1
        /\ task' = [task EXCEPT !["resumer"].at = "rebind", !["resumer"].entry = entry]
        /\ UNCHANGED <<desktop, stream, mapped, attention, attentions, entry, op, watching, events,
                       sending, wire, late, started, used, current, exposed, timely, withdrawn,
                       cancelled, crashes, bounds>>
    BY DEF Within, ResumeRead, adapter, queue, ghosts
  <1>2. /\ task \in [Tasks -> Jobs] /\ Working("resumer") /\ entry \in Rows /\ entry \in Entries
        /\ resumes \in Nat /\ \A p \in Prompts : started[p] \in Nat /\ late[p] \in Nat
    BY <1>1, TypesOf, RowParts, Nones DEF QueueInv
  <1>3. PICK j \in Jobs :
           /\ task' = [task EXCEPT !["resumer"] = j] /\ j.at = "rebind" /\ j.entry = entry
    <2>1. NoTask \in Jobs
      BY Nones
    <2>2. /\ [NoTask EXCEPT !.at = "rebind", !.entry = entry] \in Jobs
          /\ [NoTask EXCEPT !.at = "rebind", !.entry = entry].at = "rebind"
          /\ [NoTask EXCEPT !.at = "rebind", !.entry = entry].entry = entry
      BY <1>2, <2>1 DEF Jobs
    <2>3. PICK j \in Jobs : /\ j = [NoTask EXCEPT !.at = "rebind", !.entry = entry]
                            /\ j.at = "rebind" /\ j.entry = entry
      BY <2>2
    <2>4. task' = [task EXCEPT !["resumer"] = j]
      BY <1>1, <2>3
    <2> QED
      BY <2>3, <2>4
  <1>4. task' \in [Tasks -> Jobs] /\ task'["resumer"] = j
    BY <1>2, <1>3, JobMoves, Nones
  <1>5. TypeOK'
    <2>1. resumes' \in Nat
      BY <1>1, <1>2
    <2> QED
      BY <1>1, <1>4, <2>1 DEF QueueInv, TypeOK
  <1>6. wire["resumer"] = NoPrompt /\ resumes' > 0 /\ resumes' >= resumes
    BY <1>1, <1>2, Nones DEF Working
  <1>7. Working("resumer")'
    BY <1>1, <1>2, <1>3, <1>4, <1>6 DEF Working, Holds, Sends
  <1>8. \A p \in Prompts : ~MaySend("resumer", p)'
    BY <1>1, <1>3, <1>4, <1>6, Nones DEF MaySend, Reads
  <1>9. \A p \in Prompts : started'[p] + late'[p] + Count(MaySend("resumer", p))'
                             <= started[p] + late[p] + Count(MaySend("resumer", p))
    BY <1>1, <1>2, <1>8 DEF Count
  <1>10. Count(Rebinding)' + resumes <= Count(Rebinding) + resumes'
    BY <1>1, <1>2 DEF Count
  <1>11. ~Sends("resumer")'
    BY <1>3, <1>4 DEF Sends
  <1>12. \A p \in Prompts : /\ started'[p] >= started[p]
                            /\ Unwritten(p) => started'[p] = 0 /\ late'[p] = 0
    BY <1>1, <1>2 DEF QueueInv, Fresh
  <1> QED
    BY <1>1, <1>3, <1>5, <1>6, <1>7, <1>9, <1>10, <1>11, <1>12, TaskMoves, Nones

\* resume binds its copy anew, or gives up.
LEMMA ResumeSnapshotInv == QueueInv /\ Within(ResumeSnapshot) => QueueInv'
  <1> SUFFICES ASSUME QueueInv, Within(ResumeSnapshot) PROVE QueueInv'
    OBVIOUS
  <1>1. /\ task["resumer"].at = "rebind"
        /\ UNCHANGED <<desktop, stream, mapped, attention, attentions, entry, op, watching, events,
                       sending, wire, late, started, used, current, exposed, timely, withdrawn,
                       cancelled, resumes, crashes, bounds>>
    BY DEF Within, ResumeSnapshot, adapter, queue, ghosts
  <1>2. /\ task \in [Tasks -> Jobs] /\ Working("resumer") /\ task["resumer"] \in Jobs
        /\ task["resumer"].entry \in Entries /\ mapped.turn \in Turns
    BY <1>1, TypesOf, Nones DEF QueueInv, Working, Holds, TypeOK
  <1>3. PICK j \in Jobs :
           /\ task' = [task EXCEPT !["resumer"] = j]
           /\ \/ /\ j.at = "resume" /\ j.entry \in Entries
                 /\ j.entry.prompt = task["resumer"].entry.prompt
              \/ j.at = "idle" /\ j.entry = NoEntry
    <2>1. CASE task' = [task EXCEPT !["resumer"].at = "resume",
                !["resumer"].entry = [task["resumer"].entry EXCEPT !.after = mapped.turn,
                                                                   !.status = "QUEUED"]]
      <3>1. PICK e \in Entries :
               /\ e = [task["resumer"].entry EXCEPT !.after = mapped.turn, !.status = "QUEUED"]
               /\ e.prompt = task["resumer"].entry.prompt
        <4>1. /\ [task["resumer"].entry EXCEPT !.after = mapped.turn, !.status = "QUEUED"] \in Entries
              /\ [task["resumer"].entry EXCEPT !.after = mapped.turn, !.status = "QUEUED"].prompt
                   = task["resumer"].entry.prompt
          BY <1>2 DEF Entries
        <4> QED
          BY <4>1
      <3>2. e \in Rows
        BY DEF Rows
      <3>3. PICK k \in Jobs : /\ k = [task["resumer"] EXCEPT !.at = "resume", !.entry = e]
                              /\ k.at = "resume" /\ k.entry = e
        <4>1. /\ [task["resumer"] EXCEPT !.at = "resume", !.entry = e] \in Jobs
              /\ [task["resumer"] EXCEPT !.at = "resume", !.entry = e].at = "resume"
              /\ [task["resumer"] EXCEPT !.at = "resume", !.entry = e].entry = e
          BY <1>2, <3>2 DEF Jobs
        <4> QED
          BY <4>1
      <3>4. task' = [task EXCEPT !["resumer"] = k]
        BY <2>1, <3>1, <3>3
      <3> QED
        BY <3>1, <3>3, <3>4
    <2>2. CASE task' = [task EXCEPT !["resumer"] = NoTask]
      BY <2>2, Nones
    <2> QED
      BY <2>1, <2>2 DEF Within, ResumeSnapshot
  <1>4. task' \in [Tasks -> Jobs] /\ task'["resumer"] = j
    BY <1>2, <1>3, JobMoves, Nones
  <1>5. TypeOK'
    BY <1>1, <1>4 DEF QueueInv, TypeOK
  <1>6. wire["resumer"] = NoPrompt /\ resumes > 0
    BY <1>1, <1>2 DEF Working
  <1>7. Working("resumer")'
    BY <1>1, <1>3, <1>4, <1>6 DEF Working, Holds, Sends
  <1>8. \A p \in Prompts : ~MaySend("resumer", p)'
    BY <1>1, <1>3, <1>4, <1>6, Nones DEF MaySend, Reads
  <1>9. /\ ~Sends("resumer")' /\ Rebinding /\ Holds("resumer")
        /\ j.entry.prompt \in {task["resumer"].entry.prompt, NoPrompt}
        /\ Holds("resumer")' => j.entry.prompt = task["resumer"].entry.prompt
    BY <1>1, <1>3, <1>4, Nones DEF Sends, Rebinding, Holds
  <1> QED
    BY <1>1, <1>3, <1>5, <1>7, <1>8, <1>9, ControlMoves, Nones

\* Types of a turn that Desktop starts.
LEMMA TurnTypes ==
    ASSUME TypeOK, StartsTurn
    PROVE  desktop' \in [turn : Turns, last : Turns] /\ stream' \in Seq(Change)
  <1>1. /\ desktop.last \in Turns /\ desktop.last < bounds.turns /\ stream \in Seq(Change)
        /\ desktop' = [turn |-> desktop.last + 1, last |-> desktop.last + 1]
        /\ stream' = Append(stream, [kind |-> "running", turn |-> desktop.last + 1])
    BY DEF TypeOK, StartsTurn
  <1>2. bounds.turns \in 1 .. MaxTurns /\ MaxTurns \in Nat
    <2>1. bounds \in [prompts : SUBSET Prompts, turns : 1 .. MaxTurns, attentions : Nat,
                      resumes : Nat, crashes : Nat, disconnects : BOOLEAN]
      BY QueueBounds DEF TypeOK
    <2> QED
      BY <2>1, QueueBounds
  <1>3. PICK n \in Turns : n = desktop.last + 1
    BY <1>1, <1>2 DEF Turns
  <1>4. [kind |-> "running", turn |-> n] \in Change
    BY DEF Change
  <1>5. Append(stream, [kind |-> "running", turn |-> n]) \in Seq(Change)
    BY <1>1, <1>4
  <1>6. [turn |-> n, last |-> n] \in [turn : Turns, last : Turns]
    OBVIOUS
  <1> QED
    BY <1>1, <1>3, <1>5, <1>6

\* Steps without a task: only what Desktop and its followers know changes, or
\* a request that nobody waits for is answered.
LEMMA QuietMoves ==
    ASSUME QueueInv, TypeOK',
           UNCHANGED <<entry, op, watching, task, wire, used, current, exposed, withdrawn, cancelled,
                       resumes>>,
           events' # <<>> => events # <<>> \/ watching,
           \A p \in Prompts : /\ started'[p] >= started[p]
                              /\ started'[p] + late'[p] = started[p] + late[p]
                              /\ Unwritten(p) => started'[p] = 0 /\ late'[p] = 0
    PROVE  QueueInv'
  <1> DEFINE t == "watcher"
  <1>1. /\ task \in [Tasks -> Jobs] /\ task[t] \in Jobs /\ resumes \in Nat /\ Working(t) /\ t \in Tasks
        /\ task[t].at # "idle" => watching
        /\ \A p \in Prompts : /\ started[p] \in Nat /\ late[p] \in Nat
                              /\ started'[p] \in Nat /\ late'[p] \in Nat
    BY TypesOf, Nones DEF QueueInv, Standing, TypeOK
  <1>2. task' = [task EXCEPT ![t] = task[t]]
    BY <1>1, SameJob
  <1>3. Working(t)'
    <2>1. task[t].at = "clear" => task[t].entry.prompt \in Prompts
                                  /\ started[task[t].entry.prompt] > 0
      BY <1>1 DEF Working, Holds, Sends, Entries
    <2>2. task[t].at = "clear" => started'[task[t].entry.prompt] > 0
      BY <1>1, <2>1
    <2> QED
      BY <1>1, <2>2 DEF Working, Holds, Sends
  <1>4. (Sends(t)' <=> Sends(t)) /\ (Holds(t)' <=> Holds(t))
    BY DEF Sends, Holds
  <1>5. \A p \in Prompts : MaySend(t, p)' <=> MaySend(t, p)
    BY DEF MaySend, Reads
  <1>6. \A p \in Prompts : started'[p] + late'[p] + Count(MaySend(t, p))'
                             <= started[p] + late[p] + Count(MaySend(t, p))
    BY <1>1, <1>5 DEF Count
  <1>7. Count(Rebinding)' + resumes <= Count(Rebinding) + resumes' /\ resumes' >= resumes
    BY <1>1 DEF Count, Rebinding
  <1> HIDE DEF t
  <1>8. t = "watcher" /\ task[t].at # "idle" => watching
    BY <1>1
  <1>9. PICK j \in Jobs : j = task[t]
    BY <1>1
  <1> QED
    BY <1>1, <1>2, <1>3, <1>4, <1>6, <1>7, <1>8, <1>9, TaskMoves

\* Desktop starts the turn and tells the task.
LEMMA DesktopStartsInv ==
    ASSUME QueueInv, NEW t \in Tasks, Within(DesktopStarts(t))
    PROVE  QueueInv'
  <1>1. /\ wire[t] # NoPrompt /\ StartsTurn
        /\ started' = [started EXCEPT ![wire[t]] = started[wire[t]] + 1]
        /\ wire' = [wire EXCEPT ![t] = NoPrompt]
        /\ task' = [task EXCEPT ![t].at = "clear"]
        /\ UNCHANGED <<mapped, attention, attentions, entry, op, watching, events,
                       sending, late, used, current, exposed, timely, withdrawn,
                       cancelled, resumes, crashes, bounds>>
    BY DEF Within, DesktopStarts, queue, ghosts
  <1>2. /\ task \in [Tasks -> Jobs] /\ task[t] \in Jobs /\ Working(t)
        /\ wire \in [Tasks -> Prompts \cup {NoPrompt}] /\ resumes \in Nat
        /\ started \in [Prompts -> Nat] /\ \A p \in Prompts : started[p] \in Nat /\ late[p] \in Nat
    BY TypesOf DEF QueueInv
  <1>3. /\ task[t].at = "wait" /\ task[t].entry \in Entries /\ wire[t] \in Prompts
        /\ wire[t] = task[t].entry.prompt /\ (t = "resumer" => resumes > 0)
        /\ t = "watcher" => watching
    BY <1>1, <1>2 DEF Working, Holds, Sends, QueueInv, Standing
  <1>4. PICK j \in Jobs : /\ j = [task[t] EXCEPT !.at = "clear"]
                          /\ j.at = "clear" /\ j.entry = task[t].entry
    BY <1>2, JobAt
  <1>5. task' = [task EXCEPT ![t] = j]
    BY <1>1, <1>4
  <1>6. task' \in [Tasks -> Jobs] /\ task'[t] = j
    BY <1>2, <1>5, JobMoves
  <1>7. /\ wire' \in [Tasks -> Prompts \cup {NoPrompt}] /\ wire'[t] = NoPrompt
        /\ \A u \in Tasks : u # t => wire'[u] = wire[u]
    BY <1>1, <1>2
  <1>8. PICK x \in Prompts : x = wire[t]
    BY <1>3
  <1>9. /\ started' \in [Prompts -> Nat] /\ started'[x] = started[x] + 1
        /\ \A p \in Prompts : p # x => started'[p] = started[p]
    <2>1. PICK n \in Nat : n = started[x] + 1
      BY <1>2
    <2>2. started' = [started EXCEPT ![x] = n]
      BY <1>1, <1>8, <2>1
    <2> QED
      BY <1>2, <2>1, <2>2
  <1>10. TypeOK'
    <2>1. desktop' \in [turn : Turns, last : Turns] /\ stream' \in Seq(Change)
      BY <1>1, TurnTypes DEF QueueInv
    <2> QED
      BY <1>1, <1>6, <1>7, <1>9, <2>1 DEF QueueInv, TypeOK
  <1>11. Working(t)'
    <2>1. started'[j.entry.prompt] > 0
      BY <1>2, <1>3, <1>4, <1>8, <1>9
    <2> QED
      BY <1>1, <1>3, <1>4, <1>6, <1>7, <2>1 DEF Working, Holds, Sends
  <1>12. \A p \in Prompts : ~MaySend(t, p)'
    BY <1>4, <1>6, <1>7, Nones DEF MaySend, Reads
  <1>13. MaySend(t, x)
    BY <1>8 DEF MaySend
  <1>14. \A p \in Prompts : started'[p] + late'[p] + Count(MaySend(t, p))'
                              <= started[p] + late[p] + Count(MaySend(t, p))
    <2> SUFFICES ASSUME NEW p \in Prompts
                 PROVE  started'[p] + late'[p] + Count(MaySend(t, p))'
                              <= started[p] + late[p] + Count(MaySend(t, p))
      OBVIOUS
    <2>1. Count(MaySend(t, p))' = 0 /\ Count(MaySend(t, x)) = 1 /\ Count(MaySend(t, p)) \in 0..1
      BY <1>12, <1>13 DEF Count
    <2>2. CASE p = x
      BY <1>1, <1>2, <1>9, <2>1, <2>2
    <2>3. CASE p # x
      BY <1>1, <1>2, <1>9, <2>1, <2>3
    <2> QED
      BY <2>2, <2>3
  <1>15. \A p \in Prompts : /\ started'[p] >= started[p]
                            /\ Unwritten(p) => started'[p] = 0 /\ late'[p] = 0
    <2>1. \A p \in Prompts : started'[p] >= started[p]
      BY <1>2, <1>9
    <2>2. \A p \in Prompts : Unwritten(p) => p # x /\ started[p] = 0 /\ late[p] = 0
      BY <1>3, <1>8 DEF QueueInv, Fresh
    <2> QED
      BY <1>1, <1>9, <2>1, <2>2
  <1>16. Count(Rebinding)' + resumes <= Count(Rebinding) + resumes' /\ resumes' >= resumes
    <2>1. Rebinding' => Rebinding
      <3>1. task'["resumer"] = task["resumer"] \/ task'["resumer"].at = "clear"
        BY <1>2, <1>4, <1>5, <1>6, JobMoves, Nones
      <3> QED
        BY <3>1 DEF Rebinding
    <2> QED
      BY <1>1, <1>2, <2>1 DEF Count
  <1>17. Sends(t) /\ Holds(t) /\ j.entry.prompt = task[t].entry.prompt
    BY <1>3, <1>4 DEF Sends, Holds
  <1> QED
    BY <1>1, <1>3, <1>5, <1>7, <1>10, <1>11, <1>14, <1>15, <1>16, <1>17, TaskMoves

\* Refused, broken off or timed out; Desktop may act on the request later.
LEMMA SendFailsInv ==
    ASSUME QueueInv, NEW t \in Tasks, Within(SendFails(t))
    PROVE  QueueInv'
  <1>1. /\ task[t].at = "wait" /\ wire' = [wire EXCEPT ![t] = NoPrompt]
        /\ late' = late \/ late' = [late EXCEPT ![wire[t]] = late[wire[t]] + 1]
        /\ task' = [task EXCEPT ![t].at = "mark", ![t].sent = TRUE]
        /\ UNCHANGED <<desktop, stream, mapped, attention, attentions, entry, op, watching, events,
                       sending, started, used, current, exposed, timely, withdrawn,
                       cancelled, resumes, crashes, bounds>>
    BY DEF Within, SendFails, adapter, queue, ghosts
  <1>2. /\ task \in [Tasks -> Jobs] /\ task[t] \in Jobs /\ Working(t)
        /\ wire \in [Tasks -> Prompts \cup {NoPrompt}] /\ resumes \in Nat
        /\ late \in [Prompts -> Nat] /\ \A p \in Prompts : started[p] \in Nat /\ late[p] \in Nat
    BY TypesOf DEF QueueInv
  <1>3. /\ task[t].entry \in Entries /\ wire[t] \in Prompts
        /\ wire[t] = task[t].entry.prompt /\ (t = "resumer" => resumes > 0)
        /\ t = "watcher" => watching
    BY <1>1, <1>2 DEF Working, Holds, Sends, QueueInv, Standing
  <1>4. PICK j \in Jobs : /\ j = [task[t] EXCEPT !.at = "mark", !.sent = TRUE]
                          /\ j.at = "mark" /\ j.entry = task[t].entry
    BY <1>2, JobSent
  <1>5. task' = [task EXCEPT ![t] = j]
    BY <1>1, <1>4
  <1>6. task' \in [Tasks -> Jobs] /\ task'[t] = j
    BY <1>2, <1>5, JobMoves
  <1>7. /\ wire' \in [Tasks -> Prompts \cup {NoPrompt}] /\ wire'[t] = NoPrompt
        /\ \A u \in Tasks : u # t => wire'[u] = wire[u]
    BY <1>1, <1>2
  <1>8. PICK x \in Prompts : x = wire[t]
    BY <1>3
  <1>9. /\ late' \in [Prompts -> Nat] /\ (late'[x] = late[x] \/ late'[x] = late[x] + 1)
        /\ \A p \in Prompts : p # x => late'[p] = late[p]
    <2>1. PICK n \in Nat : n = late[x] + 1
      BY <1>2
    <2>2. late' = late \/ late' = [late EXCEPT ![x] = n]
      BY <1>1, <1>8, <2>1
    <2> QED
      BY <1>2, <2>1, <2>2
  <1>10. TypeOK'
    BY <1>1, <1>6, <1>7, <1>9 DEF QueueInv, TypeOK
  <1>11. Working(t)'
    BY <1>1, <1>3, <1>4, <1>6, <1>7 DEF Working, Holds, Sends
  <1>12. \A p \in Prompts : ~MaySend(t, p)'
    BY <1>4, <1>6, <1>7, Nones DEF MaySend, Reads
  <1>13. MaySend(t, x)
    BY <1>8 DEF MaySend
  <1>14. \A p \in Prompts : started'[p] + late'[p] + Count(MaySend(t, p))'
                              <= started[p] + late[p] + Count(MaySend(t, p))
    <2> SUFFICES ASSUME NEW p \in Prompts
                 PROVE  started'[p] + late'[p] + Count(MaySend(t, p))'
                              <= started[p] + late[p] + Count(MaySend(t, p))
      OBVIOUS
    <2>1. Count(MaySend(t, p))' = 0 /\ Count(MaySend(t, x)) = 1 /\ Count(MaySend(t, p)) \in 0..1
      BY <1>12, <1>13 DEF Count
    <2>2. CASE p = x
      BY <1>1, <1>2, <1>9, <2>1, <2>2
    <2>3. CASE p # x
      BY <1>1, <1>2, <1>9, <2>1, <2>3
    <2> QED
      BY <2>2, <2>3
  <1>15. \A p \in Prompts : /\ started'[p] >= started[p]
                            /\ Unwritten(p) => started'[p] = 0 /\ late'[p] = 0
    <2>1. \A p \in Prompts : started'[p] >= started[p]
      BY <1>1, <1>2
    <2>2. \A p \in Prompts : Unwritten(p) => p # x /\ started[p] = 0 /\ late[p] = 0
      BY <1>3, <1>8 DEF QueueInv, Fresh
    <2> QED
      BY <1>1, <1>9, <2>1, <2>2
  <1>16. Count(Rebinding)' + resumes <= Count(Rebinding) + resumes' /\ resumes' >= resumes
    <2>1. Rebinding' => Rebinding
      <3>1. task'["resumer"] = task["resumer"] \/ task'["resumer"].at = "mark"
        BY <1>2, <1>4, <1>5, <1>6, JobMoves, Nones
      <3> QED
        BY <3>1 DEF Rebinding
    <2> QED
      BY <1>1, <1>2, <2>1 DEF Count
  <1>17. ~Sends(t)' /\ ~Holds(t)' /\ j.entry.prompt = task[t].entry.prompt
    BY <1>4, <1>6 DEF Sends, Holds
  <1> QED
    BY <1>1, <1>3, <1>5, <1>7, <1>10, <1>11, <1>14, <1>15, <1>16, <1>17, TaskMoves

-----------------------------------------------------------------------------
(* Steps of Desktop and of the pump. *)

\* A request that nobody waits for starts a turn.
LEMMA LateStartInv ==
    ASSUME QueueInv, NEW x \in Prompts, Within(DesktopStartsLate(x))
    PROVE  QueueInv'
  <1>1. /\ late[x] > 0 /\ StartsTurn
        /\ started' = [started EXCEPT ![x] = started[x] + 1]
        /\ late' = [late EXCEPT ![x] = late[x] - 1]
        /\ UNCHANGED <<mapped, attention, attentions, entry, op, watching, events, task, wire,
                       sending, used, current, exposed, timely, withdrawn,
                       cancelled, resumes, crashes, bounds>>
    BY DEF Within, DesktopStartsLate, queue, ghosts
  <1>2. /\ started \in [Prompts -> Nat] /\ late \in [Prompts -> Nat]
        /\ \A p \in Prompts : started[p] \in Nat /\ late[p] \in Nat
    BY TypesOf DEF QueueInv
  <1>3. PICK n \in Nat, m \in Nat : n = started[x] + 1 /\ m = late[x] - 1
    BY <1>1, <1>2
  <1>4. /\ started' \in [Prompts -> Nat] /\ late' \in [Prompts -> Nat]
        /\ started'[x] = n /\ late'[x] = m
        /\ \A p \in Prompts : p # x => started'[p] = started[p] /\ late'[p] = late[p]
    <2>1. started' = [started EXCEPT ![x] = n] /\ late' = [late EXCEPT ![x] = m]
      BY <1>1, <1>3
    <2> QED
      BY <1>2, <2>1
  <1>5. TypeOK'
    <2>1. desktop' \in [turn : Turns, last : Turns] /\ stream' \in Seq(Change)
      BY <1>1, TurnTypes DEF QueueInv
    <2> QED
      BY <1>1, <1>4, <2>1 DEF QueueInv, TypeOK
  <1>6. \A p \in Prompts : Unwritten(p) => p # x /\ started[p] = 0 /\ late[p] = 0
    BY <1>1 DEF QueueInv, Fresh
  <1>7. \A p \in Prompts : /\ started'[p] >= started[p]
                           /\ started'[p] + late'[p] = started[p] + late[p]
                           /\ Unwritten(p) => started'[p] = 0 /\ late'[p] = 0
    BY <1>2, <1>3, <1>4, <1>6
  <1> QED
    BY <1>1, <1>5, <1>7, QuietMoves

\* The user of Desktop, attention and the pump.
LEMMA DesktopInv ==
    ASSUME QueueInv,
           \/ Within(UserStarts) \/ Within(Attention) \/ Within(Pump)
           \/ \E kind \in {"completed", "failed"} : Within(TurnEnds(kind))
    PROVE  QueueInv'
  <1>0. \A p \in Prompts : /\ started[p] \in Nat /\ late[p] \in Nat /\ started[p] >= started[p]
                           /\ Unwritten(p) => started[p] = 0 /\ late[p] = 0
    BY TypesOf DEF QueueInv, Fresh
  <1>1. /\ desktop \in [turn : Turns, last : Turns] /\ stream \in Seq(Change)
        /\ mapped \in [turn : Turns, last : Turns] /\ attention \in BOOLEAN /\ attentions \in Nat
        /\ events \in Seq(Change)
    BY DEF QueueInv, TypeOK
  <1>2. CASE Within(UserStarts)
    <2>1. /\ StartsTurn
          /\ UNCHANGED <<mapped, attention, attentions, entry, op, watching, events, task, wire,
                         sending, late, started, used, current, exposed, timely, withdrawn,
                         cancelled, resumes, crashes, bounds>>
      BY <1>2 DEF Within, UserStarts, queue, sender, ghosts
    <2>2. desktop' \in [turn : Turns, last : Turns] /\ stream' \in Seq(Change)
      BY <2>1, TurnTypes DEF QueueInv
    <2>3. TypeOK'
      BY <2>1, <2>2 DEF QueueInv, TypeOK
    <2> QED
      BY <1>0, <2>1, <2>3, QuietMoves
  <1>3. CASE Within(Attention)
    <2>1. /\ attention' = ~attention /\ (attentions' = attentions \/ attentions' = attentions + 1)
          /\ UNCHANGED <<desktop, stream, mapped, entry, op, watching, events, task, wire,
                         sending, late, started, used, current, exposed, timely, withdrawn,
                         cancelled, resumes, crashes, bounds>>
      BY <1>3 DEF Within, Attention, queue, sender, ghosts
    <2>2. attention' \in BOOLEAN /\ attentions' \in Nat
      <3>1. attention' \in BOOLEAN
        BY <2>1
      <3>2. attentions' \in Nat
        BY <1>1, <2>1
      <3> QED
        BY <3>1, <3>2
    <2>3. TypeOK'
      BY <2>1, <2>2 DEF QueueInv, TypeOK
    <2> QED
      BY <1>0, <2>1, <2>3, QuietMoves
  <1>4. ASSUME NEW kind \in {"completed", "failed"}, Within(TurnEnds(kind)) PROVE QueueInv'
    <2>1. /\ desktop' = [desktop EXCEPT !.turn = 0]
          /\ stream' = Append(stream, [kind |-> kind, turn |-> desktop.turn])
          /\ UNCHANGED <<mapped, attention, attentions, entry, op, watching, events, task, wire,
                         sending, late, started, used, current, exposed, timely, withdrawn,
                         cancelled, resumes, crashes, bounds>>
      BY <1>4 DEF Within, TurnEnds, queue, sender, ghosts
    <2>2. desktop' \in [turn : Turns, last : Turns]
      BY <1>1, <2>1, Nones
    <2>3. stream' \in Seq(Change)
      <3>1. [kind |-> kind, turn |-> desktop.turn] \in Change
        BY <1>1 DEF Change
      <3> QED
        BY <1>1, <2>1, <3>1
    <2>4. TypeOK'
      BY <2>1, <2>2, <2>3 DEF QueueInv, TypeOK
    <2> QED
      BY <1>0, <2>1, <2>4, QuietMoves
  <1>5. CASE Within(Pump)
    <2>1. PICK n \in 1 .. Len(stream) : PumpApplies(n) /\ UNCHANGED bounds
      BY <1>5 DEF Within, Pump
    <2>2. PICK c \in Change : c = stream[n]
      BY <1>1, <2>1
    <2>3. PICK turn \in Turns : turn = (IF c.kind = "running" THEN c.turn ELSE 0)
      BY <2>2, Nones DEF Change
    <2>4. /\ mapped' = [turn |-> turn, last |-> c.turn]
          /\ events' = IF watching /\ turn # mapped.turn THEN Append(events, c) ELSE events
          /\ stream' = SubSeq(stream, n + 1, Len(stream))
          /\ UNCHANGED <<desktop, attention, attentions, entry, op, watching, task, wire,
                         sending, late, started, used, current, exposed, timely, withdrawn,
                         cancelled, resumes, crashes, bounds>>
      BY <2>1, <2>2, <2>3 DEF PumpApplies, queue, ghosts
    <2>5. mapped' \in [turn : Turns, last : Turns]
      BY <2>2, <2>3, <2>4 DEF Change
    <2>6. events' \in Seq(Change) /\ (events' # <<>> => events # <<>> \/ watching)
      <3>1. Append(events, c) \in Seq(Change)
        BY <1>1, <2>2
      <3> QED
        BY <1>1, <2>4, <3>1
    <2>7. stream' \in Seq(Change)
      <3>1. n \in Nat /\ n + 1 \in Nat /\ Len(stream) \in Nat /\ n <= Len(stream)
        BY <1>1, <2>1
      <3>2. n + 1 \in 1 .. Len(stream) + 1
        BY <3>1
      <3>3. SubSeq(stream, n + 1, Len(stream)) \in Seq(Change)
        BY <1>1, <3>1, <3>2
      <3> QED
        BY <2>4, <3>3
    <2>8. TypeOK'
      BY <2>4, <2>5, <2>6, <2>7 DEF QueueInv, TypeOK
    <2> QED
      BY <1>0, <2>4, <2>6, <2>8, QuietMoves
  <1> QED
    BY <1>2, <1>3, <1>4, <1>5

-----------------------------------------------------------------------------
(* Queue commands, and writes of the row. *)

\* A command that leaves the row alone.
LEMMA OpMoves ==
    ASSUME QueueInv, TypeOK',
           UNCHANGED <<entry, task, wire, late, started, current, exposed, withdrawn, cancelled,
                       resumes, events>>,
           watching => watching',
           watching' \/ op'.at = "watch" => watching \/ op.at = "watch",
           op'.at # "idle" => op'.entry \in Entries,
           op'.at = "set" => Queued(op'.entry) /\ op'.entry.prompt \in used',
           \A p \in Prompts : /\ Unwritten(p)' => Unwritten(p)
                              /\ p \notin used' => op'.entry.prompt # p,
           op'.at = "pause" => op'.entry.prompt = entry.prompt
    PROVE  QueueInv'
  <1>1. \A t \in Tasks : Working(t)'
    BY DEF QueueInv, Working, Holds, Sends
  <1>2. Standing'
    BY DEF QueueInv, Standing
  <1>3. \A p \in Prompts : Fresh(p)'
    BY DEF QueueInv, Fresh
  <1>4. WithdrawnIsNotSent' /\ QueuedIsWanted'
    BY DEF QueueInv, WithdrawnIsNotSent, QueuedIsWanted, Sends
  <1>5. KeptOrExcused'
    BY DEF QueueInv, KeptOrExcused, Excused, Holds, Sends
  <1>6. ASSUME ~StoreMayFail, NEW p \in Prompts PROVE Allowed(p)'
    <2>1. Allowed(p) /\ started[p] \in Nat /\ late[p] \in Nat /\ resumes \in Nat
      BY <1>6, TypesOf DEF QueueInv
    <2>2. /\ MaySend("watcher", p)' => MaySend("watcher", p)
          /\ MaySend("resumer", p)' => MaySend("resumer", p)
          /\ Rebinding' <=> Rebinding
      BY DEF MaySend, Reads, Rebinding
    <2>3. /\ Count(MaySend("watcher", p))' <= Count(MaySend("watcher", p))
          /\ Count(MaySend("resumer", p))' <= Count(MaySend("resumer", p))
          /\ Count(Rebinding)' = Count(Rebinding) /\ Count(Rebinding) \in Nat
          /\ Count(MaySend("watcher", p))' \in Nat /\ Count(MaySend("watcher", p)) \in Nat
          /\ Count(MaySend("resumer", p))' \in Nat /\ Count(MaySend("resumer", p)) \in Nat
      BY <2>2 DEF Count
    <2>4. started'[p] + late'[p] + Count(MaySend("watcher", p))' + Count(MaySend("resumer", p))'
            <= started[p] + late[p] + Count(MaySend("watcher", p)) + Count(MaySend("resumer", p))
      BY <2>1, <2>3
    <2>5. Count(Rebinding)' + resumes <= Count(Rebinding) + resumes'
      BY <2>1, <2>3
    <2> QED
      BY <2>1, <2>4, <2>5, AllowedKeeps
  <1> QED
    BY <1>1, <1>2, <1>3, <1>4, <1>5, <1>6 DEF QueueInv

\* The row is deleted or paused, by a command or a task that ends.
LEMMA RowLeaves ==
    ASSUME QueueInv, TypeOK',
           UNCHANGED <<watching, wire, late, started, used, current, exposed, resumes, events>>,
           \A t \in Tasks : \/ task'[t] = task[t]
                            \/ task'[t] = NoTask /\ task[t].at \in {"clear", "pause"},
           op' = op \/ op' = NoOp,
           ~Queued(entry') \/ (StoreMayFail /\ UNCHANGED <<entry, withdrawn>>),
           \A p \in Prompts : Unwritten(p) => entry'.prompt # p /\ p \notin withdrawn',
           \A p \in withdrawn' : p \in withdrawn \/ Undecided(p),
           cancelled \subseteq cancelled',
           KeptOrExcused => Excused' \/ entry'.prompt = current
    PROVE  QueueInv'
  <1>0. current' = current /\ started' = started /\ exposed' = exposed /\ resumes' = resumes
    OBVIOUS
  <1>1. ASSUME NEW t \in Tasks PROVE Working(t)'
    <2>1. Working(t)
      BY DEF QueueInv
    <2>2. CASE task'[t] = task[t]
      BY <2>1, <2>2 DEF Working, Holds, Sends
    <2>3. CASE task'[t] = NoTask /\ task[t].at \in {"clear", "pause"}
      BY <2>1, <2>3, Nones DEF Working, Holds, Sends
    <2> QED
      BY <2>2, <2>3
  <1>2. Standing'
    <2>1. task'["watcher"].at # "idle" => task["watcher"].at # "idle"
      BY Nones
    <2> QED
      BY <2>1, Nones DEF QueueInv, Standing
  <1>3. ASSUME NEW p \in Prompts, Unwritten(p)'
        PROVE  /\ p \notin withdrawn' /\ started'[p] = 0 /\ late'[p] = 0
               /\ entry'.prompt # p
               /\ \A t \in Tasks : task'[t].entry.prompt # p
               /\ p \notin used' => op'.entry.prompt # p
    <2>1. Unwritten(p)
      BY <1>3, Nones DEF Unwritten
    <2>2. /\ started[p] = 0 /\ late[p] = 0 /\ \A t \in Tasks : task[t].entry.prompt # p
          /\ p \notin used => op.entry.prompt # p
      BY <2>1 DEF QueueInv, Fresh
    <2> QED
      BY <2>1, <2>2, Nones
  <1>4. WithdrawnIsNotSent' /\ QueuedIsWanted'
    <2>1. \A t \in Tasks : Sends(t)' => Sends(t) /\ task'[t] = task[t]
      BY Nones DEF Sends
    <2>2. WithdrawnIsNotSent'
      BY <2>1 DEF QueueInv, WithdrawnIsNotSent, Undecided
    <2>3. QueuedIsWanted'
      BY DEF QueueInv, QueuedIsWanted
    <2> QED
      BY <2>2, <2>3
  <1>5. KeptOrExcused'
    <2>1. CASE Excused'
      BY <2>1 DEF KeptOrExcused
    <2>2. CASE ~Excused'
      <3>1. ~Excused
        BY <1>0, <2>2 DEF Excused
      <3>2. /\ entry.prompt = current
            /\ \A t \in Tasks : Holds(t) => task[t].entry.prompt = current
            /\ op.at = "pause" => op.entry.prompt = current
        BY <3>1 DEF QueueInv, KeptOrExcused
      <3>3. entry'.prompt = current
        BY <2>2 DEF QueueInv
      <3>4. \A t \in Tasks : Holds(t)' => Holds(t) /\ task'[t] = task[t]
        BY Nones DEF Holds, Sends
      <3>5. op'.at = "pause" => op'.entry.prompt = current
        BY <3>2, Nones
      <3> QED
        BY <1>0, <3>2, <3>3, <3>4, <3>5 DEF KeptOrExcused
    <2> QED
      BY <2>1, <2>2
  <1>6. ASSUME ~StoreMayFail, NEW p \in Prompts PROVE Allowed(p)'
    <2>1. Allowed(p) /\ started[p] \in Nat /\ late[p] \in Nat /\ resumes \in Nat
      BY <1>6, TypesOf DEF QueueInv
    <2>2. /\ MaySend("watcher", p)' => MaySend("watcher", p)
          /\ MaySend("resumer", p)' => MaySend("resumer", p)
          /\ Rebinding' => Rebinding
      BY <1>6, Nones DEF MaySend, Rebinding
    <2>3. /\ Count(MaySend("watcher", p))' <= Count(MaySend("watcher", p))
          /\ Count(MaySend("resumer", p))' <= Count(MaySend("resumer", p))
          /\ Count(Rebinding)' <= Count(Rebinding)
          /\ Count(Rebinding) \in Nat /\ Count(Rebinding)' \in Nat
          /\ Count(MaySend("watcher", p))' \in Nat /\ Count(MaySend("watcher", p)) \in Nat
          /\ Count(MaySend("resumer", p))' \in Nat /\ Count(MaySend("resumer", p)) \in Nat
      BY <2>2 DEF Count
    <2>4. started'[p] + late'[p] + Count(MaySend("watcher", p))' + Count(MaySend("resumer", p))'
            <= started[p] + late[p] + Count(MaySend("watcher", p)) + Count(MaySend("resumer", p))
      BY <2>1, <2>3
    <2>5. Count(Rebinding)' + resumes <= Count(Rebinding) + resumes'
      BY <1>0, <2>1, <2>3
    <2> QED
      BY <2>1, <2>4, <2>5, AllowedKeeps
  <1>7. \A p \in Prompts : Fresh(p)'
    BY <1>3 DEF Fresh
  <1> QED
    BY <1>1, <1>2, <1>4, <1>5, <1>6, <1>7 DEF QueueInv

\* What a write withdraws.
LEMMA Withdrawal ==
    ASSUME TypeOK, NEW x, Withdraw(x)
    PROVE  /\ withdrawn' \subseteq Prompts
           /\ \A p \in withdrawn' : p \in withdrawn \/ (p = x /\ Undecided(p))
           /\ entry' = entry => withdrawn' = withdrawn
  <1>1. CASE x \in Prompts /\ Undecided(x) /\ entry' # entry
    <2>1. withdrawn' = withdrawn \cup {x}
      BY <1>1 DEF Withdraw
    <2> QED
      BY <1>1, <2>1 DEF TypeOK
  <1>2. CASE ~(x \in Prompts /\ Undecided(x) /\ entry' # entry)
    <2>1. withdrawn' = withdrawn
      BY <1>2 DEF Withdraw
    <2> QED
      BY <2>1 DEF TypeOK
  <1> QED
    BY <1>1, <1>2

\* QueueNextTurn takes its snapshot.
LEMMA SetSnapshotInv ==
    ASSUME QueueInv, NEW x \in MayQueue, NEW replace \in BOOLEAN, Within(SetSnapshot(x, replace))
    PROVE  QueueInv'
  <1>1. /\ op = NoOp /\ x \notin used /\ used' = used \cup {x}
        /\ op' = [at |-> "set", replace |-> replace,
                  entry |-> [prompt |-> x, after |-> mapped.turn, status |-> "QUEUED"]]
        /\ UNCHANGED <<desktop, stream, mapped, attention, attentions, entry, watching, events, task,
                       wire, sending, late, started, current, exposed, timely, withdrawn,
                       cancelled, resumes, crashes, bounds>>
    BY DEF Within, SetSnapshot, adapter, sender
  <1>2. x \in Prompts /\ mapped.turn \in Turns
    <2>1. bounds \in [prompts : SUBSET Prompts, turns : 1 .. MaxTurns, attentions : Nat,
                      resumes : Nat, crashes : Nat, disconnects : BOOLEAN]
      BY QueueBounds DEF QueueInv, TypeOK
    <2>2. bounds.prompts \subseteq Prompts
      BY <2>1
    <2> QED
      BY <2>2 DEF MayQueue, QueueInv, TypeOK
  <1>3. PICK e \in Entries :
           /\ e = [prompt |-> x, after |-> mapped.turn, status |-> "QUEUED"]
           /\ e.prompt = x /\ e.status = "QUEUED"
    <2>1. [prompt |-> x, after |-> mapped.turn, status |-> "QUEUED"] \in Entries
      BY <1>2 DEF Entries
    <2> QED
      BY <2>1
  <1>4. op' \in Ops /\ op'.at = "set" /\ op'.entry = e
    <2>1. e \in Rows
      BY DEF Rows
    <2>2. op' = [at |-> "set", replace |-> replace, entry |-> e]
      BY <1>1, <1>3
    <2> QED
      BY <2>1, <2>2 DEF Ops
  <1>5. TypeOK'
    <2>1. used' \subseteq Prompts
      BY <1>1, <1>2 DEF QueueInv, TypeOK
    <2> QED
      BY <1>1, <1>4, <2>1 DEF QueueInv, TypeOK
  <1>6. \A p \in Prompts : /\ Unwritten(p)' => Unwritten(p)
                           /\ p \notin used' => op'.entry.prompt # p
    BY <1>1, <1>3, <1>4 DEF Unwritten
  <1>7. Queued(op'.entry) /\ op'.entry.prompt \in used'
    BY <1>1, <1>3, <1>4 DEF Queued
  <1> QED
    BY <1>1, <1>3, <1>4, <1>5, <1>6, <1>7, OpMoves

\* PauseQueue reads the row.
LEMMA PauseReadInv == QueueInv /\ Within(PauseRead) => QueueInv'
  <1> SUFFICES ASSUME QueueInv, Within(PauseRead) PROVE QueueInv'
    OBVIOUS
  <1>1. /\ op = NoOp /\ Queued(entry)
        /\ op' = [at |-> "pause", entry |-> entry, replace |-> TRUE]
        /\ UNCHANGED <<desktop, stream, mapped, attention, attentions, entry, watching, events, task,
                       wire, sending, late, started, used, current, exposed, timely, withdrawn,
                       cancelled, resumes, crashes, bounds>>
    BY DEF Within, PauseRead, adapter, sender, ghosts
  <1>2. entry \in Rows /\ entry \in Entries
    BY <1>1, TypesOf, RowParts DEF QueueInv
  <1>3. op' \in Ops /\ op'.at = "pause" /\ op'.entry = entry
    BY <1>1, <1>2 DEF Ops
  <1>4. TypeOK'
    BY <1>1, <1>3 DEF QueueInv, TypeOK
  <1>5. \A p \in Prompts : /\ Unwritten(p)' => Unwritten(p)
                           /\ p \notin used' => op'.entry.prompt # p
    <2>1. \A p \in Prompts : p \notin used => entry.prompt # p
      BY DEF QueueInv, Fresh, Unwritten
    <2> QED
      BY <1>1, <1>3, <2>1 DEF Unwritten
  <1> QED
    BY <1>1, <1>2, <1>3, <1>4, <1>5, OpMoves

\* ensure_watcher.
LEMMA SetWatchInv == QueueInv /\ Within(SetWatch) => QueueInv'
  <1> SUFFICES ASSUME QueueInv, Within(SetWatch) PROVE QueueInv'
    OBVIOUS
  <1>1. /\ op.at = "watch" /\ op' = NoOp /\ (watching' = TRUE \/ watching' = watching)
        /\ \/ timely' = timely \/ timely' = timely \cup {op.entry.prompt}
        /\ UNCHANGED <<desktop, stream, mapped, attention, attentions, entry, events, task,
                       wire, sending, late, started, used, current, exposed, withdrawn,
                       cancelled, resumes, crashes, bounds>>
    BY DEF Within, SetWatch, EnsureWatcher, adapter, sender
  <1>2. op.entry \in Entries /\ op.entry.prompt \in Prompts
    BY <1>1 DEF QueueInv, Standing, Entries
  <1>3. TypeOK'
    <2>1. timely' \subseteq Prompts
      BY <1>1, <1>2 DEF QueueInv, TypeOK
    <2>2. watching' \in BOOLEAN
      BY <1>1 DEF QueueInv, TypeOK
    <2> QED
      BY <1>1, <2>1, <2>2, Nones DEF QueueInv, TypeOK
  <1>4. /\ op'.at = "idle" /\ op'.entry.prompt = NoPrompt
        /\ \A p \in Prompts : Unwritten(p)' => Unwritten(p)
    BY <1>1, Nones DEF Unwritten
  <1>5. \A p \in Prompts : op'.entry.prompt # p
    BY <1>4, Nones
  <1> QED
    BY <1>1, <1>3, <1>4, <1>5, OpMoves

\* CancelQueue deletes the row.
LEMMA CancelInv == QueueInv /\ Within(Cancel) => QueueInv'
  <1> SUFFICES ASSUME QueueInv, Within(Cancel) PROVE QueueInv'
    OBVIOUS
  <1>1. /\ op = NoOp /\ (entry' = NoEntry \/ (StoreMayFail /\ entry' = entry))
        /\ Withdraw(entry.prompt)
        /\ cancelled' = IF entry' = NoEntry /\ current # NoPrompt
                        THEN cancelled \cup {current} ELSE cancelled
        /\ UNCHANGED <<desktop, stream, mapped, attention, attentions, op, watching, events, task,
                       wire, sending, late, started, used, current, exposed, timely,
                       resumes, crashes, bounds>>
    BY DEF Within, Cancel, Store, adapter, sender
  <1>2. /\ withdrawn' \subseteq Prompts
        /\ \A p \in withdrawn' : p \in withdrawn \/ (p = entry.prompt /\ Undecided(p))
        /\ entry' = entry => withdrawn' = withdrawn
    BY <1>1, Withdrawal DEF QueueInv
  <1>3. cancelled \subseteq cancelled' /\ cancelled' \subseteq Prompts
    BY <1>1 DEF QueueInv, TypeOK
  <1>4. TypeOK'
    <2>1. entry' \in Rows
      BY <1>1, Nones DEF QueueInv, TypeOK
    <2> QED
      BY <1>1, <1>2, <1>3, <2>1 DEF QueueInv, TypeOK
  <1>5. ~Queued(entry') \/ (StoreMayFail /\ UNCHANGED <<entry, withdrawn>>)
    BY <1>1, <1>2, Nones
  <1>6. \A p \in Prompts : Unwritten(p) => entry'.prompt # p /\ p \notin withdrawn'
    <2>1. \A p \in Prompts : Unwritten(p) => entry.prompt # p /\ p \notin withdrawn
      BY DEF QueueInv, Fresh
    <2> QED
      BY <1>1, <1>2, <2>1, Nones
  <1>7. KeptOrExcused => Excused' \/ entry'.prompt = current
    BY <1>1 DEF KeptOrExcused, Excused
  <1> QED
    BY <1>1, <1>2, <1>3, <1>4, <1>5, <1>6, <1>7, RowLeaves

\* PauseQueue writes its copy back as PAUSED.
LEMMA PauseWriteInv == QueueInv /\ Within(PauseWrite) => QueueInv'
  <1> SUFFICES ASSUME QueueInv, Within(PauseWrite) PROVE QueueInv'
    OBVIOUS
  <1> DEFINE e == [op.entry EXCEPT !.status = "PAUSED"]
  <1>1. /\ op.at = "pause" /\ (entry' = e \/ (StoreMayFail /\ entry' = entry))
        /\ Withdraw(op.entry.prompt) /\ op' = NoOp
        /\ UNCHANGED <<desktop, stream, mapped, attention, attentions, watching, events, task,
                       wire, sending, late, started, used, current, exposed, timely, cancelled,
                       resumes, crashes, bounds>>
    BY DEF Within, PauseWrite, Store, adapter, sender
  <1>2. /\ withdrawn' \subseteq Prompts
        /\ \A p \in withdrawn' : p \in withdrawn \/ (p = op.entry.prompt /\ Undecided(p))
        /\ entry' = entry => withdrawn' = withdrawn
    BY <1>1, Withdrawal DEF QueueInv
  <1>3. op.entry \in Entries /\ op.entry \in Rows
    BY <1>1, TypesOf DEF QueueInv, Standing
  <1>4. e.prompt = op.entry.prompt /\ ~Queued(e) /\ e \in Entries /\ e \in Rows
    BY <1>3, RowParts DEF Rows
  <1> HIDE DEF e
  <1>5. TypeOK'
    <2>1. entry' \in Rows
      BY <1>1, <1>4 DEF QueueInv, TypeOK
    <2> QED
      BY <1>1, <1>2, <2>1, Nones DEF QueueInv, TypeOK
  <1>6. ~Queued(entry') \/ (StoreMayFail /\ UNCHANGED <<entry, withdrawn>>)
    BY <1>1, <1>2, <1>4
  <1>7. \A p \in Prompts : Unwritten(p) => entry'.prompt # p /\ p \notin withdrawn'
    <2>1. \A p \in Prompts : Unwritten(p) => /\ entry.prompt # p /\ p \notin withdrawn
                                             /\ op.entry.prompt # p
      BY <1>1 DEF QueueInv, Fresh, Unwritten
    <2> QED
      BY <1>1, <1>2, <1>4, <2>1
  <1>8. KeptOrExcused => Excused' \/ entry'.prompt = current
    BY <1>1, <1>4 DEF KeptOrExcused, Excused
  <1> QED
    BY <1>1, <1>2, <1>5, <1>6, <1>7, <1>8, RowLeaves

\* set writes its entry, or is refused.
LEMMA SetWriteInv == QueueInv /\ Within(SetWrite) => QueueInv'
  <1> SUFFICES ASSUME QueueInv, Within(SetWrite) PROVE QueueInv'
    OBVIOUS
  <1>1. /\ op.at = "set"
        /\ UNCHANGED <<desktop, stream, mapped, attention, attentions, watching, events, task,
                       wire, sending, late, started, used, timely, withdrawn, cancelled,
                       resumes, crashes, bounds>>
    BY DEF Within, SetWrite, adapter, sender
  <1>2. CASE op' = NoOp /\ UNCHANGED <<entry, current, exposed>>
    <2>1. TypeOK'
      BY <1>1, <1>2, Nones DEF QueueInv, TypeOK
    <2>2. op'.at = "idle" /\ \A p \in Prompts : op'.entry.prompt # p
      BY <1>2, Nones
    <2>3. \A p \in Prompts : Unwritten(p)' => Unwritten(p)
      BY <1>1, <2>2 DEF Unwritten
    <2> QED
      BY <1>1, <1>2, <2>1, <2>2, <2>3, OpMoves
  <1>3. CASE /\ entry' = op.entry /\ op' = [op EXCEPT !.at = "watch"]
             /\ current' = op.entry.prompt
             /\ exposed' = exposed \cup
                   (IF \E t \in Tasks : Holds(t) THEN {op.entry.prompt} ELSE {})
    <2>1. /\ op \in Ops /\ op.entry \in Entries /\ op.entry \in Rows /\ Queued(op.entry)
          /\ op.entry.prompt \in used
      BY <1>1, TypesOf DEF QueueInv, Standing
    <2>2. PICK x \in Prompts : x = op.entry.prompt
      BY <2>1, RowParts
    <2>3. /\ x \notin withdrawn /\ started[x] = 0 /\ late[x] = 0
          /\ \A t \in Tasks : task[t].entry.prompt # x
      BY <1>1, <2>1, <2>2 DEF QueueInv, Fresh, Unwritten
    <2>4. op' \in Ops /\ op'.at = "watch" /\ op'.entry = op.entry
      BY <1>3, <2>1 DEF Ops
    <2>5. current' = x /\ entry'.prompt = x /\ entry' \in Rows /\ exposed' \subseteq Prompts
      BY <1>3, <2>1, <2>2 DEF QueueInv, TypeOK
    <2>6. TypeOK'
      BY <1>1, <2>2, <2>4, <2>5 DEF QueueInv, TypeOK
    <2>7. \A t \in Tasks : Working(t)'
      BY <1>1 DEF QueueInv, Working, Holds, Sends
    <2>8. Standing'
      BY <1>1, <2>1, <2>4 DEF QueueInv, Standing
    <2>9. ASSUME NEW p \in Prompts PROVE Fresh(p)'
      <3> SUFFICES ASSUME Unwritten(p)' PROVE Fresh(p)'
        BY DEF Fresh
      <3>1. p \notin used /\ p # x
        BY <1>1, <2>1, <2>2, <2>4 DEF Unwritten
      <3>2. Fresh(p) /\ Unwritten(p)
        BY <3>1 DEF QueueInv, Unwritten
      <3> QED
        BY <1>1, <2>2, <2>4, <2>5, <3>1, <3>2 DEF Fresh
    <2>10. WithdrawnIsNotSent' /\ QueuedIsWanted'
      BY <1>1, <2>3, <2>5 DEF QueueInv, WithdrawnIsNotSent, QueuedIsWanted, Sends
    <2>11. KeptOrExcused'
      <3>1. CASE \E t \in Tasks : Holds(t)
        <4>1. x \in exposed'
          BY <1>3, <2>2, <3>1
        <4> QED
          BY <2>5, <4>1 DEF KeptOrExcused, Excused
      <3>2. CASE ~ \E t \in Tasks : Holds(t)
        <4>1. \A t \in Tasks : ~Holds(t)'
          BY <1>1, <3>2 DEF Holds, Sends
        <4> QED
          BY <2>4, <2>5, <4>1 DEF KeptOrExcused
      <3> QED
        BY <3>1, <3>2
    <2>12. ASSUME ~StoreMayFail, NEW p \in Prompts PROVE Allowed(p)'
      <3>1. Allowed(p) /\ started[p] \in Nat /\ late[p] \in Nat /\ resumes \in Nat
        BY <2>12, TypesOf DEF QueueInv
      <3>2. CASE p # x
        <4>1. /\ MaySend("watcher", p)' => MaySend("watcher", p)
              /\ MaySend("resumer", p)' => MaySend("resumer", p)
              /\ Rebinding' <=> Rebinding
          BY <1>1, <2>5, <3>2 DEF MaySend, Rebinding
        <4>2. /\ Count(MaySend("watcher", p))' <= Count(MaySend("watcher", p))
              /\ Count(MaySend("resumer", p))' <= Count(MaySend("resumer", p))
              /\ Count(Rebinding)' = Count(Rebinding) /\ Count(Rebinding) \in Nat
              /\ Count(MaySend("watcher", p))' \in Nat /\ Count(MaySend("watcher", p)) \in Nat
              /\ Count(MaySend("resumer", p))' \in Nat /\ Count(MaySend("resumer", p)) \in Nat
          BY <4>1 DEF Count
        <4>3. started'[p] + late'[p] + Count(MaySend("watcher", p))' + Count(MaySend("resumer", p))'
                <= started[p] + late[p] + Count(MaySend("watcher", p)) + Count(MaySend("resumer", p))
          BY <1>1, <3>1, <4>2
        <4>4. Count(Rebinding)' + resumes <= Count(Rebinding) + resumes'
          BY <1>1, <3>1, <4>2
        <4> QED
          BY <2>6, <3>1, <4>3, <4>4, AllowedKeeps
      <3>3. CASE p = x
        <4>1. started'[p] = 0 /\ late'[p] = 0 /\ resumes' = resumes
          BY <1>1, <2>3, <3>3
        <4>2. wire["resumer"] # x
          BY <2>2, <2>3, Nones DEF QueueInv, Working
        <4>3. MaySend("resumer", p)' => task["resumer"].at = "decide"
          BY <1>1, <2>3, <3>3, <4>2, Nones DEF MaySend, Reads
        <4>4. task["resumer"].at # "idle" => resumes > 0
          BY Nones DEF QueueInv, Working
        <4>5. /\ Rebinding' => resumes > 0 /\ ~MaySend("resumer", p)'
              /\ MaySend("resumer", p)' => resumes > 0
          BY <1>1, <4>3, <4>4 DEF Rebinding
        <4>6. PICK w \in 0..1, r \in 0..1, b \in 0..1 :
                 /\ w = Count(MaySend("watcher", p))' /\ r = Count(MaySend("resumer", p))'
                 /\ b = Count(Rebinding)'
                 /\ r = 1 => resumes > 0
                 /\ b = 1 => resumes > 0 /\ r = 0
          BY <4>5 DEF Count
        <4>7. w + r + 2 * b <= 1 + 2 * resumes
          BY <3>1, <4>6
        <4> QED
          BY <4>1, <4>6, <4>7 DEF Allowed
      <3> QED
        BY <3>2, <3>3
    <2> QED
      BY <2>6, <2>7, <2>8, <2>9, <2>10, <2>11, <2>12 DEF QueueInv
  <1> QED
    BY <1>2, <1>3 DEF Within, SetWrite

\* After COMPLETED the row is deleted.
LEMMA ClearSentInv ==
    ASSUME QueueInv, NEW t \in Tasks, Within(ClearSent(t))
    PROVE  QueueInv'
  <1>1. /\ task[t].at = "clear" /\ (entry' = NoEntry \/ (StoreMayFail /\ entry' = entry))
        /\ task' = [task EXCEPT ![t] = NoTask] /\ sending' = FALSE
        /\ UNCHANGED <<desktop, stream, mapped, attention, attentions, op, watching, events,
                       wire, late, started, used, current, exposed, timely, withdrawn,
                       cancelled, resumes, crashes, bounds>>
    BY DEF Within, ClearSent, Store, adapter, ghosts
  <1>2. task \in [Tasks -> Jobs] /\ NoTask \in Jobs
    BY TypesOf, Nones DEF QueueInv
  <1>3. /\ task' \in [Tasks -> Jobs] /\ task'[t] = NoTask
        /\ \A u \in Tasks : u # t => task'[u] = task[u]
    BY <1>1, <1>2, JobMoves
  <1>4. TypeOK'
    <2>1. entry' \in Rows
      BY <1>1, Nones DEF QueueInv, TypeOK
    <2> QED
      BY <1>1, <1>3, <2>1 DEF QueueInv, TypeOK
  <1>5. \A u \in Tasks : \/ task'[u] = task[u]
                         \/ task'[u] = NoTask /\ task[u].at \in {"clear", "pause"}
    BY <1>1, <1>3
  <1>6. ~Queued(entry') \/ (StoreMayFail /\ UNCHANGED <<entry, withdrawn>>)
    BY <1>1, Nones
  <1>7. \A p \in Prompts : Unwritten(p) => entry'.prompt # p /\ p \notin withdrawn'
    <2>1. \A p \in Prompts : Unwritten(p) => entry.prompt # p /\ p \notin withdrawn
      BY DEF QueueInv, Fresh
    <2> QED
      BY <1>1, <2>1, Nones
  <1>8. KeptOrExcused => Excused' \/ entry'.prompt = current
    <2>1. Holds(t) /\ started[task[t].entry.prompt] > 0
      BY <1>1 DEF QueueInv, Working, Holds, Sends
    <2>2. KeptOrExcused => Excused
      BY <2>1 DEF KeptOrExcused, Excused
    <2> QED
      BY <1>1, <2>2 DEF Excused
  <1> QED
    BY <1>1, <1>4, <1>5, <1>6, <1>7, <1>8, RowLeaves

\* mark_paused writes its copy back as PAUSED.
LEMMA MarkWriteInv ==
    ASSUME QueueInv, NEW t \in Tasks, Within(MarkWrite(t))
    PROVE  QueueInv'
  <1> DEFINE e == [task[t].entry EXCEPT !.status = "PAUSED"]
  <1>1. /\ task[t].at = "pause" /\ (entry' = e \/ (StoreMayFail /\ entry' = entry))
        /\ Withdraw(task[t].entry.prompt) /\ task' = [task EXCEPT ![t] = NoTask]
        /\ sending' = (sending /\ ~task[t].sent)
        /\ UNCHANGED <<desktop, stream, mapped, attention, attentions, op, watching, events,
                       wire, late, started, used, current, exposed, timely, cancelled,
                       resumes, crashes, bounds>>
    BY DEF Within, MarkWrite, Store, adapter
  <1>2. /\ withdrawn' \subseteq Prompts
        /\ \A p \in withdrawn' : p \in withdrawn \/ (p = task[t].entry.prompt /\ Undecided(p))
        /\ entry' = entry => withdrawn' = withdrawn
    BY <1>1, Withdrawal DEF QueueInv
  <1>3. /\ task \in [Tasks -> Jobs] /\ NoTask \in Jobs /\ Holds(t)
        /\ task[t].entry \in Entries /\ task[t].entry \in Rows
    BY <1>1, TypesOf, Nones DEF QueueInv, Working, Holds
  <1>4. e.prompt = task[t].entry.prompt /\ ~Queued(e) /\ e \in Entries /\ e \in Rows
    BY <1>3, RowParts DEF Rows
  <1> HIDE DEF e
  <1>5. /\ task' \in [Tasks -> Jobs] /\ task'[t] = NoTask
        /\ \A u \in Tasks : u # t => task'[u] = task[u]
    BY <1>1, <1>3, JobMoves
  <1>6. TypeOK'
    <2>1. entry' \in Rows
      BY <1>1, <1>4 DEF QueueInv, TypeOK
    <2>2. sending' \in BOOLEAN
      BY <1>1
    <2> QED
      BY <1>1, <1>2, <1>5, <2>1, <2>2 DEF QueueInv, TypeOK
  <1>7. \A u \in Tasks : \/ task'[u] = task[u]
                         \/ task'[u] = NoTask /\ task[u].at \in {"clear", "pause"}
    BY <1>1, <1>5
  <1>8. ~Queued(entry') \/ (StoreMayFail /\ UNCHANGED <<entry, withdrawn>>)
    BY <1>1, <1>2, <1>4
  <1>9. \A p \in Prompts : Unwritten(p) => entry'.prompt # p /\ p \notin withdrawn'
    <2>1. \A p \in Prompts : Unwritten(p) => /\ entry.prompt # p /\ p \notin withdrawn
                                             /\ task[t].entry.prompt # p
      BY DEF QueueInv, Fresh
    <2> QED
      BY <1>1, <1>2, <1>4, <2>1
  <1>10. KeptOrExcused => Excused' \/ entry'.prompt = current
    BY <1>1, <1>3, <1>4 DEF KeptOrExcused, Excused
  <1> QED
    BY <1>1, <1>2, <1>6, <1>7, <1>8, <1>9, <1>10, RowLeaves

\* resume writes the entry it has bound anew.
LEMMA ResumeWriteInv == QueueInv /\ Within(ResumeWrite) => QueueInv'
  <1> SUFFICES ASSUME QueueInv, Within(ResumeWrite) PROVE QueueInv'
    OBVIOUS
  <1>1. /\ task["resumer"].at = "resume"
        /\ UNCHANGED <<desktop, stream, mapped, attention, attentions, op, events, sending, wire,
                       late, started, used, current, exposed, timely, cancelled, resumes,
                       crashes, bounds>>
    BY DEF Within, ResumeWrite, adapter
  <1>2. /\ task \in [Tasks -> Jobs] /\ NoTask \in Jobs /\ "resumer" \in Tasks
        /\ Holds("resumer") /\ task["resumer"].entry \in Entries /\ task["resumer"].entry \in Rows
        /\ resumes > 0 /\ wire["resumer"] = NoPrompt
    BY <1>1, TypesOf, Nones DEF QueueInv, Working, Holds
  <1>3. CASE task' = [task EXCEPT !["resumer"] = NoTask] /\ UNCHANGED <<entry, watching, withdrawn>>
    <2>1. task' \in [Tasks -> Jobs] /\ task'["resumer"] = NoTask
      BY <1>2, <1>3, JobMoves
    <2>2. TypeOK'
      BY <1>1, <1>3, <2>1 DEF QueueInv, TypeOK
    <2>3. /\ Working("resumer")' /\ ~Sends("resumer")' /\ ~Holds("resumer")'
          /\ NoTask.entry.prompt = NoPrompt
      BY <1>1, <1>2, <2>1, Nones DEF Working, Holds, Sends
    <2>4. \A p \in Prompts : MaySend("resumer", p)' => MaySend("resumer", p)
      BY <1>1, <2>1, Nones DEF MaySend, Reads
    <2> QED
      BY <1>1, <1>2, <1>3, <2>2, <2>3, <2>4, ControlMoves, Nones
  <1>4. CASE /\ entry' = task["resumer"].entry /\ EnsureWatcher
             /\ withdrawn' = withdrawn \ {entry'.prompt}
             /\ task' = [task EXCEPT !["resumer"] = [NoTask EXCEPT !.at = "decide"]]
    <2>1. PICK x \in Prompts : x = task["resumer"].entry.prompt
      BY <1>2, RowParts
    <2>2. PICK j \in Jobs : /\ j = [NoTask EXCEPT !.at = "decide"]
                            /\ j.at = "decide" /\ j.entry = NoEntry
      <3>1. /\ [NoTask EXCEPT !.at = "decide"] \in Jobs
            /\ [NoTask EXCEPT !.at = "decide"].at = "decide"
            /\ [NoTask EXCEPT !.at = "decide"].entry = NoTask.entry
        BY <1>2 DEF Jobs
      <3> QED
        BY <3>1, Nones
    <2>3. /\ task' \in [Tasks -> Jobs] /\ task'["resumer"] = j
          /\ \A u \in Tasks : u # "resumer" => task'[u] = task[u]
      <3>1. task' = [task EXCEPT !["resumer"] = j]
        BY <1>4, <2>2
      <3> QED
        BY <1>2, <3>1, JobMoves
    <2>4. entry' \in Rows /\ entry'.prompt = x /\ withdrawn' = withdrawn \ {x}
      BY <1>2, <1>4, <2>1
    <2>5. watching => watching'
      BY <1>4 DEF EnsureWatcher
    <2>6. TypeOK'
      <3>1. watching' \in BOOLEAN
        BY <1>4 DEF EnsureWatcher, QueueInv, TypeOK
      <3> QED
        BY <1>1, <2>3, <2>4, <3>1 DEF QueueInv, TypeOK
    <2>7. ASSUME NEW t \in Tasks PROVE Working(t)'
      <3>1. CASE t = "resumer"
        BY <1>1, <1>2, <2>2, <2>3, <3>1 DEF Working, Holds, Sends
      <3>2. CASE t # "resumer"
        <4>1. Working(t) /\ task'[t] = task[t]
          BY <2>3, <3>2 DEF QueueInv
        <4> QED
          BY <1>1, <4>1 DEF Working, Holds, Sends
      <3> QED
        BY <3>1, <3>2
    <2>8. Standing'
      <3>1. task'["watcher"] = task["watcher"]
        BY <2>3, Nones
      <3> QED
        BY <1>1, <2>5, <3>1 DEF QueueInv, Standing
    <2>9. ASSUME NEW p \in Prompts PROVE Fresh(p)'
      <3> SUFFICES ASSUME Unwritten(p)' PROVE Fresh(p)'
        BY DEF Fresh
      <3>1. Unwritten(p)
        BY <1>1 DEF Unwritten
      <3>2. /\ p \notin withdrawn /\ started[p] = 0 /\ late[p] = 0
            /\ \A t \in Tasks : task[t].entry.prompt # p
            /\ p \notin used => op.entry.prompt # p
        BY <3>1 DEF QueueInv, Fresh
      <3>3. p # x /\ \A t \in Tasks : task'[t].entry.prompt # p
        <4>1. p # x
          BY <1>2, <2>1, <3>2
        <4>2. task'["resumer"].entry.prompt # p
          <5>1. j.entry = NoEntry
            BY <2>2
          <5>2. task'["resumer"].entry.prompt = NoPrompt
            BY <2>3, <5>1, Nones
          <5> QED
            BY <5>2, Nones
        <4>3. \A t \in Tasks : t # "resumer" => task'[t].entry.prompt # p
          BY <2>3, <3>2
        <4> QED
          BY <4>1, <4>2, <4>3
      <3> QED
        BY <1>1, <2>4, <3>2, <3>3 DEF Fresh
    <2>10. WithdrawnIsNotSent' /\ QueuedIsWanted'
      <3>1. \A t \in Tasks : Sends(t)' => Sends(t) /\ task'[t] = task[t]
        BY <2>2, <2>3 DEF Sends
      <3> QED
        BY <2>4, <3>1 DEF QueueInv, WithdrawnIsNotSent, QueuedIsWanted
    <2>11. KeptOrExcused'
      <3>1. CASE Excused
        BY <1>1, <3>1 DEF Excused, KeptOrExcused
      <3>2. CASE /\ entry.prompt = current
                 /\ \A t \in Tasks : Holds(t) => task[t].entry.prompt = current
                 /\ op.at = "pause" => op.entry.prompt = current
        <4>1. \A t \in Tasks : Holds(t)' => Holds(t) /\ task'[t] = task[t]
          BY <2>2, <2>3 DEF Holds, Sends
        <4>2. x = current
          BY <1>2, <2>1, <3>2
        <4> QED
          BY <1>1, <2>4, <3>2, <4>1, <4>2 DEF KeptOrExcused
      <3> QED
        BY <3>1, <3>2 DEF QueueInv, KeptOrExcused
    <2>12. ASSUME ~StoreMayFail, NEW p \in Prompts PROVE Allowed(p)'
      <3>1. /\ started[p] \in Nat /\ late[p] \in Nat /\ resumes \in Nat
            /\ started'[p] = started[p] /\ late'[p] = late[p] /\ resumes' = resumes
        BY <1>1, TypesOf DEF QueueInv
      <3>2. started[p] + late[p] + Count(MaySend("watcher", p)) + Count(MaySend("resumer", p))
              + 2 * Count(Rebinding) <= 1 + 2 * resumes
        BY <2>12 DEF QueueInv, Allowed
      <3>3. /\ Count(Rebinding) = 1 /\ Count(MaySend("watcher", p)) \in 0..1
            /\ Count(MaySend("resumer", p)) \in 0..1
        BY <1>1 DEF Count, Rebinding
      <3>4. PICK w \in 0..1, r \in 0..1 :
               /\ w = Count(MaySend("watcher", p))' /\ r = Count(MaySend("resumer", p))'
        BY DEF Count
      <3>5. Count(Rebinding)' = 0
        BY <2>2, <2>3 DEF Count, Rebinding
      <3>6. started'[p] + late'[p] + w + r + 2 * 0 <= 1 + 2 * resumes'
        BY <3>1, <3>2, <3>3
      <3> QED
        BY <3>4, <3>5, <3>6 DEF Allowed
    <2> QED
      BY <2>6, <2>7, <2>8, <2>9, <2>10, <2>11, <2>12 DEF QueueInv
  <1> QED
    BY <1>3, <1>4 DEF Within, ResumeWrite

-----------------------------------------------------------------------------
(* Crash, and the invariant of every behaviour. *)

\* A set of tasks has no more members than there are tasks in it.
LEMMA TasksCounted ==
    ASSUME NEW U \in SUBSET Tasks
    PROVE  /\ Cardinality(U) \in Nat
           /\ Cardinality(U) <= Count("watcher" \in U) + Count("resumer" \in U)
           /\ U = {} => Cardinality(U) = 0
  <1>0. Count(TRUE) = 1 /\ Count(FALSE) = 0
    BY Counts
  <1>1. CASE U = {}
    <2>1. Cardinality(U) = 0
      BY <1>1, FS_EmptySet
    <2>2. Count("watcher" \in U) \in Nat /\ Count("resumer" \in U) \in Nat
      BY DEF Count
    <2> QED
      BY <2>1, <2>2
  <1>2. CASE U = {"watcher"}
    <2>1. Cardinality(U) = 1
      BY <1>2, FS_Singleton
    <2>2. Count("watcher" \in U) = 1 /\ Count("resumer" \in U) \in Nat
      BY <1>2 DEF Count
    <2> QED
      BY <1>2, <2>1, <2>2
  <1>3. CASE U = {"resumer"}
    <2>1. Cardinality(U) = 1
      BY <1>3, FS_Singleton
    <2>2. Count("watcher" \in U) \in Nat /\ Count("resumer" \in U) = 1
      BY <1>3 DEF Count
    <2> QED
      BY <1>3, <2>1, <2>2
  <1>4. CASE U = {"watcher", "resumer"}
    <2>1. IsFiniteSet({"watcher"}) /\ Cardinality({"watcher"}) = 1
      BY FS_Singleton
    <2>2. U = {"watcher"} \cup {"resumer"} /\ "resumer" \notin {"watcher"}
      BY <1>4
    <2>3. Cardinality(U) = Cardinality({"watcher"}) + 1
      BY <2>1, <2>2, FS_AddElement
    <2>4. Count("watcher" \in U) = 1 /\ Count("resumer" \in U) = 1
      BY <1>4 DEF Count
    <2> QED
      BY <1>4, <2>1, <2>3, <2>4
  <1> QED
    BY <1>1, <1>2, <1>3, <1>4 DEF Tasks

\* The Bridge crashes: what was at Desktop may still be started.
LEMMA CrashInv == QueueInv /\ Within(CrashAndRestart) => QueueInv'
  <1> SUFFICES ASSUME QueueInv, Within(CrashAndRestart) PROVE QueueInv'
    OBVIOUS
  <1> DEFINE At(S, p) == {t \in Tasks : t \in S /\ wire[t] = p}
  <1>1. /\ crashes' = crashes + 1 /\ stream' = <<>> /\ mapped' = desktop /\ op' = NoOp
        /\ watching' = FALSE /\ events' = <<>> /\ task' = [t \in Tasks |-> NoTask]
        /\ sending' = FALSE /\ wire' = [t \in Tasks |-> NoPrompt]
        /\ UNCHANGED <<desktop, attention, attentions, entry, started, used, current, exposed,
                       timely, withdrawn, cancelled, resumes, bounds>>
    BY DEF Within, CrashAndRestart, ghosts
  <1>2. PICK S \in SUBSET Tasks : late' = [p \in Prompts |-> late[p] + Cardinality(At(S, p))]
    BY DEF Within, CrashAndRestart
  <1>3. \A p \in Prompts :
           /\ late[p] \in Nat /\ Cardinality(At(S, p)) \in Nat
           /\ late'[p] = late[p] + Cardinality(At(S, p))
           /\ At(S, p) = {} => Cardinality(At(S, p)) = 0
           /\ Cardinality(At(S, p)) <= Count("watcher" \in At(S, p)) + Count("resumer" \in At(S, p))
    <2> SUFFICES ASSUME NEW p \in Prompts
                 PROVE  /\ late[p] \in Nat /\ Cardinality(At(S, p)) \in Nat
                        /\ late'[p] = late[p] + Cardinality(At(S, p))
                        /\ At(S, p) = {} => Cardinality(At(S, p)) = 0
                        /\ Cardinality(At(S, p)) <=
                              Count("watcher" \in At(S, p)) + Count("resumer" \in At(S, p))
      OBVIOUS
    <2>1. late[p] \in Nat
      BY TypesOf DEF QueueInv
    <2>2. late'[p] = late[p] + Cardinality(At(S, p))
      BY <1>2
    <2>3. At(S, p) \in SUBSET Tasks
      OBVIOUS
    <2> HIDE DEF At
    <2> QED
      BY <2>1, <2>2, <2>3, TasksCounted
  <1>4. \A t \in Tasks : task'[t] = NoTask /\ wire'[t] = NoPrompt
    BY <1>1
  <1>5. TypeOK'
    <2>1. late' \in [Prompts -> Nat]
      <3>1. \A p \in Prompts : late[p] + Cardinality(At(S, p)) \in Nat
        <4> HIDE DEF At
        <4> QED
          BY <1>3
      <3> QED
        BY <1>2, <3>1
    <2>2. /\ stream' \in Seq(Change) /\ events' \in Seq(Change)
      BY <1>1
    <2>3. /\ task' \in [Tasks -> Jobs] /\ wire' \in [Tasks -> Prompts \cup {NoPrompt}]
      BY <1>1, Nones
    <2>4. crashes' \in Nat /\ mapped' \in [turn : Turns, last : Turns]
      BY <1>1 DEF QueueInv, TypeOK
    <2>5. op' \in Ops
      BY <1>1, Nones
    <2> QED
      BY <1>1, <2>1, <2>2, <2>3, <2>4, <2>5 DEF QueueInv, TypeOK
  <1>6. \A t \in Tasks : Working(t)'
    BY <1>4, Nones DEF Working, Holds, Sends
  <1>7. Standing'
    BY <1>1, <1>4, Nones DEF Standing
  <1>8. ASSUME NEW p \in Prompts PROVE Fresh(p)'
    <2> SUFFICES ASSUME Unwritten(p)' PROVE Fresh(p)'
      BY DEF Fresh
    <2>1. p \notin used /\ Unwritten(p)
      BY <1>1, Nones DEF Unwritten
    <2>2. /\ p \notin withdrawn /\ started[p] = 0 /\ late[p] = 0 /\ entry.prompt # p
          /\ \A t \in Tasks : task[t].entry.prompt # p
      BY <2>1 DEF QueueInv, Fresh
    <2>3. \A t \in Tasks : wire[t] # p
      BY <2>2, Nones DEF QueueInv, Working
    <2>4. At(S, p) = {}
      BY <2>3
    <2>5. late'[p] = 0
      <3> HIDE DEF At
      <3> QED
        BY <1>3, <2>2, <2>4
    <2>6. op'.entry.prompt # p /\ \A t \in Tasks : task'[t].entry.prompt # p
      BY <1>1, <1>4, Nones
    <2> QED
      BY <1>1, <2>2, <2>5, <2>6 DEF Fresh
  <1>9. WithdrawnIsNotSent' /\ QueuedIsWanted'
    <2>1. \A t \in Tasks : ~Sends(t)'
      BY <1>4, Nones DEF Sends
    <2> QED
      BY <1>1, <2>1 DEF QueueInv, WithdrawnIsNotSent, QueuedIsWanted
  <1>10. KeptOrExcused'
    <2>1. op'.at = "idle" /\ \A t \in Tasks : ~Holds(t)'
      BY <1>1, <1>4, Nones DEF Holds, Sends
    <2> QED
      BY <1>1, <2>1 DEF QueueInv, KeptOrExcused, Excused
  <1>11. ASSUME ~StoreMayFail, NEW p \in Prompts PROVE Allowed(p)'
    <2>1. Allowed(p) /\ started[p] \in Nat /\ resumes \in Nat /\ started'[p] = started[p]
      BY <1>1, <1>11, TypesOf DEF QueueInv
    <2>2. /\ "watcher" \in At(S, p) => MaySend("watcher", p)
          /\ "resumer" \in At(S, p) => MaySend("resumer", p)
      BY DEF MaySend
    <2>3. ~MaySend("watcher", p)' /\ ~MaySend("resumer", p)' /\ ~Rebinding'
      BY <1>1, <1>4, Nones DEF MaySend, Reads, Rebinding
    <2>4. /\ Count(MaySend("watcher", p))' = 0 /\ Count(MaySend("resumer", p))' = 0
          /\ Count(Rebinding)' = 0 /\ Count(Rebinding) \in Nat
          /\ Count(MaySend("watcher", p)) \in Nat /\ Count(MaySend("resumer", p)) \in Nat
      BY <2>3 DEF Count
    <2> HIDE DEF At
    <2>5. /\ Count("watcher" \in At(S, p)) <= Count(MaySend("watcher", p))
          /\ Count("resumer" \in At(S, p)) <= Count(MaySend("resumer", p))
          /\ Count("watcher" \in At(S, p)) \in Nat /\ Count("resumer" \in At(S, p)) \in Nat
      BY <2>2 DEF Count
    <2>6. started'[p] + late'[p] + Count(MaySend("watcher", p))' + Count(MaySend("resumer", p))'
            <= started[p] + late[p] + Count(MaySend("watcher", p)) + Count(MaySend("resumer", p))
      BY <1>3, <2>1, <2>4, <2>5
    <2>7. Count(Rebinding)' + resumes <= Count(Rebinding) + resumes'
      BY <1>1, <2>1, <2>4
    <2> QED
      BY <1>5, <2>1, <2>6, <2>7, AllowedKeeps
  <1> QED
    BY <1>5, <1>6, <1>7, <1>8, <1>9, <1>10, <1>11 DEF QueueInv

\* The initial states.
LEMMA InitInv == Init => QueueInv
  <1> SUFFICES ASSUME Init PROVE QueueInv
    OBVIOUS
  <1>1. /\ stream = <<>> /\ events = <<>> /\ mapped = desktop /\ attention = FALSE
        /\ entry = NoEntry /\ op = NoOp /\ watching = FALSE /\ task = [t \in Tasks |-> NoTask]
        /\ sending = FALSE /\ wire = [t \in Tasks |-> NoPrompt]
        /\ late = [p \in Prompts |-> 0] /\ started = [p \in Prompts |-> 0]
        /\ used = {} /\ current = NoPrompt /\ exposed = {} /\ timely = {} /\ withdrawn = {}
        /\ cancelled = {} /\ attentions = 0 /\ resumes = 0 /\ crashes = 0 /\ bounds \in Setups
    BY DEF Init
  <1>2. \A t \in Tasks : task[t] = NoTask /\ wire[t] = NoPrompt
    BY <1>1
  <1>3. \A p \in Prompts : late[p] = 0 /\ started[p] = 0
    BY <1>1
  <1>4. TypeOK
    <2>1. desktop \in [turn : Turns, last : Turns]
      <3>1. 0 \in Turns /\ 1 \in Turns
        <4>1. MaxTurns \in Nat /\ MaxTurns # 0
          BY QueueBounds
        <4>2. 0 \in 0 .. MaxTurns /\ 1 \in 0 .. MaxTurns
          BY <4>1
        <4> QED
          BY <4>2 DEF Turns
      <3>2. desktop = [turn |-> 0, last |-> 0] \/ desktop = [turn |-> 1, last |-> 1]
        BY DEF Init
      <3> QED
        BY <3>1, <3>2
    <2>2. stream \in Seq(Change) /\ events \in Seq(Change)
      BY <1>1
    <2>3. task \in [Tasks -> Jobs] /\ wire \in [Tasks -> Prompts \cup {NoPrompt}]
      BY <1>1, Nones
    <2>4. late \in [Prompts -> Nat] /\ started \in [Prompts -> Nat]
      BY <1>1
    <2>5. entry \in Rows /\ op \in Ops
      BY <1>1, Nones
    <2> QED
      BY <1>1, <2>1, <2>2, <2>3, <2>4, <2>5 DEF TypeOK
  <1>5. (\A t \in Tasks : Working(t)) /\ Standing
    <2>1. \A t \in Tasks : Working(t)
      BY <1>2, Nones DEF Working, Holds, Sends
    <2> QED
      BY <1>1, <1>2, <2>1, Nones DEF Standing
  <1>6. \A p \in Prompts : Fresh(p)
    BY <1>1, <1>2, <1>3, Nones DEF Fresh
  <1>7. WithdrawnIsNotSent /\ QueuedIsWanted /\ KeptOrExcused
    <2>1. Excused
      BY <1>1 DEF Excused
    <2> QED
      BY <1>1, <2>1 DEF WithdrawnIsNotSent, QueuedIsWanted, KeptOrExcused
  <1>8. ASSUME NEW p \in Prompts PROVE Allowed(p)
    <2>1. ~MaySend("watcher", p) /\ ~MaySend("resumer", p) /\ ~Rebinding
      BY <1>1, <1>2, Nones DEF MaySend, Reads, Rebinding
    <2>2. /\ Count(MaySend("watcher", p)) = 0 /\ Count(MaySend("resumer", p)) = 0
          /\ Count(Rebinding) = 0
      BY <2>1 DEF Count
    <2>3. 0 + 0 + 0 + 0 + 2 * 0 <= 1 + 2 * 0
      OBVIOUS
    <2> QED
      BY <1>1, <1>3, <2>2, <2>3 DEF Allowed
  <1> QED
    BY <1>4, <1>5, <1>6, <1>7, <1>8 DEF QueueInv

\* Every step keeps the invariant.
LEMMA StepInv == QueueInv /\ [Next]_vars => QueueInv'
  <1> SUFFICES ASSUME QueueInv, [Next]_vars PROVE QueueInv'
    OBVIOUS
  <1>1. CASE UNCHANGED vars
    <2>1. UNCHANGED <<desktop, stream, mapped, attention, entry, op, watching, events, task,
                      sending, wire, late, used, started, current, exposed, timely,
                      withdrawn, cancelled, attentions, resumes, crashes, bounds>>
      BY <1>1 DEF vars
    <2>2. TypeOK'
      BY <2>1 DEF QueueInv, TypeOK
    <2>3. \A p \in Prompts : /\ started[p] \in Nat /\ late[p] \in Nat /\ started[p] >= started[p]
                             /\ Unwritten(p) => started[p] = 0 /\ late[p] = 0
      BY TypesOf DEF QueueInv, Fresh
    <2> QED
      BY <2>1, <2>2, <2>3, QuietMoves
  <1>2. CASE Within(DesktopStep) \/ Within(Pump)
    <2>1. \/ Within(UserStarts) \/ Within(Attention) \/ Within(Pump)
          \/ \E kind \in {"completed", "failed"} : Within(TurnEnds(kind))
          \/ \E p \in Prompts : Within(DesktopStartsLate(p))
      BY <1>2 DEF Within, DesktopStep
    <2> QED
      BY <2>1, DesktopInv, LateStartInv
  <1>3. CASE Within(Command)
    <2>1. \/ \E p \in MayQueue, replace \in BOOLEAN : Within(SetSnapshot(p, replace))
          \/ Within(Cancel) \/ Within(PauseRead) \/ Within(ResumeRead)
      BY <1>3 DEF Within, Command
    <2> QED
      BY <2>1, SetSnapshotInv, CancelInv, PauseReadInv, ResumeReadInv
  <1>4. CASE Within(CommandStep)
    <2>1. Within(SetWrite) \/ Within(SetWatch) \/ Within(PauseWrite)
      BY <1>4 DEF Within, CommandStep
    <2> QED
      BY <2>1, SetWriteInv, SetWatchInv, PauseWriteInv
  <1>5. ASSUME NEW t \in Tasks, Within(TaskStep(t)) PROVE QueueInv'
    <2>1. \/ Within(Decide(t)) \/ Within(CheckSnapshot(t)) \/ Within(SendStart(t))
          \/ Within(DesktopStarts(t)) \/ Within(SendFails(t)) \/ Within(ClearSent(t))
          \/ Within(MarkRead(t)) \/ Within(MarkWrite(t))
      BY <1>5 DEF Within, TaskStep
    <2> QED
      BY <2>1, DecideInv, CheckSnapshotInv, SendStartInv, DesktopStartsInv, SendFailsInv,
         ClearSentInv, MarkReadInv, MarkWriteInv
  <1>6. CASE Within(ResumeStep)
    <2>1. Within(ResumeSnapshot) \/ Within(ResumeWrite)
      BY <1>6 DEF Within, ResumeStep
    <2> QED
      BY <2>1, ResumeSnapshotInv, ResumeWriteInv
  <1>7. CASE Within(OnEvent) \/ Within(CrashAndRestart)
    BY <1>7, OnEventInv, CrashInv
  <1> QED
    BY <1>1, <1>2, <1>3, <1>4, <1>5, <1>6, <1>7 DEF Next

\* The inductive invariant holds in every behaviour: any prompts, any number of
\* turns, resumes and crashes, with or without store failures.
THEOREM QueueInvariant == Spec => []QueueInv
  BY InitInv, StepInv, PTL DEF Spec

\* The variables have their types: the row is an entry or none, and a task
\* holds a row (NextTurnEntry, QueueState).
THEOREM QueueTypeCorrect == Spec => []TypeOK
  <1>1. QueueInv => TypeOK
    BY DEF QueueInv
  <1> QED
    BY <1>1, QueueInvariant, PTL

\* While the store does not fail, Desktop starts a turn for a queued prompt at
\* most once, and at most twice more for every resume: whatever the watcher,
\* queue commands, lost answers and crashes do (maybe_auto_send, resume).
THEOREM QueuedIsSentOnce == ASSUME ~StoreMayFail PROVE Spec => []SentAtMostOnce
  <1>1. QueueInv => SentAtMostOnce
    <2> SUFFICES ASSUME QueueInv, NEW p \in Prompts PROVE started[p] <= 1 + 2 * resumes
      BY DEF SentAtMostOnce
    <2>1. started[p] \in Nat /\ late[p] \in Nat /\ resumes \in Nat
      BY TypesOf DEF QueueInv
    <2>2. started[p] + late[p] + Count(MaySend("watcher", p)) + Count(MaySend("resumer", p))
            + 2 * Count(Rebinding) <= 1 + 2 * resumes
      BY DEF QueueInv, Allowed
    <2>3. /\ Count(MaySend("watcher", p)) \in 0..1 /\ Count(MaySend("resumer", p)) \in 0..1
          /\ Count(Rebinding) \in 0..1
      BY DEF Count
    <2> QED
      BY <2>1, <2>2, <2>3
  <1> QED
    BY <1>1, QueueInvariant, PTL

\* An accepted prompt stays in the queue until it is started, cancelled or
\* replaced, unless a task still held an older entry when it was written, even
\* if store writes fail and the Bridge crashes (set, mark_paused).
THEOREM AcceptedPromptIsKept == Spec => []AcceptedIsKept
  <1>1. QueueInv => AcceptedIsKept
    BY DEF QueueInv, KeptOrExcused, Excused, AcceptedIsKept
  <1> QED
    BY <1>1, QueueInvariant, PTL

\* A prompt paused or deleted while no task was sending it is not sent again
\* before it is resumed (maybe_auto_send reads the row anew).
THEOREM WithdrawnStaysUnsent == Spec => []WithdrawnIsNotSent
  <1>1. QueueInv => WithdrawnIsNotSent
    BY DEF QueueInv
  <1> QED
    BY <1>1, QueueInvariant, PTL
=============================================================================
