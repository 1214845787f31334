----------------------------- MODULE CodexMapper -----------------------------
(***************************************************************************)
(* SessionMapper: the projection of one Codex conversation.  It takes the  *)
(* snapshots and patches of the owner and derives the events the Bridge's  *)
(* watchers get, from the differences of ids, states and lengths only.     *)
(*                                                                         *)
(* A conversation state is abstracted to                                   *)
(*   t, run   the latest turn (0: none) and whether it is in progress      *)
(*   q        a question or an approval waits in it                        *)
(*   out      per turn the output of its command: its length n, and w,     *)
(*            which changes when the output is not an extension of what it *)
(*            was; the command of a turn that is over is terminal          *)
(*                                                                         *)
(* Bridge: adapter/codex/mapper.rs, adapter/codex/projection.rs.           *)
(***************************************************************************)
EXTENDS Integers, Sequences, SequencesExt

CONSTANT MaxTurns  \* bound: turns of the conversation

(* extract_turns; of the items parse_item tells apart a command's output   *)
(* is kept: the others are only passed on, whole (ItemUpsert).             *)
Turns == 1 .. MaxTurns

Empty == [w |-> 0, n |-> 0]
NewConversation == [t |-> 0, run |-> FALSE, q |-> FALSE, out |-> [i \in Turns |-> Empty]]

(* command_status_is_terminal of the command of turn i.                    *)
Terminal(st, i) == i < st.t \/ (i = st.t /\ ~st.run)

(* SessionMapper::new; pend holds the output that is not sent yet.  gen is *)
(* history: the incarnation of the owner whose state this is.              *)
NoPending == [on |-> FALSE, at |-> 0, w |-> 0, n |-> 0]
NewMapper == [has |-> FALSE, rev |-> 0, gen |-> 0, st |-> NewConversation,
              pend |-> [i \in Turns |-> NoPending]]

(* take_pending_output: what was merged so far, as one append.             *)
Pending(i, p) ==
  IF p.on THEN << [k |-> "append", t |-> i, at |-> p.at, w |-> p.w, n |-> p.n] >> ELSE <<>>

ReplaceEvent(i, o) == << [k |-> "replace", t |-> i, w |-> o.w, n |-> o.n] >>
FinalEvent(i, o) == << [k |-> "final", t |-> i, n |-> o.n] >>

(* output_delta_events: an extension, as anything is of an empty output,   *)
(* waits to be appended; anything else of another length replaces what was *)
(* sent, and what was to be appended is dropped.  Output of the same       *)
(* length is taken to be the same.                                         *)
OutputDelta(i, a, b, p) ==
  IF b.n = a.n THEN [ev |-> <<>>, p |-> p]
  ELSE IF (b.w = a.w \/ a.n = 0) /\ b.n > a.n
       THEN [ev |-> <<>>, p |-> [on |-> TRUE, at |-> IF p.on THEN p.at ELSE a.n, w |-> b.w,
                                 n |-> p.n + (b.n - a.n)]]
       ELSE [ev |-> ReplaceEvent(i, b), p |-> NoPending]

(* One command: not in the state, new to the mapper (of the first snapshot *)
(* only the tracks are kept), or known; when a known one ends its output   *)
(* is flushed and closed.                                                  *)
ItemEvents(m, st, i) ==
  LET d == OutputDelta(i, m.st.out[i], st.out[i], m.pend[i])
      new == i > m.st.t
  IN  IF i > st.t \/ ~m.has THEN [ev |-> <<>>, p |-> m.pend[i]]
      ELSE IF new
           THEN [ev |-> (IF st.out[i].n = 0 THEN <<>> ELSE ReplaceEvent(i, st.out[i]))
                        \o (IF Terminal(st, i) THEN FinalEvent(i, st.out[i]) ELSE <<>>),
                 p |-> m.pend[i]]
      ELSE IF Terminal(st, i) /\ ~Terminal(m.st, i)
           THEN [ev |-> d.ev \o Pending(i, d.p) \o FinalEvent(i, st.out[i]), p |-> NoPending]
           ELSE d

(* What the projection finds in a state: the turn in progress, and the     *)
(* questions and approvals that wait.                                      *)
RunningTurn(st) == IF st.run THEN st.t ELSE 0
Attentions(st) == st.q

(* The turn's lifecycle, the attention difference, the summary.            *)
TurnEvents(m, st) ==
  IF RunningTurn(m.st) # RunningTurn(st)
  THEN << [k |-> "turn", t |-> st.t, run |-> st.run] >> ELSE <<>>

DiffAttentions(m, st) ==
  IF Attentions(m.st) # Attentions(st)
  THEN << [k |-> "attention", q |-> Attentions(st)] >> ELSE <<>>

SummaryEvents(m, st) ==
  IF ~m.has \/ m.st.run # st.run \/ Attentions(m.st) # Attentions(st) THEN << [k |-> "summary"] >> ELSE <<>>

(* apply_snapshot: whatever its revision.                                  *)
ApplySnapshot(m, gen, rev, st) ==
  [m |-> [has |-> TRUE, rev |-> rev, gen |-> gen, st |-> st,
          pend |-> [i \in Turns |-> ItemEvents(m, st, i).p]],
   ev |-> FlattenSeq([i \in Turns |-> ItemEvents(m, st, i).ev])
          \o TurnEvents(m, st) \o DiffAttentions(m, st) \o SummaryEvents(m, st)]

(* apply_immer_patches: the fields a patch names get its values.           *)
ApplyImmerPatches(st, p) == [f \in DOMAIN st |-> IF f \in DOMAIN p THEN p[f] ELSE st[f]]

(* apply_patches applies a patch only to the revision it was made for.     *)
AppliesAnyway(m, base, rev) == m.has  \* mutant: the base is not compared
Applies(m, base, rev) == m.has /\ m.rev = base /\ rev > base

(* flush_due_outputs for one command.                                      *)
FlushKeeping(m, i) == [m |-> m, ev |-> Pending(i, m.pend[i])]  \* mutant: not taken out
FlushDue(m, i) == [m |-> [m EXCEPT !.pend[i] = NoPending], ev |-> Pending(i, m.pend[i])]

=============================================================================
