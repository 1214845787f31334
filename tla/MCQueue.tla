------------------------------ MODULE MCQueue -------------------------------
(* TLC instance of NextTurnQueue.  One run explores three kinds of behaviour: *)
(* lost answers and a crash over three turns, two prompts that replace each   *)
(* other around a crash, and a resume beside the watcher with attention that  *)
(* holds the prompt back.                                                     *)
EXTENDS NextTurnQueue

CONSTANTS p1, p2

MCPrompts == {p1, p2}

Losing == [prompts |-> {p1}, turns |-> 3, attentions |-> 0, resumes |-> 0, crashes |-> 1,
           disconnects |-> TRUE]
Replacing == [Losing EXCEPT !.prompts = {p1, p2}, !.turns = 2]
Resuming == [Losing EXCEPT !.turns = 2, !.attentions = 1, !.resumes = 1, !.crashes = 0,
                           !.disconnects = FALSE]

MCSetups == {Losing, Replacing, Resuming}
=============================================================================
