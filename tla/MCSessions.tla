----------------------------- MODULE MCSessions -----------------------------
(* Model-checking instance of RelaySessions.  The four setups bound four   *)
(* kinds of behaviour that one run explores side by side: two overlapping  *)
(* loops with Browser requests, a failing database call, a restart of the  *)
(* Relay, and a walk through the list while summaries arrive.              *)
EXTENDS RelaySessions

CONSTANTS c1, c2, done, asks, i1, e1, e2

MCLoops == {c1, c2}
MCKinds == {done, asks}
MCSubIds == {i1}
MCEndpoints == {e1, e2}

Pushing == [connects |-> 2, envelopes |-> 2, changes |-> 1, expiries |-> 1, walks |-> 0,
            faults |-> 0, restarts |-> 0, time |-> 0, push |-> 1]
Failing == [Pushing EXCEPT !.expiries = 0, !.faults = 1]
Restarting == [Pushing EXCEPT !.changes = 0, !.restarts = 1]
Walking == [Pushing EXCEPT !.connects = 1, !.envelopes = 4, !.walks = 1, !.time = 1, !.push = 0]

MCSetups == {Pushing, Failing, Restarting, Walking}

Interchangeable ==
  Permutations(MCLoops) \cup Permutations(MCKinds) \cup Permutations(MCEndpoints)
=============================================================================
