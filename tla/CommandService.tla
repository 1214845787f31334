--------------------------- MODULE CommandService ---------------------------
(***************************************************************************)
(* What the Bridge promises the Relay about write commands, without        *)
(* receipts, tasks, queues or processes: a request id stands for one       *)
(* payload, its effect happens at most once and only after it was          *)
(* accepted, COMPLETED is told only of an effect that has happened, and    *)
(* COMPLETED and REJECTED are never both told of one accepted request.     *)
(* What is told may be lost, and a request may stay without an effect.     *)
(***************************************************************************)
EXTENDS Naturals

CONSTANTS Requests, Payloads, NoPayload

VARIABLES accepted,     \* request id -> the payload it stands for
          effects,      \* request id -> how often its effect has happened
          told          \* what the Relay has been told of accepted requests

vars == <<accepted, effects, told>>

Init ==
    /\ accepted = [r \in Requests |-> NoPayload]
    /\ effects = [r \in Requests |-> 0]
    /\ told = {}

Accept(r, p) ==
    /\ accepted[r] = NoPayload
    /\ accepted' = [accepted EXCEPT ![r] = p]
    /\ UNCHANGED <<effects, told>>

Effect(r) ==
    /\ accepted[r] # NoPayload
    /\ effects[r] = 0
    /\ effects' = [effects EXCEPT ![r] = 1]
    /\ UNCHANGED <<accepted, told>>

Contradicts(s, t) == {s, t} = {"COMPLETED", "REJECTED"}

Tell(r, s) ==
    /\ accepted[r] # NoPayload
    /\ s = "COMPLETED" => effects[r] = 1
    /\ \A m \in told : m[1] = r => ~Contradicts(s, m[2])
    /\ told' = told \cup {<<r, s>>}
    /\ UNCHANGED <<accepted, effects>>

Next ==
    \E r \in Requests :
        \/ \E p \in Payloads : Accept(r, p)
        \/ Effect(r)
        \/ \E s \in {"ACCEPTED_BY_BRIDGE", "DISPATCHED_TO_CODEX", "COMPLETED",
                     "REJECTED", "OUTCOME_UNKNOWN"} : Tell(r, s)

Spec == Init /\ [][Next]_vars
=============================================================================
