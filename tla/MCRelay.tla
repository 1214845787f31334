------------------------------ MODULE MCRelay -------------------------------
(* TLC instance of RelayCommands.  One run explores three kinds of behaviour: *)
(* two browsers with one request id, a Relay crash, and a shutdown while the  *)
(* receipt table fails.                                                       *)
EXTENDS RelayCommands

CONSTANTS r1, d1, d2, b1, b2

MCRequests == {r1}
MCDigests == {d1, d2}
MCBrowsers == {b1, b2}

Sharing == [browsers |-> {b1, b2}, digests |-> {d1, d2}, submits |-> 2, crashes |-> 0,
            shutdown |-> FALSE, failures |-> FALSE]
Crashing == [Sharing EXCEPT !.browsers = {b1}, !.digests = {d1}, !.crashes = 1]
Failing == [Crashing EXCEPT !.crashes = 0, !.shutdown = TRUE, !.failures = TRUE]

MCSetups == {Sharing, Crashing, Failing}
=============================================================================
