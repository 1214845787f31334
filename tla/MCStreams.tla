----------------------------- MODULE MCStreams ------------------------------
(* TLC instances of RelayStreams. *)
EXTENDS RelayStreams

CONSTANTS d1, d2, c1

MCDevices == {d1, d2}
MCOneConn == {c1}

Scene(about, kinds, events, subscribes, epochs, links, rare) ==
    [target |-> about, kinds |-> kinds, events |-> events, subscribes |-> subscribes,
     epochs |-> epochs, links |-> links, rare |-> rare]
MCFanout ==
    {Scene("list", {"critical"}, 1, 1, 2, 2, 1),
     Scene("session", {"critical", "append"}, 2, 1, 3, 1, 1),
     Scene("session", {"critical", "append"}, 2, 2, 2, 1, 0),
     Scene("session", {"critical"}, 1, 2, 2, 1, 1),
     Scene("session", {"critical"}, 1, 1, 2, 2, 1),
     Scene("session", {"critical"}, 0, 1, 3, 2, 1),
     Scene("session", {"critical"}, 0, 1, 2, 3, 1)}

\* The search for a loop is narrowed to the behaviours in which the browser is
\* still subscribing, only links are lost and handlers run one after the other.
MCLoop == {Scene("list", {"critical"}, 0, 1, 8, 3, 1)}
MCSubscribing == budget.subscribes < scene.subscribes => attaching = Conns
MCOneByOne ==
    /\ (\E d \in Devices : bridge[d].jobs # <<>>) =>
           \E d \in Devices : bridge[d].jobs # bridge'[d].jobs
    /\ budget.rare # budget'.rare => loop # loop'
=============================================================================
