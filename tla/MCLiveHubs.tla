----------------------------- MODULE MCLiveHubs -----------------------------
(* LiveHubs with two elements, two EventSource URLs and one WebSocket URL  *)
(* on the same path as one of them.                                        *)
EXTENDS LiveHubs, TLC

CONSTANTS p1, p2

TwoPaths == {p1, p2}

Endpoints == {[proto |-> "sse", path |-> p1], [proto |-> "sse", path |-> p2],
              [proto |-> "ws", path |-> p1]}

HubObjects == 1..3

\* Elements are interchangeable.
Symmetry == Permutations(Elements)
=============================================================================
