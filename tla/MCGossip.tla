------------------------------ MODULE MCGossip -----------------------------
(* Model checking of Gossip.                                               *)
EXTENDS Gossip

NoLimit == [n \in Nodes |-> 0]

\* Limits that differ, so that a node with two of them can have stored two hops,
\* and have a neighbour that accepts three.
MixedLimits == [n \in Nodes |-> CASE n = 1 -> 1 [] n \in {2, 3} -> 2 [] OTHER -> 0]

MCHopLimits == {NoLimit, MixedLimits}
=============================================================================
