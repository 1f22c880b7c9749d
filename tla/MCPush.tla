------------------------------- MODULE MCPush ------------------------------
(* Model checking of Push: messages of different length, with the same id  *)
(* and contents that can get mixed.                                        *)
EXTENDS Push, TLC

CONSTANTS i1, m1, m2, s1

MCIdOf == [m \in Msgs |-> i1]
MCContent == [m \in Msgs |-> IF m = m1 THEN <<"a", "b">> ELSE <<"b">>]

\* s1 has the message m1, another sender has m2.
MCSends == [s \in Senders |-> IF s = s1 THEN m1 ELSE m2]
Symmetric == Permutations(Handlers)
=============================================================================
