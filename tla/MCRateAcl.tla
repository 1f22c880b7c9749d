----------------------------- MODULE MCRateAcl -----------------------------
(* RateAcl with two peers that push, the node itself, and a stranger; the  *)
(* limits are one call per second, and one in three seconds.               *)
EXTENDS RateAcl

CONSTANTS me, a, o, z

All == {me, a, o, z}
MCPushers == {me, a}

\* The first entry forbids z; the second would permit it.
MCAcl ==
    << <<[who |-> {z}, limit |-> 0], [who |-> All, limit |-> 3]>>,
       <<[who |-> {me, a}, limit |-> 1]>> >>

MCOwner == <<{o}, {}>>
=============================================================================
