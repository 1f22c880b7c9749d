----------------------------- MODULE MCDelivery ----------------------------
(* Delivery on small instances: two messages, one message and more faults, *)
(* and two loops of the same peer that push one message.                   *)
EXTENDS Delivery

CONSTANTS l1, l2, m1, m2

MCScopes ==
    {[loops |-> {l1}, msgs |-> {m1, m2}, faults |-> 1],
     [loops |-> {l1}, msgs |-> {m1}, faults |-> 3],
     [loops |-> {l1, l2}, msgs |-> {m1}, faults |-> 1]}
=============================================================================
